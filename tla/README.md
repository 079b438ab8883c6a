# A TLA+ development of grpc-ebcdic

grpc-ebcdic is a gRPC service with one streaming call, `ParseEbcdic`. A client
sends a layout and then the bytes of a mainframe extract in chunks of any size;
the server answers with the resolved layout, one event per decoded record as
soon as the record's last byte has arrived, optionally a Document of all rows,
and a trailer with the counts. This directory models that program, checks the
models with TLC and proves their safety properties with TLAPS. Source paths below are
relative to the repository's root.

## Inventory

| Part | State | Operations | Hard behaviour | What makes it correct |
|---|---|---|---|---|
| **Record walker** `src/stream.rs` | buffer, cursor, absolute offset, header left, counters, truncation | `push`, `finish_input`, `next_record`, `status` | chunk boundaries inside header, prefix, body and footer; compaction; early stop | rows tile the data section, are independent of chunking, never late, never from the footer; bounded memory; a trailer that adds up |
| **Parse session** `src/service.rs` | one call's task, pending event, channel, batch, outcome, slot | `parse_ebcdic`, `run_parse`, `drain`, `EventSink::send`/`finish`, `TrailerGuard::poll_next` | three concurrent parties (task, response stream, client), timeouts on both sides, hang-ups, lost errors | the client gets exactly the promised event stream; back pressure; the slot always comes back; the outcome it is told is the outcome |
| **Admission and counters** `src/service.rs`, `src/metrics.rs` | semaphore, process counters | admit, refuse, start, release, count | calls interleave; release and count are two steps | permits conserved; refusal only when full; counters balance |
| **Document fold** `src/document_fold.rs` | rows per schema, byte estimate, arenas | `begin`, `row`, `truncation_warnings`, `take` | two caps over interleaved schemas | tables are prefixes, cuts are counted and reported, links and grid consistent |
| **Field decoders** `src/decode.rs`, `to_cell_value` and `decode_field` in `src/stream.rs` | accumulator | `decode_packed`, `decode_zoned`, `decode_binary`, `decode_text`, `render_decimal` | accumulator width, signs, padding, control characters before and behind blanks | exact values and texts; refusals with a cause |
| **Layout** `src/layout.rs` | names, selectors and cursor during `validate`; none once resolved | `resolve` (three request forms), `validate`, `check_width`, `check_scale`, `prefix_field` | 32-bit sums, sets carried from field to field, limits far from the loops that rely on them | accepts exactly the well-formed layouts; an accepted one never makes the walker slice out of range |
| **Copybook compiler** `src/copybook.rs` | lines, tokens, items, the stack of open groups, running totals | `statements`, `strip_card_columns`, `parse_item`, `condition_name`, `flatten`, `describe` | periods in literals and pictures, cards or free format, implicit group ends, OCCURS against the limits | statements are the source; fields are the tree; limits hold while it expands; no clause that changes the bytes is lost (it can be, see below) |
| **Code pages** `src/codec.rs`, `src/codepages.rs` | tables | `resolve`, `decode`, `encode` | none | table data |
| **Errors** `src/error.rs` | none | `ParseError::code` | none | one code per kind |
| **Wiring** `src/main.rs`, `src/server.rs`, `src/proto.rs`, `src/lib.rs` | configuration | start, serve | none of its own | — |

How they interact. `parse_ebcdic` takes a permit, reads the options frame,
resolves the layout and spawns one task; the task owns the walker, the fold and
the sending half of a bounded channel. Resolving lifts one of three request
forms (proto, JSON, copybook) into a raw layout, and every one of them passes
`validate`; a copybook is compiled first. The handler returns the response stream,
which is `TrailerGuard` around the receiving half, and which the transport
polls when the client has room. The task waits in two places only, for the next
frame and for room in the channel, each with the idle timeout. The permit lives
in the task; the process counters are shared by all calls. The fold sees every
event that is sent. The walker calls the decoders on slices of its buffer.

## Modules

| Module | Models | Built on |
|---|---|---|
| `RecordStream` | the walker together with its caller's loop (`phase`) | — |
| `Walk` | the interface of the walker: what `run_parse` relies on | — |
| `EventStream` | the promise to the client, as an abstract specification | — |
| `ParseSession` | one call | instantiates `Walk` for the walker, and `EventStream` for what it promises |
| `Admission` | many calls on one semaphore and one set of counters | a call's inside is `ParseSession` |
| `DocumentFold` | the fold and the integrity check | — |
| `Decode` | one field from declaration and bytes to cell, selector or record length | — |
| `LayoutShape` | the shape of a validated layout, as the walker reads it | — |
| `LayoutLimits` | the limits the compiler and the validation share | — |
| `Copybook` | the compiler, from lines to the fields of one raw record | `LayoutLimits` |
| `Layout` | `validate`, check by check | `LayoutShape`, `LayoutLimits` |
| `Resolve` | `resolve`: a request to its layout | extends `Copybook` and `Layout` |
| `Loops` | filtering, sums, digits to a number, powers: what the loops of `DocumentFold`, `Decode` and `Copybook` compute | — |
| `Induction` | theorems about those loops, and induction in the form the provers can use | `Loops` |
| `RecordStreamProofs`, `ParseSessionProofs`, `AdmissionProofs`, `LayoutProofs`, `DocumentFoldProofs`, `DecodeProofs` | theorems | the module they are named after |
| `CopybookProofs` | theorems about the compiler, over the runs of `Resolve` | `Resolve`, `Copybook` |
| `MC…` | constants for TLC | |

`LayoutShape!IsLayout` is where two halves meet: `RecordStream` assumes it of
its layout, and `Layout` establishes it for what it accepts.

### RecordStream

Each method is an action: `Push` (with the compaction of the buffer, and the
truncated walk that only counts), `FinishInput`, and the ways a `next_record`
call can return: `NeedMore` (None), `RejectPrefix` and `RejectCells` (Err) and
`Emit` (Some). All of them include the header skip that precedes everything
else in the call. `Status` and `AbortTrailing` are `status`. The upload is
chosen in `Init` as `file`; the chunking is the nondeterminism of `Push`, empty
chunks included. `rows` is a history of what was handed out. `DecodeLength`,
`DecodeType` and `DecodeField` are operators given as constants: the theorems
hold for every decoder. `read_prefix` is a set of operators over a byte
sequence and an offset, so the same definition reads the buffer (the code) and
the upload (the reference), and "the buffer is a window on the upload" makes
the two agree. `WholeFile` is the reference for a whole walk: the upload read in
one piece, a record at a turn.

### Walk, EventStream and ParseSession

`Walk` is the walker as its caller sees it: push, then rows until None, each row
paid for by at least one received byte, then the trailer once. `RecordStream`
implements it (`IsWalk`, checked and proved), and `ParseSession` uses its
actions for the walker, so the session needs no bytes.

`ParseSession` has one `pc` for the handler and then the task (they never run at
once). `BeginSend` folds an event and starts the await; `SendDone`, `SendClosed`
and `SendTimeout` are its three ends. `then` says where the task goes on. The
timeouts are actions enabled whenever what they wait for has not happened.
`Panic` unwinds the task: the permit and the sender are dropped, and nothing is
counted or reported. `Wait` is the start of a wait for a frame; a frame without
data (`FrameWithoutData`) starts another. `TrailerGuard::poll_next` is cut where
it can return: `Gather` and `GatherClosed` take one item, `Release` ends the
gathering (full, final, or `BATCH_WAIT` passed with nothing more there),
`HandOver` gives one event to the transport. A batch is full by its bytes, so
`Backpressure` bounds it by them and not by one event. `offered` is a history of
the bytes of the data frames the task took from the request stream, so that
`CapIsExact` can say which upload is refused: the one that passes the cap, not
the one that reaches it. The client is free: it may send any frame, stop
sending, stop reading, or hang up at any moment.

`EventStream` is what `ebcdic_service.proto` and the README promise: layout
first, records numbered without a gap, document if asked for, status counting
the records, nothing after the last word, and never an end without one.
`IsEventStream` is the refinement, with `stream` mapped to what was delivered.

### Admission

Per call a stage and an outcome, and the semaphore and counters all calls
share. Releasing the slot and counting the outcome are two actions because they
are two statements of the task.

### DocumentFold

`Begin` makes a column of each field that is not a filler. `Row` splits into
counted (a cap was passed before), refused (the budget is passed now) and
folded. A value is where it was decoded, so that a cell can be compared with the
offset its column declares. `Take` writes the document item by item, as
`add_description`, `add_heading` and `add_table` do, with refs into two arenas
and the body's list of children; `Sound` is `integrity_errors`, over the same
refs, claims and lists. The schemas are those validation lets through
(`FoldAssumption`): fields that share no byte, and named apart.

### Decode

The digit loop, the shift loop and the sign are steps over an accumulator of
`AccBits` bits; overflow panics or wraps depending on `overflow_checks`, since
Cargo's profiles differ, and a panic ends the decoding wherever it occurs.
`WidthAssumption` states how the limits relate to the accumulator: the bytes of
the widest binary field fill it, and the digits of the widest packed and zoned
fields, like what is taken from a record length, stay within half of it. The
constants of the program satisfy it with 128 bits, 19 packed, 37 zoned and 16
binary bytes and 39 digits. `Meaning` says what the bytes mean
without an accumulator, as the reference. Text is bytes of a code page whose
characters are classed as controls, white space, digits and signs, a byte
without a character is refused, and a record length may be written as text.

### Copybook, Layout and Resolve

A line is a sequence of symbols, one to a column, and a keyword or number is one
symbol; the card columns are scaled down with it. `ReadLine` is one turn of the
loop of `statements`, `ParseStatement` of the loop over statements,
`CheckItems` what lies between the two, `FlattenItem` one turn of `flatten`. A
refusal ends the compilation with its kind of error. `FlattenItem` keeps the
order of the checks: no picture, bytes, fields, condition copies, then the
expansion. The loops inside a step, over the symbols of a line, the tokens of a
statement or the symbols of a picture, are recursive functions over an operator
for one turn. `CopybookAssumption` says that the limits and the numerals are
natural numbers, `StringAssumption` and `BlankAssumption` that the few words the
compiler writes and the blank are strings (true of any string; the provers need
it named), `OptionsAssumption` that a copybook is a sequence of lines of symbols.

`CheckLayout`, `BeginRecord`, `CheckField` and `EndRecord` are the parts of the
loop nest of `validate`. A list of checks in the order of the code, with the
first bad one deciding the error, stands for each run of early returns.
`AddU32` is the 32-bit sum, so that a missing `checked_add` would wrap.

`Resolve` composes them: `ResolveProto` and `ResolveJson` lift a flat form (a
type the build does not know is UNIMPLEMENTED in one and INVALID_ARGUMENT in
the other), `ResolveCopybook` and `Compiling` run the compiler, and
`Compiled` hands its record to `Validating`.

## Runs

| Run | Question | Bounds and why they are enough |
|---|---|---|
| `record_stream` | Are rows, trailer and memory (the whole buffer, consumed prefix included) right under every chunking? Is the walker a `Walk`? Does every drain end? | Six layouts (with and without header, footer, length prefix, type prefix, fillers), four option sets, uploads of up to 4 bytes over 4 byte values and up to 6 over 2. A record with its prefix is 2 to 4 bytes, so several records, of one type or of two, cuts inside each part, and every decode error occur. `ChunkingIndependent` compares with the walk of the whole file. |
| `parse_session` | Is the stream the promised one, with back pressure, an exact cap, outcome, counters and slot? Does the slot always come back? Does a client that reads see the end? | Channel of 1, batch of 2 bytes, events of 1 or 3 bytes (two to a batch, or one), chunks of 0 to 2 bytes, server cap 4 and requested caps 1 and 9 (below and above it): full and empty channel, open and closed batches, timeout in every send, a chunk that reaches the cap and one that passes it, a panic wherever the walker and the decoders run, and more rows than channel, batch and send can hold, without which back pressure would hold by default. Frames are not bounded: the cap is what ends an upload, and empty frames may go on forever. |
| `admission` | Permits, refusals, counters | 4 calls for 2 slots: more callers than slots, and calls that arrive after a release or a panic. |
| `document_fold` | Is nothing lost untold, can every cell be traced, and is the document well formed? Does the integrity check find what is broken? | 5 bytes of input in records of 1 or 2 (`MaxBytes`; 3 to 5 records), row cap 2, budget 8, layouts of 1 to 3 schemas with fillers in front, between and at the end: each cap bites first in some run, and a smaller row, of the same schema and of another, follows a refused one. Every document that occurs is damaged in every place. |
| `decode` | Are values, texts, cells and lengths exact? | 16-bit accumulator, 8-bit integers, widths 0 to 6 across all limits, every sign nibble class, corrupt nibbles, extreme binaries, texts of blanks, controls, signs and digits up to the ends of the accumulator, both builds. |
| `resolve` | Does a request become the layout it describes, is every other refused, and can the walker be run with what comes out? | Copybooks of up to three statements under a root, from a pool with every clause, level and picture rule, one to a line, on one line, one word to a line, on cards and indented; every line of four symbols over blank, period, both quotes, a word and a number, and every pair of two-symbol lines; raw layouts of up to three fields around every limit in both flat forms, and of up to two records. The limits (3 occurrences, 12 bytes, 4 fields, 7 condition values, 32-bit sums scaled to 31) are low enough for a copybook or layout of three fields to pass each one first. |

`CHECK_DEADLOCK` is off in the runs because each models something that stops: a
call ends, an upload ends, a field is decoded, a request is resolved.

Six further runs show a statement of the documents that the code does not
keep; each checks one formula that quotes it.

| Run | Statement | What happens |
|---|---|---|
| `doc_bytes_consumed` | `bytes_consumed` is less the header | the header is counted in |
| `doc_undecoded_bytes` | "{} bytes of input were not decoded" | always 0 |
| `doc_timeout_code` | past the idle timeout, `DEADLINE_EXCEEDED` | a stalled client that reads on is told `INTERNAL` |
| `doc_batch_adds_one` | a batch "adds at most one event to what the channel already buffers" | of small events it gathers several, and the channel fills up again behind them |
| `ignored_usage` | a clause that changes the bytes is never ignored | a usage behind a `VALUE` is dropped and the field is decoded as `DISPLAY` (so is one on a group item, which the trace does not show) |
| `free_format` | a free-format line falls through untouched | `    05 NAME …`, indented by four, loses its level number |

Other differences were met and have no run:

- README.md:398 refuses a declared length shorter than the schema; the code
  accepts one that cuts trailing fillers only, since it asks for what is decoded.
- README.md:108 says rows are never batched; up to a batch of them is gathered
  (`service.rs:412`). `doc_batch_adds_one` shows what a batch holds.
- `metrics.rs:24` counts the parses that "ended with a gRPC error". A parse
  whose task panicked ends its stream with `INTERNAL` (`service.rs:428`) and is
  in neither count. `CountersAgree` and `CountersBalance` say so.
- `decode.rs:69` says a decimal is written as Python's `str` writes it; Python
  uses an exponent for very small numbers.
- `document_fold.rs:110` defines the byte cap over the whole Document, but the
  header row of a table all of whose rows were refused is written
  (`document_fold.rs:341`) and never charged. `BudgetHeld` states the budget
  over what the fold charges.
- The head of `copybook.rs` says that what it does not know is UNIMPLEMENTED;
  an unrecognized clause (`OCCURS 1 TO 5`, `INDEXED BY`) is INVALID_ARGUMENT.
- `1 THRU 2 THRU 3` in a level-88 entry is accepted; the last bound wins.
- The indicator column of a card stays in its code (`copybook.rs:250`), so a
  continuation or debugging line begins with a stray token.

Bounds in guards: `MaxBytes` (input folded). All others are constants of the
program or finite inputs.

## Fairness

- `RecordStream!FairSpec`: weak fairness of `NextRecord`. `drain` is a loop in
  one task that nothing but `next_record`'s answer ends. Input is not fair.
- `ParseSession!FairSpec`: weak fairness of `Server`. The runtime polls a ready
  task, and its timers fire. Nothing is assumed of the client. `SlotComesBack`
  needs no more, because each wait is bounded by the idle timeout and the cap
  bounds the data. A client that sends frames without data forever keeps its
  slot forever; the property says so with a disjunct, which is true of no other
  behaviour.
- `StreamEnds` is checked under the same specification and assumes more in
  itself: weak fairness of `Poll`, which is what a client that reads gives,
  since the transport then polls the response stream.

## Proofs

`RecordStreamProofs` proves, for every layout, decoder, upload and chunking
that satisfy the assumptions in `RecordStream`, that `IInv` is inductive, and
from it the safety properties of the run and the refinement of `Walk`. The
assumptions are that a layout is valid (`RequestAssumption`, which is what
`validate` in `src/layout.rs` establishes, as `LayoutProofs` shows), that
uploads are byte sequences, and that a length decoder returns an integer or an
error.

`IInv` is needed because no property is inductive by itself. "Rows are those of
the upload" needs the buffer to be a window on the upload; the window needs the
cursor and the offset to move together; the footer reserve needs the cursor to
stay below `decodable_end`, which itself grows; and "never late" is about the
moment the loop leaves `drain`. The argument runs over lemmas on slices
(`SliceAgrees`, `PrefixAgrees`, `CellsAgree`: what is read from the buffer is
what the upload holds), one lemma per method (`PushInv`, `SkipInv`,
`NeedMoreInv`, `RejectInv`, `EmitInv`), and `StepInv`. `TrailerBalances` and
`IsWalk` follow from the invariant with one lemma each. `MemoryBounded` is about
steps: before a chunk is taken the loop has left `drain`, so the bytes not
consumed are less than a record and the footer (`PendingBounded`), and `push`
drops the consumed ones before it appends (`PushHolds`); no other step lets the
buffer grow (`OthersHold`). `ChunkingIndependent` needs to know in addition why
a walk ended (`Settled`): a failure is the reference's at the offset where the
next record starts, and a partial record is let pass only where the request
allows it. Each row is then one turn of the reference (`TurnTakesRow`), the turn
after the last row ends it likewise (`TurnEnds`), and its value is what
satisfies its equations (`WholeFileUnfold`).

`ParseSessionProofs` proves every safety property of a call and that it
implements `EventStream`, for every capacity of the channel, size of a batch,
size of an event (at least one byte), byte cap and chunk sizes, and for every
walker that is a `Walk`. The invariant `SInv` follows `Out`, the events out of
the task's hands: delivered, then in the batch, then in the channel. The
response stream only moves events along that sequence (`OutSteps`), and the task
appends to it, so its shape is determined by where the task is (`Ordered`: rows
only, with the document, completed by a trailer, broken off by an error). The
other parts are there because the properties need more than the order: the last
event closes its batch, so nothing follows what the client reads last
(`LastInBatch`); a batch that still gathers is shorter than its bytes, every
event but an error having some, which is why a limit on bytes bounds its length
(`Bounded`); what was sent passed the cap only in a call that failed for it
(`CapInv`); the slot and the counters are functions of the task's place
(`SlotHeld`, `Counted`); and the document has as many rows as were sent
(`Folded`). Steps are told apart once (`StepCases`), and each conjunct has one
lemma over all of them. The refinement then needs only that what is delivered is
a prefix of `Out`, which is in order (`DeliversNext`). From where the slot is
held follows also that nothing is read or decoded without it
(`SlotDisciplineHolds`).

`AdmissionProofs` proves the safety properties of `Admission` for any finite set
of calls and any number of slots, by counting: a call that changes its stage
changes the cardinality of `Holders` and of the other sets by one or not at
all (`Moved`).

`LayoutProofs` proves that a layout `validate` accepts is one `RecordStream` can
be run with (`AcceptedIsWalkable`), for every raw layout and every value of the
limits: the record limit need only fit the 32-bit sum. The invariant `LInv` is
needed because the property speaks of the end only. It says that accepted
records are in place (each field takes a byte, ends before the next begins and
within the record) and no longer than the limit; that their selectors are in
`selectors` and differ; that the fields of the record in hand are in place up to
`cursor`; and what the checks of the head left (at least one record, one only
without a type field, prefixes that take a byte). There is one lemma per action
(`CheckLayoutStep`, `BeginRecordStep`, `CheckFieldStep`, `EndRecordStep`,
`AcceptStep`), and one for what each list of checks lets pass (`HeadPasses`,
`SelectorIsNew`, `FieldPasses`; `CheckedSum` for the 32-bit addition). A second
invariant, `VInv`, gives the converse: what has been accepted so far is well
formed as it was declared, and a rejection means the layout is not, so that the
verdict is exact (`VerdictIsExact`) and the accepted layout is the declared one
(`AcceptedAsDeclared`). Its lemmas turn each list of checks into one condition
in both directions (`PrefixExact` and its neighbours).

`DocumentFoldProofs` proves the six properties of the fold for every layout,
both caps, all costs and any interleaving of schemas. In `DInv` each table holds
as many rows as its schema's records less the dropped ones, each row made of its
record; a table that dropped one is past a cap that no later record gets past,
which is what makes it a prefix; and the estimate is the sum of what was folded.
That the budget closes for every schema at once (`ClosedForAll`) needs
`CloseInv` beside it: no record is from behind the next one. Until the budget is
spent only the row cap has cut tables, so it claims nothing; from then on no
table grows, and a table's first lost record is behind all that was folded
before. The document is a function of the tables, so its properties are about
`Written`: an invariant of its loop over the schemas (`Linked`, `Reading`,
`LaidOut`) says which refs were given, that each is claimed once, and in which
order the body reads. What `integrity_errors` refuses is proved from the same
description.

`DecodeProofs` proves the five properties of a field for every width of the
accumulator, every code page and all bytes. `EInv` says that the accumulator
is exact at each turn of each loop: after `at` digits or bytes it is the number
they spell (`InDigits`, `InBytes`), which the bounds of `WidthAssumption` keep
within its ends, so no step wraps but the subtraction in a record length, at the
far negative end. What remains is about rendering: digits split at the point
read back as the number (`Says`, over `PositionalLeading`).

`CopybookProofs` proves that the compiler is typed in every state a request
leads to, and its five properties: it never holds more than the limits
allow, at any step (`LimitPart`: the sums over the fields so far); its fields
are the level tree (`FlatPart`: the stack of open groups is the chain of items
above the next one, and the fields so far are one per place of the items before
it, in order); a field is as wide as its picture; and each item carries the
conditions between it and the next (`ItemsPart`: the items are those of the
statements that are heads, each with the level-88 statements up to the next
head); and the statements are the source (`WordsPart`: what is split off holds
the text up to the last line read). The property reads the source as one text,
with a blank after each line, and the lexer reads it line by line, so `Splits`
says of the state of the loop, after any symbol of the text, which quote is
open, which symbols have been written, and where the statements end; there is
one lemma per thing a symbol can do (`ExtendSplits`, `TokenSplits`,
`GapSplits`, `SentenceSplits`), one over the match (`SymbolSplits`), one over a
line (`LineSplits`), and `TextPlaces` says where each line lies in the text.

Induction over data. The library's induction theorems take an operator and
cannot be instantiated here, but induction stated of a set can: `LeastNatural`
says that a nonempty set of natural numbers has a least element,
`NatSetInduction` and `IntervalInduction` follow, and a property is proved by
taking the set of numbers that have it. `IterationExists` proves that a recursive
function over an interval satisfies its equations, which is what has to be known
of a recursive definition before it can be used; `FilterUnfold`, `TotalUnfold`,
`FlattenUnfold`, `PositionalUnfold` and `PowerUnfold` state it of the loops of
`Loops` and of `FlattenSeq`, and the rest of `Induction` is what those loops
compute. This is why the modules use recursive functions and not the folds or
`RECURSIVE` operators of the community modules.

Assumptions. Each module's `ASSUME`s are typings of its constants, except
`RequestAssumption` (proved of the layouts `Layout` accepts), `FoldAssumption`
(validated schemas) and `WidthAssumption` (the limits fit the accumulator). TLC
evaluates all of them in the runs.

Only model-checked: liveness, which the prover does not reach. Every safety
property of the passing runs is proved.

## Not modelled

- The code page tables and the list of their aliases: constant data. (One alias
  can never match, harmlessly: names lose their hyphens before the lookup, and
  `ibm-037` is listed with one.)
- From a resolved layout back to proto messages (`layout.rs`, for the layout
  event), generated messages, environment variables, the listener, the demos:
  copies and configuration without decisions.
- The reporter that logs the counters. It reads seven relaxed counters one after
  the other, so a line may mix two moments; it changes nothing.
- The texts of messages and the reader of JSON text: a document that cannot be
  read is refused, as one with an unknown type is.
- The transport (HTTP/2 flow control), which is the client's freedom to read or
  not.

## Plan

1. Walker, with proofs (done).
2. Session over the walker's interface, with the promise to the client as an
   abstract specification; admission, with proofs (done).
3. Fold, decoders of numbers and text (done).
4. Layout resolution: copybook compiler, validation, and the proof that an
   accepted layout meets the walker's assumption (done).
5. Proofs about a session, with its refinement of `EventStream` (done).
6. Proofs about the fold, the decoders, the compiler, and that validation
   accepts everything well formed (done).
7. The walker against the upload read in one piece (done).
8. The lexer against the source read as one text (done).
