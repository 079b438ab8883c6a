---------------------------- MODULE ParseSession ----------------------------
(***************************************************************************)
(* One ParseEbcdic call (src/service.rs): the handler that admits it and   *)
(* reads the options frame, the spawned task that runs run_parse and       *)
(* reports how it ended, the bounded channel between the task and the      *)
(* response stream, the TrailerGuard that batches what the channel holds,  *)
(* and a client that uploads, reads, stalls and hangs up as it likes.      *)
(*                                                                         *)
(* The walker is its interface Walk, which RecordStream implements.  A     *)
(* timer is an action that may fire whenever the wait it bounds has not    *)
(* been answered; the one on the next frame has a state, because frames    *)
(* start it again.  The byte cap bounds the uploads, so no bound of the    *)
(* model's own is needed.  An event is its kind, what it counts and its    *)
(* encoded size.                                                           *)
(***************************************************************************)
EXTENDS Integers, Sequences, FiniteSets

CONSTANTS
    Capacity,          \* EVENT_CHANNEL_CAPACITY
    BatchBytes,        \* BATCH_BYTES
    EventSizes,        \* the encoded sizes of an event
    MaxDocumentBytes,  \* the operator's byte cap
    RequestedCaps,     \* what a request may ask for, 0 for nothing
    ChunkSizes         \* the lengths of a chunk

ASSUME SessionAssumption ==
    /\ Capacity \in Nat \ {0}
    /\ BatchBytes \in Nat \ {0}
    /\ EventSizes \subseteq Nat \ {0}
    /\ MaxDocumentBytes \in Nat
    /\ RequestedCaps \subseteq Nat
    /\ ChunkSizes \subseteq Nat

VARIABLES
    emit_document,   \* the request's emit_document
    requested_cap,   \* the request's max_document_mib, in bytes
    pc,              \* where the handler, then the task, is
    phase, input_finished, received, yielded,  \* the walker
    waited,          \* the idle timer on the next frame has almost run out
    offered,         \* history: bytes of data frames the client sent
    fold,            \* records in the Document fold, NoFold if there is none
    pending,         \* the event the task is sending
    then,            \* where the task goes on after that
    outcome,         \* how the call was decided
    slot,            \* the permit of this call
    metrics,         \* this call's share of the process counters
    channel,         \* the mpsc channel: events sent and not yet taken
    batch, batch_bytes, batch_final, releasing,  \* TrailerGuard
    finished,        \* TrailerGuard: the last event has gone out
    delivered,       \* history: what the client has read
    closed           \* the response stream: open, ended or abandoned

request == <<emit_document, requested_cap>>
walk == <<phase, input_finished, received, yielded>>
sending == <<pending, then>>
ending == <<outcome, slot, metrics>>
guard == <<batch, batch_bytes, batch_final, releasing, finished, delivered,
           closed>>
task == <<pc, walk, waited, offered, fold, sending, ending>>
vars == <<request, task, channel, guard>>

W == INSTANCE Walk

NoFold == -1
NoEvent == [kind |-> "nothing"]

(***************************************************************************)
(* byte_cap: a request may lower the operator's cap, never raise it.       *)
(***************************************************************************)
byte_cap ==
    IF requested_cap = 0 \/ requested_cap > MaxDocumentBytes
    THEN MaxDocumentBytes
    ELSE requested_cap

Working == {"run", "sending", "document sent"}
Started == Working \cup {"decided", "counting", "reporting", "ended"}
ReceiverOpen == pc \in Started /\ closed = "open"

Init ==
    /\ emit_document \in BOOLEAN
    /\ requested_cap \in RequestedCaps
    /\ pc = "arriving"
    /\ W!Init
    /\ waited = FALSE
    /\ offered = 0
    /\ fold = NoFold
    /\ pending = NoEvent
    /\ then = "run"
    /\ outcome = "none"
    /\ slot = "none"
    /\ metrics = [started |-> 0, completed |-> 0, failed |-> 0,
                  rejected |-> 0, records |-> 0, bytes |-> 0, cap_hits |-> 0]
    /\ channel = <<>>
    /\ batch = <<>>
    /\ batch_bytes = 0
    /\ batch_final = FALSE
    /\ releasing = FALSE
    /\ finished = FALSE
    /\ delivered = <<>>
    /\ closed = "open"

-----------------------------------------------------------------------------
(***************************************************************************)
(* EventSink.send: the event is folded, then awaited onto the channel.     *)
(***************************************************************************)
Consume(f, e) == IF f # NoFold /\ e.kind = "record" THEN f + 1 ELSE f

BeginSend(e, next) ==
    /\ pending' = e
    /\ then' = next
    /\ fold' = Consume(fold, e)
    /\ pc' = "sending"

(***************************************************************************)
(* run_parse returns an error, and the walker is dropped with it.          *)
(***************************************************************************)
Fail(code) ==
    /\ pc' = "decided"
    /\ outcome' = code
    /\ pending' = NoEvent
    /\ waited' = FALSE
    /\ W!Stop
    /\ UNCHANGED <<request, fold, then, slot, metrics, channel, guard>>

Event(kind, n, size) == [kind |-> kind, n |-> n, size |-> size]
ErrorEvent(code) == [kind |-> "error", n |-> 0, size |-> 0, code |-> code]

-----------------------------------------------------------------------------
(***************************************************************************)
(* parse_ebcdic: try_acquire_owned takes a slot or refuses at once; which  *)
(* one is up to the other calls (module Admission).                        *)
(***************************************************************************)
Reject ==
    /\ pc = "arriving"
    /\ pc' = "refused"
    /\ outcome' = "exhausted"
    /\ metrics' = [metrics EXCEPT !.rejected = @ + 1]
    /\ UNCHANGED <<request, walk, waited, offered, fold, sending, slot,
                   channel, guard>>

Admit ==
    /\ pc = "arriving"
    /\ pc' = "opening"
    /\ slot' = "held"
    /\ UNCHANGED <<request, walk, waited, offered, fold, sending, outcome,
                   metrics, channel, guard>>

(***************************************************************************)
(* No options frame, a wrong first frame, a layout or a code page that     *)
(* does not resolve, a stream error, the idle timeout; or the client hangs *)
(* up and the handler is dropped.  There is no stream, and no counter.     *)
(***************************************************************************)
RefuseOptions ==
    /\ pc = "opening"
    /\ outcome' \in {"invalid", "unsupported", "internal", "timed out",
                     "abandoned"}
    /\ pc' = "refused"
    /\ slot' = "released"
    /\ UNCHANGED <<request, walk, waited, offered, fold, sending, metrics,
                   channel, guard>>

(***************************************************************************)
(* The task is spawned with the permit moved into it.                      *)
(***************************************************************************)
StartParse ==
    /\ pc = "opening"
    /\ metrics' = [metrics EXCEPT !.started = @ + 1]
    /\ fold' = IF emit_document THEN 0 ELSE NoFold
    /\ \E size \in EventSizes : pending' = Event("layout_info", 0, size)
    /\ then' = "run"
    /\ pc' = "sending"
    /\ UNCHANGED <<request, walk, waited, offered, slot, outcome, channel,
                   guard>>

-----------------------------------------------------------------------------
(***************************************************************************)
(* The await in EventSink.send: room in the channel, a dropped receiver,   *)
(* or a client that makes no room for the idle timeout.                    *)
(***************************************************************************)
HasRoom == Len(channel) < Capacity

SendDone ==
    /\ pc = "sending"
    /\ ReceiverOpen
    /\ HasRoom
    /\ channel' = Append(channel, pending)
    /\ pc' = then
    /\ pending' = NoEvent
    /\ outcome' = IF then = "decided" THEN "ok" ELSE outcome
    /\ UNCHANGED <<request, walk, waited, offered, fold, then, slot, metrics,
                   guard>>

\* Mutant: a client that went away is a clean end.
SendClosedOk ==
    /\ pc = "sending"
    /\ ~ReceiverOpen
    /\ Fail("ok")
    /\ UNCHANGED offered

SendClosed ==
    /\ pc = "sending"
    /\ ~ReceiverOpen
    /\ Fail("internal")
    /\ UNCHANGED offered

\* Mutant: no timeout on the send.
SendForever == FALSE

SendTimeout ==
    /\ pc = "sending"
    /\ ReceiverOpen
    /\ ~HasRoom
    /\ Fail("timed out")
    /\ UNCHANGED offered

-----------------------------------------------------------------------------
(***************************************************************************)
(* run_parse: one await on the next frame, and the idle timer on it.       *)
(***************************************************************************)
Awaiting == pc = "run" /\ phase = "receive"

Wait ==
    /\ Awaiting
    /\ ~waited
    /\ waited' = TRUE
    /\ UNCHANGED <<request, pc, walk, offered, fold, sending, ending, channel,
                   guard>>

\* Mutant: the chunk that reaches the cap is too much.
ReachesCap(n) == received + n >= byte_cap

OverCap(n) == received + n > byte_cap

ReceiveChunk(n) ==
    /\ Awaiting
    /\ ~OverCap(n)
    /\ waited' = FALSE
    /\ offered' = offered + n
    /\ metrics' = [metrics EXCEPT !.bytes = @ + n]
    /\ W!Push(n)
    /\ UNCHANGED <<request, pc, fold, sending, outcome, slot, channel, guard>>

ReceiveTooMuch(n) ==
    /\ Awaiting
    /\ OverCap(n)
    /\ offered' = offered + n
    /\ Fail("exhausted")

(***************************************************************************)
(* A frame that carries nothing is skipped, and starts the timer again.    *)
(***************************************************************************)
ReceiveEmpty ==
    /\ Awaiting
    /\ waited' = FALSE
    /\ UNCHANGED <<request, pc, walk, offered, fold, sending, ending, channel,
                   guard>>

FailReceiving(code) == Awaiting /\ Fail(code) /\ UNCHANGED offered

ReceiveOptions == FailReceiving("invalid")
ReceiveError == FailReceiving("internal")
ReceiveIdle == waited /\ FailReceiving("timed out")

ReceiveEnd ==
    /\ Awaiting
    /\ waited' = FALSE
    /\ W!FinishInput
    /\ UNCHANGED <<request, pc, offered, fold, sending, ending, channel,
                   guard>>

(***************************************************************************)
(* drain: each row is counted, folded and awaited onto the channel before  *)
(* the next one is decoded.                                                *)
(***************************************************************************)
DrainRow ==
    /\ pc = "run"
    /\ W!Yield
    /\ metrics' = [metrics EXCEPT !.records = @ + 1]
    /\ \E size \in EventSizes : BeginSend(Event("record", yielded, size), "run")
    /\ UNCHANGED <<request, waited, offered, outcome, slot, channel, guard>>

DrainNone ==
    /\ pc = "run"
    /\ W!NoMore
    /\ UNCHANGED <<request, pc, waited, offered, fold, sending, ending,
                   channel, guard>>

DrainError ==
    /\ pc = "run"
    /\ phase = "drain"
    /\ \E code \in {"invalid", "unsupported"} : Fail(code)
    /\ UNCHANGED offered

(***************************************************************************)
(* status, then EventSink.finish: with a fold, the document goes out       *)
(* before the trailer.  abort_on_error turns the trailer into an error.    *)
(***************************************************************************)
StatusEvent(size) == Event("status", yielded, size)

\* Mutant: the document goes out and the trailer is forgotten.
FinishAfterDocument == "decided"

FinishAfter == "document sent"

Finish ==
    /\ pc = "run"
    /\ W!Status
    /\ \E size \in EventSizes :
          \/ /\ fold = NoFold
             /\ BeginSend(StatusEvent(size), "decided")
          \/ /\ fold # NoFold
             /\ pending' = Event("document", fold, size)
             /\ then' = FinishAfter
             /\ fold' = NoFold
             /\ pc' = "sending"
    /\ UNCHANGED <<request, waited, offered, ending, channel, guard>>

FinishStatus ==
    /\ pc = "document sent"
    /\ \E size \in EventSizes : BeginSend(StatusEvent(size), "decided")
    /\ UNCHANGED <<request, walk, waited, offered, ending, channel, guard>>

FinishError ==
    /\ pc = "run"
    /\ phase = "trailer"
    /\ Fail("invalid")
    /\ UNCHANGED offered

-----------------------------------------------------------------------------
(***************************************************************************)
(* The spawned task once run_parse has returned: the slot first, then the  *)
(* counters, then the error, which waits for the client no longer than any *)
(* other event.  When the task is over, the channel is closed.             *)
(***************************************************************************)
ReleaseSlot ==
    /\ pc = "decided"
    /\ slot' = "released"
    /\ pc' = "counting"
    /\ UNCHANGED <<request, walk, waited, offered, fold, sending, outcome,
                   metrics, channel, guard>>

CountOutcome ==
    /\ pc = "counting"
    /\ metrics' =
          IF outcome = "ok"
          THEN [metrics EXCEPT !.completed = @ + 1]
          ELSE [metrics EXCEPT !.failed = @ + 1,
                    !.cap_hits = @ + (IF outcome = "exhausted" THEN 1 ELSE 0)]
    /\ pc' = IF outcome = "ok" THEN "ended" ELSE "reporting"
    /\ UNCHANGED <<request, walk, waited, offered, fold, sending, outcome,
                   slot, channel, guard>>

ReportError ==
    /\ pc = "reporting"
    /\ ReceiverOpen
    /\ HasRoom
    /\ channel' = Append(channel, ErrorEvent(outcome))
    /\ pc' = "ended"
    /\ UNCHANGED <<request, walk, waited, offered, fold, sending, ending,
                   guard>>

ReportLost ==
    /\ pc = "reporting"
    /\ ReceiverOpen => ~HasRoom
    /\ pc' = "ended"
    /\ UNCHANGED <<request, walk, waited, offered, fold, sending, ending,
                   channel, guard>>

(***************************************************************************)
(* A panic in the walker or a decoder (the i128 arithmetic of a checked    *)
(* build, module Decode) unwinds the task: the walker, the fold, the       *)
(* permit and the channel's sender are dropped, and nothing is counted.    *)
(***************************************************************************)
Panic ==
    /\ pc = "run"
    /\ pc' = "ended"
    /\ outcome' = "panicked"
    /\ slot' = "released"
    /\ fold' = NoFold
    /\ waited' = FALSE
    /\ W!Stop
    /\ UNCHANGED <<request, offered, sending, metrics, channel, guard>>

-----------------------------------------------------------------------------
(***************************************************************************)
(* TrailerGuard::poll_next, whenever the client has room for more.  An     *)
(* event is taken while the batch is small and does not hold the last one. *)
(***************************************************************************)
Last(e) == e.kind \in {"status", "error"}

\* Mutant: an error is not seen as the end of the stream.
LastIsStatus(e) == e.kind = "status"

EndsStream(e) == Last(e)

\* Mutant: a batch takes whatever the channel holds.
GatheringAll ==
    /\ ReceiverOpen
    /\ ~finished
    /\ ~releasing
    /\ ~batch_final

Gathering ==
    /\ ReceiverOpen
    /\ ~finished
    /\ ~releasing
    /\ ~batch_final
    /\ batch_bytes < BatchBytes

Take(taken) ==
    /\ Gathering
    /\ channel # <<>>
    /\ batch' = taken
    /\ batch_bytes' = batch_bytes + Head(channel).size
    /\ batch_final' = EndsStream(Head(channel))
    /\ channel' = Tail(channel)
    /\ UNCHANGED <<request, task, releasing, finished, delivered, closed>>

\* Mutant: push_front.
GatherFront == Take(<<Head(channel)>> \o batch)

Gather == Take(Append(batch, Head(channel)))

(***************************************************************************)
(* The channel was closed and nothing in it was a trailer or an error.     *)
(***************************************************************************)
GatherClosed ==
    /\ Gathering
    /\ channel = <<>>
    /\ pc = "ended"
    /\ batch' = Append(batch, ErrorEvent("no trailer"))
    /\ batch_final' = TRUE
    /\ UNCHANGED <<request, task, channel, batch_bytes, releasing, finished,
                   delivered, closed>>

(***************************************************************************)
(* The batch goes out when it is big enough, when it holds the last event, *)
(* or, with nothing more in the channel, when BATCH_WAIT has passed.       *)
(***************************************************************************)
Release ==
    /\ ReceiverOpen
    /\ ~finished
    /\ ~releasing
    /\ batch # <<>>
    /\ \/ batch_final \/ batch_bytes >= BatchBytes
       \/ channel = <<>> /\ pc # "ended"
    /\ releasing' = TRUE
    /\ UNCHANGED <<request, task, channel, batch, batch_bytes, batch_final,
                   finished, delivered, closed>>

Hand(bytes) ==
    /\ ReceiverOpen
    /\ ~finished
    /\ releasing
    /\ delivered' = Append(delivered, Head(batch))
    /\ batch' = Tail(batch)
    /\ IF batch' = <<>>
       THEN /\ releasing' = FALSE
            /\ batch_bytes' = bytes
            /\ finished' = batch_final
       ELSE UNCHANGED <<releasing, batch_bytes, finished>>
    /\ UNCHANGED <<request, task, channel, batch_final, closed>>

\* Mutant: the next batch starts with the bytes of the last one.
HandOverCounted == Hand(batch_bytes)

HandOver == Hand(0)

EndStream ==
    /\ ReceiverOpen
    /\ finished
    /\ closed' = "ended"
    /\ UNCHANGED <<request, task, channel, batch, batch_bytes, batch_final,
                   releasing, finished, delivered>>

(***************************************************************************)
(* The client cancels the call or its connection breaks: the response      *)
(* stream, and the channel's receiver with it, is dropped.                 *)
(***************************************************************************)
HangUp ==
    /\ ReceiverOpen
    /\ closed' = "abandoned"
    /\ UNCHANGED <<request, task, channel, batch, batch_bytes, batch_final,
                   releasing, finished, delivered>>

-----------------------------------------------------------------------------
Open == Reject \/ Admit \/ RefuseOptions \/ StartParse
Send == SendDone \/ SendClosed \/ SendTimeout
Receive ==
    \/ \E n \in ChunkSizes : ReceiveChunk(n) \/ ReceiveTooMuch(n)
    \/ Wait \/ ReceiveEmpty \/ ReceiveOptions \/ ReceiveError \/ ReceiveIdle
    \/ ReceiveEnd
Drain == DrainRow \/ DrainNone \/ DrainError
Trailer == Finish \/ FinishStatus \/ FinishError
Report == ReleaseSlot \/ CountOutcome \/ ReportError \/ ReportLost
Poll == Gather \/ GatherClosed \/ Release \/ HandOver \/ EndStream

Server == Open \/ Send \/ Receive \/ Drain \/ Trailer \/ Report
Next == Server \/ Panic \/ Poll \/ HangUp

Spec == Init /\ [][Next]_vars

(***************************************************************************)
(* The runtime keeps polling the handler and the task, and their timers    *)
(* fire.  Nothing is assumed of the client: it need neither send, nor      *)
(* read, nor hang up.                                                      *)
(***************************************************************************)
FairSpec == Spec /\ WF_vars(Server)

-----------------------------------------------------------------------------
EventKinds == {"layout_info", "record", "document", "status", "error"}

(***************************************************************************)
(* Everything the task has sent or is sending, in the order it sent it.    *)
(***************************************************************************)
Sent ==
    delivered \o batch \o channel
        \o (IF pc = "sending" THEN <<pending>> ELSE <<>>)

CountOf(kind, s) == Cardinality({i \in DOMAIN s : s[i].kind = kind})

(***************************************************************************)
(* "The document event goes out immediately before the trailer, and the    *)
(* trailer stays last" (EventSink.finish), through send, channel, batch    *)
(* and transport: layout_info once and first, records numbered without a   *)
(* gap, a document that has folded exactly the records before it, a status *)
(* that counts them, and nothing after the last word.                      *)
(***************************************************************************)
SentInOrder ==
    \A i \in DOMAIN Sent :
        LET e == Sent[i]
        IN  /\ e.kind \in EventKinds
            /\ e.kind = "layout_info" <=> i = 1
            /\ e.kind = "record" => e.n = i - 2
            /\ e.kind = "document" =>
                  /\ emit_document
                  /\ e.n = i - 2
                  /\ i < Len(Sent) => Last(Sent[i + 1])
            /\ e.kind = "status" =>
                  /\ e.n = IF emit_document THEN i - 3 ELSE i - 2
                  /\ emit_document => Sent[i - 1].kind = "document"
            /\ Last(e) => i = Len(Sent)

(***************************************************************************)
(* "A client that stops reading still stops the parse" (TrailerGuard): of  *)
(* the layout_info and the rows decoded so far, those that were not read   *)
(* fit in the channel, one batch and the event being sent.  A batch is     *)
(* bounded by its bytes, so of small events it holds several; that it adds *)
(* at most one, as that comment says too, is DocBatchAddsOne below.        *)
(***************************************************************************)
Backpressure ==
    closed = "open" /\ pc \in Started =>
        1 + yielded - Len(delivered) <= Capacity + BatchBytes + 1

(***************************************************************************)
(* The cap is exact (run_parse, byte_cap): a call takes in no more than    *)
(* what it may, everything the client sent if that is no more, and fails   *)
(* for the size of its upload exactly when it passed the cap, not when it  *)
(* reached it, in whatever chunks.                                         *)
(***************************************************************************)
CapIsExact ==
    /\ received <= byte_cap /\ byte_cap <= MaxDocumentBytes
    /\ pc \in Started =>
          /\ outcome = "exhausted" <=> offered > byte_cap
          /\ offered <= byte_cap => received = offered

(***************************************************************************)
(* A call that ended told its client the truth: a trailer exactly when the *)
(* parse succeeded, else the error it failed with, or, when that could not *)
(* be sent in time or the task panicked, that the trailer is missing.      *)
(***************************************************************************)
OutcomeTold ==
    closed = "ended" =>
        LET last == delivered[Len(delivered)]
        IN  /\ Last(last)
            /\ last.kind = "status" <=> outcome = "ok"
            /\ last.kind = "error" => last.code \in {outcome, "no trailer"}

(***************************************************************************)
(* The counters of a call: one ending per start and none before its        *)
(* outcome, but for a task that panicked, which is never counted as ended; *)
(* completed calls sent their trailer; bytes counts what the walker was    *)
(* given and records what it decoded, of which at most the row of a failed *)
(* send never went out.                                                    *)
(***************************************************************************)
CountersAgree ==
    /\ metrics.completed + metrics.failed <= metrics.started
    /\ pc = "ended" =>
          metrics.completed + metrics.failed
             = IF outcome = "panicked" THEN 0 ELSE metrics.started
    /\ metrics.rejected + metrics.started <= 1
    /\ metrics.completed = 1 =>
          CountOf("status", Sent) = 1 /\ CountOf("record", Sent) = yielded
    /\ metrics.cap_hits <= metrics.failed
    /\ metrics.bytes = received
    /\ metrics.records = yielded
    /\ yielded - CountOf("record", Sent)
          \in IF outcome \in {"none", "ok"} THEN {0} ELSE {0, 1}

(***************************************************************************)
(* What the client gets is an EventStream.                                 *)
(***************************************************************************)
Promise(e) ==
    IF e.kind \in {"layout_info", "error"}
    THEN [kind |-> e.kind]
    ELSE [kind |-> e.kind, n |-> e.n]

ES == INSTANCE EventStream
        WITH stream <- [i \in 1..Len(delivered) |-> Promise(delivered[i])]

IsEventStream == ES!Spec

(***************************************************************************)
(* "Neither holds the parse slot" (EventSink.send, next_frame), and it is  *)
(* released "however it ends" (parse_ebcdic): whatever the client does or  *)
(* leaves undone, its slot comes back, unless it goes on forever sending   *)
(* frames without data, which the idle timeout is not about.               *)
(***************************************************************************)
FrameWithoutData == ReceiveEmpty \/ ReceiveChunk(0)

SlotComesBack ==
    (slot = "held" ~> slot = "released") \/ []<><<FrameWithoutData>>_vars

(***************************************************************************)
(* A client that reads, so that the transport polls the response stream    *)
(* and BATCH_WAIT passes, and that has something to say when it sends,     *)
(* comes to the end of its stream, after a panic too.                      *)
(***************************************************************************)
StreamEnds ==
    WF_vars(Poll) =>
        (pc \in Started ~> closed # "open") \/ []<><<FrameWithoutData>>_vars

-----------------------------------------------------------------------------
(***************************************************************************)
(* README.md:453, past the idle timeout "the parse ends with               *)
(* DEADLINE_EXCEEDED".  A client that did not read may be told INTERNAL.   *)
(***************************************************************************)
DocTimeoutCode ==
    closed = "ended" /\ outcome = "timed out" =>
        delivered[Len(delivered)].code = "timed out"

(***************************************************************************)
(* service.rs:367-369, a batch "adds at most one event to what the channel *)
(* already buffers".  It takes events until it holds BATCH_BYTES, and the  *)
(* channel fills up behind it.                                             *)
(***************************************************************************)
DocBatchAddsOne ==
    closed = "open" => Len(channel) + Len(batch) <= Capacity + 1
=============================================================================
