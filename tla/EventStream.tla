----------------------------- MODULE EventStream -----------------------------
(***************************************************************************)
(* What one admitted ParseEbcdic call promises its client, whatever        *)
(* happens behind the stream (ebcdic_service.proto:67-72, README "The      *)
(* stream", TrailerGuard in service.rs): one layout_info, then records     *)
(* numbered from zero without a gap, then, if it was asked for, one        *)
(* document of exactly those records, then one status that counts them.    *)
(* An error may replace the rest at any point.  The stream never ends      *)
(* before its status or its error, unless the client abandons it, and      *)
(* nothing follows either.                                                 *)
(***************************************************************************)
EXTENDS Naturals, Sequences, FiniteSets

VARIABLES
    emit_document,  \* the request asked for a document
    stream,         \* what the client has received
    closed          \* "open", "ended" by the server, "abandoned" by the client

vars == <<emit_document, stream, closed>>

Kinds == {"layout_info", "record", "document", "status", "error"}

Has(kind) == \E i \in DOMAIN stream : stream[i].kind = kind
Records == Cardinality({i \in DOMAIN stream : stream[i].kind = "record"})
Over == Has("status") \/ Has("error")

Init ==
    /\ emit_document \in BOOLEAN
    /\ stream = <<>>
    /\ closed = "open"

Deliver(e) ==
    /\ closed = "open"
    /\ ~Over
    /\ stream' = Append(stream, e)
    /\ UNCHANGED <<emit_document, closed>>

LayoutInfo == stream = <<>> /\ Deliver([kind |-> "layout_info"])

Record ==
    /\ stream # <<>>
    /\ ~Has("document")
    /\ Deliver([kind |-> "record", n |-> Records])

Document ==
    /\ stream # <<>>
    /\ emit_document
    /\ ~Has("document")
    /\ Deliver([kind |-> "document", n |-> Records])

Status ==
    /\ stream # <<>>
    /\ emit_document => Has("document")
    /\ Deliver([kind |-> "status", n |-> Records])

Error == stream # <<>> /\ Deliver([kind |-> "error"])

End ==
    /\ closed = "open"
    /\ Over
    /\ closed' = "ended"
    /\ UNCHANGED <<emit_document, stream>>

Abandon ==
    /\ closed = "open"
    /\ closed' = "abandoned"
    /\ UNCHANGED <<emit_document, stream>>

Next == LayoutInfo \/ Record \/ Document \/ Status \/ Error \/ End \/ Abandon

Spec == Init /\ [][Next]_vars
=============================================================================
