------------------------------ MODULE Resolve ------------------------------
(***************************************************************************)
(* The way from a request to the layout its bytes are read with            *)
(* (src/layout.rs, resolve): the one form of layout that was set is lifted *)
(* into the raw shape, and validated.  A copybook is compiled first.       *)
(***************************************************************************)
EXTENDS Copybook, Layout

CONSTANTS
    Options,        \* the layout sources of the requests
    ProtoType,      \* the protobuf field types this build knows -> Kind
    JsonType        \* the names of the JSON field types -> Kind

ASSUME OptionsAssumption ==
    \A o \in Options : o.form = "copybook" => o.lines \in Source

VARIABLE options    \* the layout source of this request

resolveVars == <<options, copybook, layoutVars>>

(***************************************************************************)
(* from_proto and from_json: a field takes its kind from its type; nothing *)
(* else changes, and a flat form declares no path.  An unknown type in a   *)
(* message is a newer client's, one in a JSON document makes it unreadable.*)
(***************************************************************************)
NoDeclaration ==
    [level |-> 0, path |-> <<>>, occurs_index |-> 0, occurs_group |-> <<>>,
     conditions |-> <<>>]

Lift(f, type) ==
    [name |-> f.name, size |-> f.size, kind |-> type[f.type],
     scale |-> f.scale, offset |-> f.offset, declaration |-> NoDeclaration]

LiftLayout(l, type) ==
    LET Lifted(s) == [i \in DOMAIN s |-> Lift(s[i], type)]
    IN  [l EXCEPT
            !.records = [k \in DOMAIN @ |->
                            [@[k] EXCEPT !.fields = Lifted(@)]],
            !.record_length_field = {Lift(f, type) : f \in @},
            !.record_type_field = {Lift(f, type) : f \in @}]

DeclaredTypes(l) ==
    {f.type : f \in l.record_length_field \cup l.record_type_field
                    \cup UNION {ToSet(l.records[k].fields) : k \in DOMAIN l.records}}

ResolveNone ==
    /\ phase = "resolve" /\ options.form = "none"
    /\ Reject("invalid")
    /\ UNCHANGED <<options, copybook, raw, validation>>

ResolveProto ==
    /\ phase = "resolve" /\ options.form = "proto"
    /\ \/ /\ ~(DeclaredTypes(options.layout) \subseteq DOMAIN ProtoType)
          /\ Reject("unsupported")
          /\ UNCHANGED raw
       \/ /\ DeclaredTypes(options.layout) \subseteq DOMAIN ProtoType
          /\ raw' = LiftLayout(options.layout, ProtoType)
          /\ phase' = "layout"
          /\ UNCHANGED failure
    /\ UNCHANGED <<options, copybook, validation>>

ResolveJson ==
    /\ phase = "resolve" /\ options.form = "json"
    /\ \/ /\ ~(DeclaredTypes(options.layout) \subseteq DOMAIN JsonType)
          /\ Reject("invalid")
          /\ UNCHANGED raw
       \/ /\ DeclaredTypes(options.layout) \subseteq DOMAIN JsonType
          /\ raw' = LiftLayout(options.layout, JsonType)
          /\ phase' = "layout"
          /\ UNCHANGED failure
    /\ UNCHANGED <<options, copybook, validation>>

ResolveCopybook ==
    /\ phase = "resolve" /\ options.form = "copybook"
    /\ Compile(options.lines)
    /\ phase' = "compile"
    /\ UNCHANGED <<options, raw, failure, validation>>

Compiling ==
    /\ phase = "compile"
    /\ CompileStep
    /\ UNCHANGED <<options, layoutVars>>

(***************************************************************************)
(* What compile returned: its error, or one record and no prefix.          *)
(***************************************************************************)
Compiled ==
    /\ phase = "compile"
    /\ \/ /\ stage = "refused"
          /\ Reject(refusal)
          /\ UNCHANGED raw
       \/ /\ stage = "compiled"
          /\ raw' = [header_size |-> 0, footer_size |-> 0,
                     record_length_field |-> {}, record_type_field |-> {},
                     records |-> <<[name |-> RecordName, fields |-> fields,
                                    selector |-> {}]>>]
          /\ phase' = "layout"
          /\ UNCHANGED failure
    /\ UNCHANGED <<options, copybook, validation>>

Validating ==
    /\ Validate
    /\ UNCHANGED <<options, copybook>>

NoLayout == [records |-> <<>>]

ResolveInit ==
    /\ options \in Options
    /\ Idle
    /\ raw = NoLayout
    /\ phase = "resolve"
    /\ NothingValidated

ResolveNext ==
    \/ ResolveNone \/ ResolveProto \/ ResolveJson \/ ResolveCopybook
    \/ Compiling \/ Compiled
    \/ Validating

ResolveSpec == ResolveInit /\ [][ResolveNext]_resolveVars
=============================================================================
