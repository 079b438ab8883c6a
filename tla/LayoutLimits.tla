---------------------------- MODULE LayoutLimits ----------------------------
(***************************************************************************)
(* The limits that the copybook compiler and the validation of a layout    *)
(* share (src/layout.rs).                                                  *)
(***************************************************************************)
EXTENDS Integers

CONSTANTS
    MaxRecordBytes,  \* MAX_RECORD_BYTES
    MaxLayoutFields  \* MAX_LAYOUT_FIELDS

ASSUME LimitAssumption ==
    /\ MaxRecordBytes \in Nat \ {0}
    /\ MaxLayoutFields \in Nat \ {0}
=============================================================================
