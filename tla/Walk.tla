-------------------------------- MODULE Walk --------------------------------
(***************************************************************************)
(* What the record walker promises the code that drives it (the public     *)
(* methods of RecordStream in stream.rs, seen from run_parse): after each  *)
(* push, and after finish_input, next_record hands out rows until it says  *)
(* None or fails; each row takes at least one byte of what was pushed; the *)
(* trailer is asked for once, after the last None.  RecordStream           *)
(* implements it, ParseSession is built on it.                             *)
(***************************************************************************)
EXTENDS Integers

VARIABLES
    phase,           \* whose turn it is: the input's, next_record's, ...
    input_finished,  \* finish_input was called
    received,        \* bytes pushed
    yielded          \* rows handed out

vars == <<phase, input_finished, received, yielded>>

Init ==
    /\ phase = "receive"
    /\ input_finished = FALSE
    /\ received = 0
    /\ yielded = 0

Push(n) ==
    /\ phase = "receive"
    /\ received' = received + n
    /\ phase' = "drain"
    /\ UNCHANGED <<input_finished, yielded>>

FinishInput ==
    /\ phase = "receive"
    /\ input_finished' = TRUE
    /\ phase' = "drain"
    /\ UNCHANGED <<received, yielded>>

Yield ==
    /\ phase = "drain"
    /\ yielded < received
    /\ yielded' = yielded + 1
    /\ UNCHANGED <<phase, input_finished, received>>

NoMore ==
    /\ phase = "drain"
    /\ phase' = IF input_finished THEN "trailer" ELSE "receive"
    /\ UNCHANGED <<input_finished, received, yielded>>

Status ==
    /\ phase = "trailer"
    /\ phase' = "done"
    /\ UNCHANGED <<input_finished, received, yielded>>

(***************************************************************************)
(* next_record or status returned an error, or the caller gave up.         *)
(***************************************************************************)
Stop ==
    /\ phase # "failed"
    /\ phase' = "failed"
    /\ UNCHANGED <<input_finished, received, yielded>>

Next ==
    \/ received' >= received /\ Push(received' - received)
    \/ FinishInput \/ Yield \/ NoMore \/ Status \/ Stop

Spec == Init /\ [][Next]_vars
=============================================================================
