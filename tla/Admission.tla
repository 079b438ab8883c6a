------------------------------ MODULE Admission ------------------------------
(***************************************************************************)
(* Many ParseEbcdic calls on one service (src/service.rs): the semaphore   *)
(* that admits them, and the process counters (src/metrics.rs) they share. *)
(* What a call does while it runs is in ParseSession; here it takes its    *)
(* slot, reads its options, runs, is decided, and then gives the slot back *)
(* and is counted, in that order and in two steps; or its task panics.     *)
(***************************************************************************)
EXTENDS Integers, FiniteSets

CONSTANTS
    Calls,      \* the calls that ever arrive
    MaxParses   \* max_concurrent_parses

ASSUME AdmissionAssumption ==
    /\ IsFiniteSet(Calls)
    /\ MaxParses \in Nat \ {0}

VARIABLES
    available,  \* permits left in the semaphore
    stage,      \* where each call is
    outcome,    \* how each call was decided
    metrics     \* the counters of the process

vars == <<available, stage, outcome, metrics>>

Stages == {"arriving", "opening", "running", "decided", "counting", "ended",
           "rejected", "refused", "panicked"}
Outcomes == {"none", "ok", "error", "exhausted"}

At(s) == {c \in Calls : stage[c] \in s}
Holders == At({"opening", "running", "decided"})

Init ==
    /\ available = MaxParses
    /\ stage = [c \in Calls |-> "arriving"]
    /\ outcome = [c \in Calls |-> "none"]
    /\ metrics = [started |-> 0, completed |-> 0, failed |-> 0,
                  rejected |-> 0, cap_hits |-> 0]

Go(c, from, to) ==
    /\ stage[c] = from
    /\ stage' = [stage EXCEPT ![c] = to]

(***************************************************************************)
(* try_acquire_owned: a permit now, or a refusal now.                      *)
(***************************************************************************)
Reject(c) ==
    /\ Go(c, "arriving", "rejected")
    /\ available = 0
    /\ metrics' = [metrics EXCEPT !.rejected = @ + 1]
    /\ UNCHANGED <<available, outcome>>

Admit(c) ==
    /\ Go(c, "arriving", "opening")
    /\ available > 0
    /\ available' = available - 1
    /\ UNCHANGED <<outcome, metrics>>

\* Mutant: the early return forgets the permit (a leaked `forget`).
RefuseOptionsLeak(c) ==
    /\ Go(c, "opening", "refused")
    /\ UNCHANGED <<available, outcome, metrics>>

(***************************************************************************)
(* An early return before the task is spawned, or the handler is dropped:  *)
(* the permit goes with it, and nothing is counted.                        *)
(***************************************************************************)
RefuseOptions(c) ==
    /\ Go(c, "opening", "refused")
    /\ available' = available + 1
    /\ UNCHANGED <<outcome, metrics>>

StartParse(c) ==
    /\ Go(c, "opening", "running")
    /\ metrics' = [metrics EXCEPT !.started = @ + 1]
    /\ UNCHANGED <<available, outcome>>

Decide(c) ==
    /\ Go(c, "running", "decided")
    /\ \E o \in Outcomes \ {"none"} : outcome' = [outcome EXCEPT ![c] = o]
    /\ UNCHANGED <<available, metrics>>

\* Mutant: the slot is released in the task and again with the handler.
ReleaseSlotTwice(c) ==
    /\ Go(c, "decided", "counting")
    /\ available' = available + 2
    /\ UNCHANGED <<outcome, metrics>>

ReleaseSlot(c) ==
    /\ Go(c, "decided", "counting")
    /\ available' = available + 1
    /\ UNCHANGED <<outcome, metrics>>

(***************************************************************************)
(* The task unwinds: the permit is dropped, and the call is never counted  *)
(* as over.                                                                *)
(***************************************************************************)
Panic(c) ==
    /\ Go(c, "running", "panicked")
    /\ available' = available + 1
    /\ UNCHANGED <<outcome, metrics>>

\* Mutant: a parse stopped by the byte cap is only a cap hit.
CountedCapHit(o) ==
    CASE o = "ok"        -> [metrics EXCEPT !.completed = @ + 1]
      [] o = "exhausted" -> [metrics EXCEPT !.cap_hits = @ + 1]
      [] OTHER           -> [metrics EXCEPT !.failed = @ + 1]

Counted(o) ==
    CASE o = "ok"        -> [metrics EXCEPT !.completed = @ + 1]
      [] o = "exhausted" -> [metrics EXCEPT !.failed = @ + 1,
                                            !.cap_hits = @ + 1]
      [] OTHER           -> [metrics EXCEPT !.failed = @ + 1]

CountOutcome(c) ==
    /\ Go(c, "counting", "ended")
    /\ metrics' = Counted(outcome[c])
    /\ UNCHANGED <<available, outcome>>

Step(c) ==
    \/ Reject(c) \/ Admit(c) \/ RefuseOptions(c) \/ StartParse(c)
    \/ Decide(c) \/ ReleaseSlot(c) \/ CountOutcome(c) \/ Panic(c)

Next == \E c \in Calls : Step(c)

Spec == Init /\ [][Next]_vars

-----------------------------------------------------------------------------
TypeOK ==
    /\ available \in 0..MaxParses
    /\ stage \in [Calls -> Stages]
    /\ outcome \in [Calls -> Outcomes]
    /\ metrics \in [started : Nat, completed : Nat, failed : Nat,
                    rejected : Nat, cap_hits : Nat]

(***************************************************************************)
(* Every permit is in the semaphore or held by one call: none is lost on   *)
(* an early return or by a panic, none is given back twice.                *)
(***************************************************************************)
PermitsConserved == available + Cardinality(Holders) = MaxParses

(***************************************************************************)
(* max_concurrent_parses bounds the calls that read input or decode.       *)
(***************************************************************************)
ParsesBounded == Cardinality(At({"opening", "running"})) <= MaxParses

(***************************************************************************)
(* Past the cap a call is refused at once, and only past the cap: when a   *)
(* call is turned away every slot is held by another one.                  *)
(***************************************************************************)
RejectedOnlyWhenFull ==
    [][\A c \in Calls :
          stage[c] # "rejected" /\ stage'[c] = "rejected" =>
              Cardinality(Holders \ {c}) = MaxParses]_vars

(***************************************************************************)
(* started, completed, failed and rejected add up over any interleaving of *)
(* the calls.  A call is counted after its slot is free, so the calls in   *)
(* flight by the counters may pass max_concurrent_parses by those that are *)
(* still to be counted, and by those that panicked, which stay in flight   *)
(* by the counters for as long as the process lives; and by no more.       *)
(***************************************************************************)
CountersBalance ==
    /\ metrics.started
         = metrics.completed + metrics.failed
             + Cardinality(At({"running", "decided", "counting", "panicked"}))
    /\ metrics.rejected = Cardinality(At({"rejected"}))
    /\ metrics.started - metrics.completed - metrics.failed
         <= MaxParses + Cardinality(At({"counting", "panicked"}))
=============================================================================
