--------------------------- MODULE AdmissionProofs ---------------------------
(***************************************************************************)
(* Admission for any finite number of calls and any number of slots: the   *)
(* permits are conserved and the counters balance.  Both are sums over the *)
(* sets of calls at each stage, and a step moves one call between two.     *)
(***************************************************************************)
EXTENDS Admission, TLAPS, FiniteSetTheorems

(***************************************************************************)
(* The calls at some stages are finitely many.                             *)
(***************************************************************************)
LEMMA AtFinite ==
    ASSUME NEW S
    PROVE  IsFiniteSet(At(S)) /\ Cardinality(At(S)) \in Nat
  <1>1. At(S) \subseteq Calls
    BY DEF At
  <1>. QED
    BY <1>1, AdmissionAssumption, FS_Subset, FS_CardinalityType

(***************************************************************************)
(* One call moves from one stage to another: the number of calls at any    *)
(* set of stages changes by that call.                                     *)
(***************************************************************************)
LEMMA Moved ==
    ASSUME NEW S, TypeOK, NEW c \in Calls, NEW from, NEW to, Go(c, from, to)
    PROVE  Cardinality(At(S))' =
              IF from \in S
              THEN IF to \in S THEN Cardinality(At(S))
                               ELSE Cardinality(At(S)) - 1
              ELSE IF to \in S THEN Cardinality(At(S)) + 1
                               ELSE Cardinality(At(S))
  <1>1. stage' = [stage EXCEPT ![c] = to] /\ stage[c] = from
    BY DEF Go
  <1>2. stage \in [Calls -> Stages]
    BY DEF TypeOK
  <1>3. c \in At(S) <=> from \in S
    BY <1>1 DEF At
  <1>4. At(S)' = IF to \in S THEN At(S) \cup {c} ELSE At(S) \ {c}
    BY <1>1, <1>2 DEF At
  <1>5. IsFiniteSet(At(S)) /\ Cardinality(At(S)) \in Nat
    BY AtFinite
  <1>6. /\ Cardinality(At(S) \cup {c})
             = IF c \in At(S) THEN Cardinality(At(S))
                              ELSE Cardinality(At(S)) + 1
        /\ Cardinality(At(S) \ {c})
             = IF c \in At(S) THEN Cardinality(At(S)) - 1
                              ELSE Cardinality(At(S))
    BY <1>5, FS_AddElement, FS_RemoveElement
  <1>. QED
    BY <1>3, <1>4, <1>6

(***************************************************************************)
(* The sums: what is held, what is counted as started and not as over,     *)
(* what was rejected.                                                      *)
(***************************************************************************)
Uncounted == At({"running", "decided", "counting", "panicked"})

Balance ==
    /\ metrics.started
         = metrics.completed + metrics.failed + Cardinality(Uncounted)
    /\ metrics.rejected = Cardinality(At({"rejected"}))

Inv == TypeOK /\ PermitsConserved /\ Balance

(***************************************************************************)
(* A fresh service: nobody is at any stage but arriving.                   *)
(***************************************************************************)
LEMMA AdmissionInit == Init => Inv
  <1> SUFFICES ASSUME Init PROVE Inv
    OBVIOUS
  <1>1. TypeOK
    BY AdmissionAssumption DEF Init, TypeOK, Stages, Outcomes
  <1>2. Holders = {} /\ Uncounted = {} /\ At({"rejected"}) = {}
    BY DEF Init, Holders, Uncounted, At
  <1>3. Cardinality({}) = 0
    BY FS_EmptySet
  <1>. QED
    BY <1>1, <1>2, <1>3, AdmissionAssumption
       DEF Init, Inv, PermitsConserved, Balance

(***************************************************************************)
(* The types are kept; a permit given back was held, so there is room.     *)
(***************************************************************************)
LEMMA AdmissionTypes ==
    ASSUME Inv, NEW c \in Calls, Step(c)
    PROVE  TypeOK'
  <1>1. /\ available \in 0..MaxParses /\ MaxParses \in Nat
        /\ stage \in [Calls -> Stages] /\ outcome \in [Calls -> Outcomes]
        /\ metrics \in [started : Nat, completed : Nat, failed : Nat,
                        rejected : Nat, cap_hits : Nat]
    BY AdmissionAssumption DEF Inv, TypeOK
  <1>2. ASSUME c \in Holders PROVE available + 1 \in 0..MaxParses
    <2>1. Cardinality(Holders) \in Nat /\ IsFiniteSet(Holders)
      BY AtFinite DEF Holders
    <2>2. Cardinality(Holders) # 0
      BY <1>2, <2>1, FS_EmptySet
    <2>. QED
      BY <1>1, <2>1, <2>2 DEF Inv, PermitsConserved
  <1>3. CASE Reject(c)
    BY <1>1, <1>3 DEF Reject, Go, TypeOK, Stages
  <1>4. CASE Admit(c)
    BY <1>1, <1>4 DEF Admit, Go, TypeOK, Stages
  <1>5. CASE RefuseOptions(c) \/ ReleaseSlot(c) \/ Panic(c)
    <2>1. c \in Holders
      BY <1>5 DEF RefuseOptions, ReleaseSlot, Panic, Go, Holders, At
    <2>. QED
      BY <1>1, <1>2, <1>5, <2>1
         DEF RefuseOptions, ReleaseSlot, Panic, Go, TypeOK, Stages
  <1>6. CASE StartParse(c)
    BY <1>1, <1>6 DEF StartParse, Go, TypeOK, Stages
  <1>7. CASE Decide(c)
    BY <1>1, <1>7 DEF Decide, Go, TypeOK, Stages, Outcomes
  <1>8. CASE CountOutcome(c)
    <2>1. outcome[c] \in Outcomes
      BY <1>1
    <2>2. Counted(outcome[c]) \in [started : Nat, completed : Nat,
                         failed : Nat, rejected : Nat, cap_hits : Nat]
      <3>1. CASE outcome[c] = "ok"
        BY <1>1, <3>1 DEF Counted
      <3>2. CASE outcome[c] = "exhausted"
        <4> DEFINE RecordSet == [started : Nat, completed : Nat, failed : Nat,
                                 rejected : Nat, cap_hits : Nat]
                   m == [metrics EXCEPT !.failed = @ + 1]
        <4>1. m \in RecordSet
          BY <1>1
        <4>2. Counted(outcome[c]) = [m EXCEPT !.cap_hits = @ + 1]
          BY <1>1, <3>2 DEF Counted
        <4>3. ASSUME NEW x \in RecordSet
              PROVE  [x EXCEPT !.cap_hits = @ + 1] \in RecordSet
          OBVIOUS
        <4> HIDE DEF m
        <4>. QED
          BY <4>1, <4>2, <4>3
      <3>3. CASE outcome[c] \notin {"ok", "exhausted"}
        BY <1>1, <3>3 DEF Counted
      <3>. QED
        BY <3>1, <3>2, <3>3
    <2>. QED
      BY <1>1, <1>8, <2>2 DEF CountOutcome, Go, TypeOK, Stages
  <1>. QED
    BY <1>3, <1>4, <1>5, <1>6, <1>7, <1>8 DEF Step

(***************************************************************************)
(* Each step moves a permit with the call that takes or returns it.        *)
(***************************************************************************)
LEMMA AdmissionPermits ==
    ASSUME Inv, NEW c \in Calls, Step(c)
    PROVE  PermitsConserved'
  <1> DEFINE H == {"opening", "running", "decided"}
  <1>1. /\ TypeOK /\ available \in Nat /\ MaxParses \in Nat
        /\ available + Cardinality(At(H)) = MaxParses
        /\ Cardinality(At(H)) \in Nat
    BY AdmissionAssumption, AtFinite
       DEF Inv, TypeOK, PermitsConserved, Holders
  <1>2. PermitsConserved' <=> available' + Cardinality(At(H))' = MaxParses
    BY DEF PermitsConserved, Holders
  <1>3. \A from, to :
           Go(c, from, to) =>
              Cardinality(At(H))' =
                 IF from \in H
                 THEN IF to \in H THEN Cardinality(At(H))
                                  ELSE Cardinality(At(H)) - 1
                 ELSE IF to \in H THEN Cardinality(At(H)) + 1
                                  ELSE Cardinality(At(H))
    BY <1>1, Moved
  <1> HIDE DEF H
  <1>4. /\ "arriving" \notin H /\ "rejected" \notin H /\ "refused" \notin H
        /\ "counting" \notin H /\ "ended" \notin H /\ "panicked" \notin H
        /\ "opening" \in H /\ "running" \in H /\ "decided" \in H
    BY DEF H
  <1>5. CASE Reject(c) \/ StartParse(c) \/ Decide(c) \/ CountOutcome(c)
    <2>1. /\ Cardinality(At(H))' = Cardinality(At(H))
          /\ available' = available
      BY <1>3, <1>4, <1>5 DEF Reject, StartParse, Decide, CountOutcome
    <2>. QED
      BY <1>1, <1>2, <2>1
  <1>6. CASE Admit(c)
    <2>1. /\ Cardinality(At(H))' = Cardinality(At(H)) + 1
          /\ available' = available - 1
      BY <1>3, <1>4, <1>6 DEF Admit
    <2>. QED
      BY <1>1, <1>2, <2>1
  <1>7. CASE RefuseOptions(c) \/ ReleaseSlot(c) \/ Panic(c)
    <2>1. /\ Cardinality(At(H))' = Cardinality(At(H)) - 1
          /\ available' = available + 1
      BY <1>3, <1>4, <1>7 DEF RefuseOptions, ReleaseSlot, Panic
    <2>. QED
      BY <1>1, <1>2, <2>1
  <1>. QED
    BY <1>5, <1>6, <1>7 DEF Step

(***************************************************************************)
(* Each step moves a call into or out of the uncounted ones exactly when   *)
(* it bumps a counter.                                                     *)
(***************************************************************************)
LEMMA AdmissionCounters ==
    ASSUME Inv, NEW c \in Calls, Step(c)
    PROVE  Balance'
  <1> DEFINE U == {"running", "decided", "counting", "panicked"}
             R == {"rejected"}
             u == Cardinality(At(U))
             r == Cardinality(At(R))
  <1>1. /\ TypeOK /\ u \in Nat /\ r \in Nat
        /\ metrics.started = metrics.completed + metrics.failed + u
        /\ metrics.rejected = r
        /\ metrics \in [started : Nat, completed : Nat, failed : Nat,
                        rejected : Nat, cap_hits : Nat]
    BY AtFinite DEF Inv, TypeOK, Balance, Uncounted
  <1>2. Balance' <=>
          /\ metrics'.started = metrics'.completed + metrics'.failed + u'
          /\ metrics'.rejected = r'
    BY DEF Balance, Uncounted
  <1>3. \A from, to :
           Go(c, from, to) =>
              /\ u' = IF from \in U THEN IF to \in U THEN u ELSE u - 1
                                    ELSE IF to \in U THEN u + 1 ELSE u
              /\ r' = IF from \in R THEN IF to \in R THEN r ELSE r - 1
                                    ELSE IF to \in R THEN r + 1 ELSE r
    BY <1>1, Moved
  <1>4. /\ "arriving" \notin U /\ "rejected" \notin U /\ "refused" \notin U
        /\ "opening" \notin U /\ "ended" \notin U
        /\ "running" \in U /\ "decided" \in U /\ "counting" \in U
        /\ "panicked" \in U
        /\ \A s \in Stages : s \in R <=> s = "rejected"
    BY DEF Stages
  <1> HIDE DEF U, R, u, r
  <1>5. CASE Reject(c)
    <2>1. u' = u /\ r' = r + 1
      BY <1>3, <1>4, <1>5 DEF Reject, Stages
    <2>. QED
      BY <1>1, <1>2, <1>5, <2>1 DEF Reject
  <1>6. CASE \/ Admit(c) \/ RefuseOptions(c) \/ Decide(c)
             \/ ReleaseSlot(c) \/ Panic(c)
    <2>1. u' = u /\ r' = r /\ metrics' = metrics
      BY <1>3, <1>4, <1>6
         DEF Admit, RefuseOptions, Decide, ReleaseSlot, Panic, Stages
    <2>. QED
      BY <1>1, <1>2, <2>1
  <1>7. CASE StartParse(c)
    <2>1. u' = u + 1 /\ r' = r
      BY <1>3, <1>4, <1>7 DEF StartParse, Stages
    <2>. QED
      BY <1>1, <1>2, <1>7, <2>1 DEF StartParse
  <1>8. CASE CountOutcome(c)
    <2>1. u' = u - 1 /\ r' = r
      BY <1>3, <1>4, <1>8 DEF CountOutcome, Stages
    <2>2. /\ metrics'.started = metrics.started
          /\ metrics'.rejected = metrics.rejected
          /\ metrics'.completed + metrics'.failed
               = metrics.completed + metrics.failed + 1
      BY <1>1, <1>8 DEF CountOutcome, Counted
    <2>3. metrics'.completed \in Nat /\ metrics'.failed \in Nat
      BY <1>1, <1>8 DEF CountOutcome, Counted
    <2>. QED
      BY <1>1, <1>2, <2>1, <2>2, <2>3
  <1>. QED
    BY <1>5, <1>6, <1>7, <1>8 DEF Step

-----------------------------------------------------------------------------
(***************************************************************************)
(* Every reachable state of the service satisfies the three.               *)
(***************************************************************************)
THEOREM AdmissionInvariant == Spec => []Inv
  <1>1. Inv /\ [Next]_vars => Inv'
    <2>1. ASSUME Inv, NEW c \in Calls, Step(c) PROVE Inv'
      BY <2>1, AdmissionTypes, AdmissionPermits, AdmissionCounters DEF Inv
    <2>2. ASSUME Inv, UNCHANGED vars PROVE Inv'
      BY <2>2 DEF vars, Inv, TypeOK, PermitsConserved, Balance, Holders,
                  Uncounted, At
    <2>. QED
      BY <2>1, <2>2 DEF Next
  <1>. QED
    BY <1>1, AdmissionInit, PTL DEF Spec

(***************************************************************************)
(* No interleaving of admissions, early returns and endings loses a permit *)
(* of the semaphore or gives one back twice.                               *)
(***************************************************************************)
THEOREM PermitsAreConserved == Spec => []PermitsConserved
  <1>1. Inv => PermitsConserved
    BY DEF Inv
  <1>. QED
    BY <1>1, AdmissionInvariant, PTL

(***************************************************************************)
(* A part of the permit holders is no larger than all of them.             *)
(***************************************************************************)
LEMMA HoldersBound ==
    ASSUME Inv, NEW S, S \subseteq {"opening", "running", "decided"}
    PROVE  Cardinality(At(S)) <= MaxParses
  <1>1. At(S) \subseteq Holders
    BY DEF At, Holders
  <1>2. IsFiniteSet(Holders) /\ Cardinality(Holders) \in Nat
    BY AtFinite DEF Holders
  <1>3. /\ Cardinality(At(S)) <= Cardinality(Holders)
        /\ Cardinality(At(S)) \in Nat
    BY <1>1, <1>2, FS_Subset, AtFinite
  <1>. QED
    BY <1>2, <1>3, AdmissionAssumption DEF Inv, TypeOK, PermitsConserved

(***************************************************************************)
(* At most max_concurrent_parses calls read input or decode.               *)
(***************************************************************************)
THEOREM ParsesAreBounded == Spec => []ParsesBounded
  <1>1. Inv => ParsesBounded
    BY HoldersBound DEF ParsesBounded
  <1>. QED
    BY <1>1, AdmissionInvariant, PTL

(***************************************************************************)
(* A call that is turned away found every slot held by another call.       *)
(***************************************************************************)
THEOREM RejectionsAreJustified == Spec => RejectedOnlyWhenFull
  <1> DEFINE A == \A c \in Calls :
                     stage[c] # "rejected" /\ stage'[c] = "rejected" =>
                        Cardinality(Holders \ {c}) = MaxParses
  <1>1. ASSUME Inv, [Next]_vars PROVE A
    <2> SUFFICES ASSUME NEW c \in Calls, stage[c] # "rejected",
                        stage'[c] = "rejected"
                 PROVE  Cardinality(Holders \ {c}) = MaxParses
      OBVIOUS
    <2>1. PICK d \in Calls : Step(d)
      BY <1>1 DEF Next, vars
    <2>2. stage \in [Calls -> Stages]
      BY <1>1 DEF Inv, TypeOK
    <2>3. d = c /\ Reject(c)
      BY <2>1, <2>2 DEF Step, Reject, Admit, RefuseOptions, StartParse, Decide,
                        ReleaseSlot, CountOutcome, Panic, Go
    <2>4. c \notin Holders /\ available = 0
      BY <2>3 DEF Reject, Go, Holders, At
    <2>5. Holders \ {c} = Holders
      BY <2>4
    <2>6. Cardinality(Holders) \in Nat
      BY AtFinite DEF Holders
    <2>. QED
      BY <1>1, <2>4, <2>5, <2>6, AdmissionAssumption DEF Inv, PermitsConserved
  <1>2. Inv /\ [Next]_vars => [A]_vars
    BY <1>1
  <1>. QED
    BY <1>2, AdmissionInvariant, PTL DEF RejectedOnlyWhenFull, Spec

(***************************************************************************)
(* The counters balance, and the calls in flight by the counters exceed    *)
(* max_concurrent_parses by those still to be counted and those that       *)
(* panicked at most.                                                       *)
(***************************************************************************)
THEOREM CountersAlwaysBalance == Spec => []CountersBalance
  <1>1. ASSUME Inv PROVE CountersBalance
    <2> DEFINE B == At({"running", "decided"})
               N == At({"counting", "panicked"})
    <2>1. Uncounted = B \cup N /\ B \cap N = {}
      BY DEF Uncounted, At
    <2>2. /\ IsFiniteSet(B) /\ IsFiniteSet(N)
          /\ Cardinality(B) \in Nat /\ Cardinality(N) \in Nat
      BY AtFinite
    <2>3. Cardinality(Uncounted) = Cardinality(B) + Cardinality(N)
      <3>1. Cardinality(B \cup N)
              = Cardinality(B) + Cardinality(N) - Cardinality(B \cap N)
        BY <2>2, FS_Union
      <3>2. Cardinality({}) = 0
        BY FS_EmptySet
      <3>3. Cardinality(B \cap N) = 0
        BY <2>1, <3>2
      <3>4. Cardinality(Uncounted) = Cardinality(B \cup N)
        BY <2>1
      <3> HIDE DEF B, N
      <3>. QED
        BY <2>2, <3>1, <3>3, <3>4
    <2>4. Cardinality(B) <= MaxParses
      BY <1>1, HoldersBound
    <2>. QED
      BY <1>1, <2>2, <2>3, <2>4, AdmissionAssumption
         DEF Inv, TypeOK, Balance, CountersBalance, Uncounted
  <1>2. Inv => CountersBalance
    BY <1>1
  <1>. QED
    BY <1>2, AdmissionInvariant, PTL
=============================================================================
