-------------------------- MODULE CircuitBreakerProofs --------------------------
(***************************************************************************)
(* Proofs about the circuit breaker, for any number of concurrent requests *)
(* and any set of configurations: its types, and that every probe it       *)
(* counts is held by a request, as long as no client goes away and a       *)
(* refusal is not interrupted.                                             *)
(***************************************************************************)
EXTENDS CircuitBreaker, FiniteSetTheorems, TLAPS

\* Only a request that was sent and has not released holds a permit.
OnlySentHold ==
    \A r \in Requests : permit[r] # "none" => pc[r] \in {"sent", "okRelease", "failRelease"}

\* A request that is about to release a permit holds one.
ReleasersHold ==
    \A r \in Requests : pc[r] \in {"okRelease", "failRelease"} => permit[r] # "none"

\* Without an interruption, no request is inside a refusal.
NoRollback == \A r \in Requests : pc[r] # "rollback"

Inv == TypeOK /\ OnlySentHold /\ ReleasersHold /\ NoRollback /\ PermitsCovered
-----------------------------------------------------------------------------
(* Types.                                                                  *)

\* A capped counter stays within its cap.
LEMMA IncrementType ==
    ASSUME NEW n \in 0..CountCap
    PROVE  Increment(n) \in 0..CountCap
  BY CountAssumption DEF Increment

\* A step of one request leaves the types as they were.
LEMMA ProceedType ==
    ASSUME TypeOK, NEW r \in Requests, Proceed(r)
    PROVE  TypeOK'
<1>1. CASE CheckTimeout(r, "available", "availableTurn")
  BY <1>1 DEF TypeOK, CheckTimeout, Goto, circuit, counters, Point, Listing, Asking, Reporting
<1>2. CASE CheckTimeout(r, "allow", "allowTurn")
  BY <1>2 DEF TypeOK, CheckTimeout, Goto, circuit, counters, Point, Listing, Asking, Reporting
<1>3. CASE TransitionToHalfOpen(r)
  BY <1>3, CountAssumption
  DEF TypeOK, TransitionToHalfOpen, Goto, CircuitState, Point, Listing, Asking, Reporting
<1>4. CASE AllowRequest(r)
  BY <1>4 DEF TypeOK, AllowRequest, Goto, circuit, counters, Point, Listing, Asking, Reporting
<1>5. CASE AllowHalfOpenProbe(r)
  <2>1. half_open_requests' \in 0..(CounterMod - 1)
    BY <1>5, CountAssumption DEF TypeOK, AllowHalfOpenProbe, max_half_open_requests
  <2>2. pc' \in [Requests -> Point] /\ permit' \in [Requests -> {"none", "current", "stale"}]
    BY <1>5 DEF TypeOK, AllowHalfOpenProbe, Goto, Point, Listing, Asking, Reporting
  <2> QED BY <1>5, <2>1, <2>2 DEF TypeOK, AllowHalfOpenProbe, counters
<1>6. CASE RollBackProbe(r)
  <2>1. half_open_requests' \in 0..(CounterMod - 1)
    BY <1>6, CountAssumption DEF TypeOK, RollBackProbe
  <2>2. pc' \in [Requests -> Point]
    BY <1>6 DEF TypeOK, RollBackProbe, Goto, Point, Listing, Asking, Reporting
  <2> QED BY <1>6, <2>1, <2>2 DEF TypeOK, RollBackProbe, counters
<1>7. CASE RecordSuccess(r)
  BY <1>7 DEF TypeOK, RecordSuccess, Report, Goto, circuit, counters,
              Point, Listing, Asking, Reporting
<1>8. CASE RecordFailure(r)
  BY <1>8 DEF TypeOK, RecordFailure, Report, Goto, circuit, counters,
              Point, Listing, Asking, Reporting
<1>9. CASE ReleaseNeutral(r)
  BY <1>9, CountAssumption DEF TypeOK, ReleaseNeutral, Release, Goto, counters,
              Point, Listing, Asking, Reporting
<1>10. CASE ReleasePermit(r)
  BY <1>10, CountAssumption DEF TypeOK, ReleasePermit, Release, Goto, counters,
              Point, Listing, Asking, Reporting
<1>11. CASE CountSuccess(r)
  BY <1>11, IncrementType, CountAssumption DEF TypeOK, CountSuccess, Goto,
              Point, Listing, Asking, Reporting
<1>12. CASE CountFailure(r)
  BY <1>12, IncrementType, CountAssumption DEF TypeOK, CountFailure, Goto,
              Point, Listing, Asking, Reporting
<1>13. CASE TransitionToClosed(r)
  BY <1>13 DEF TypeOK, TransitionToClosed, Goto, counters, CircuitState,
              Point, Listing, Asking, Reporting
<1>14. CASE ClearCounters(r)
  BY <1>14, CountAssumption DEF TypeOK, ClearCounters, Goto, Point, Listing, Asking, Reporting
<1>15. CASE TransitionToOpen(r)
  BY <1>15 DEF TypeOK, TransitionToOpen, Goto, counters, CircuitState,
              Point, Listing, Asking, Reporting
<1>16. CASE StampOpening(r)
  BY <1>16, CountAssumption DEF TypeOK, StampOpening, Stamp, Goto,
              Point, Listing, Asking, Reporting
<1> QED BY <1>1, <1>2, <1>3, <1>4, <1>5, <1>6, <1>7, <1>8, <1>9, <1>10, <1>11, <1>12,
           <1>13, <1>14, <1>15, <1>16 DEF Proceed

\* The first state is well typed.
LEMMA InitType == Init => TypeOK
<1> SUFFICES ASSUME Init PROVE TypeOK
  OBVIOUS
<1>1. /\ failures \in 0..CountCap /\ successes \in 0..CountCap
      /\ half_open_requests \in 0..(CounterMod - 1)
  BY CountAssumption DEF Init
<1>2. /\ pc \in [Requests -> Point] /\ seen \in [Requests -> CircuitState]
      /\ permit \in [Requests -> {"none", "current", "stale"}]
  BY DEF Init, CircuitState, Point
<1>3. resetting \in BOOLEAN
  BY Zenon DEF Init
<1> QED BY <1>1, <1>2, <1>3 DEF Init, TypeOK, CircuitState

\* A step leaves the types as they were.
LEMMA StepType == TypeOK /\ [Next]_vars => TypeOK'
<1> SUFFICES ASSUME TypeOK, [Next]_vars PROVE TypeOK'
  OBVIOUS
<1>1. CASE \E r \in Requests : IsAvailable(r) \/ Bypass(r) \/ Proceed(r) \/ Abandon(r)
  <2> PICK r \in Requests : IsAvailable(r) \/ Bypass(r) \/ Proceed(r) \/ Abandon(r)
    BY <1>1
  <2>1. CASE IsAvailable(r)
    BY <2>1 DEF TypeOK, IsAvailable, Goto, circuit, counters, Point, Listing, Asking, Reporting
  <2>2. CASE Bypass(r)
    BY <2>2 DEF TypeOK, Bypass, Goto, circuit, counters, Point
  <2>3. CASE Proceed(r)
    BY <2>3, ProceedType
  <2>4. CASE Abandon(r)
    BY <2>4 DEF TypeOK, Abandon, Goto, circuit, counters, Point
  <2> QED BY <2>1, <2>2, <2>3, <2>4
<1>2. CASE Reset
  BY <1>2 DEF TypeOK, Reset, counters, requests, CircuitState
<1>3. CASE ResetCounters
  <2>1. failures' \in 0..CountCap /\ successes' \in 0..CountCap
    BY <1>3, CountAssumption DEF ResetCounters
  <2>2. resetting' \in BOOLEAN
    BY <1>3, Zenon DEF ResetCounters
  <2> QED BY <1>3, <2>1, <2>2 DEF TypeOK, ResetCounters, requests
<1>4. CASE UpdateConfig
  BY <1>4 DEF TypeOK, UpdateConfig, circuit, counters, requests
<1>5. CASE Elapse
  BY <1>5 DEF TypeOK, Elapse, counters, requests
<1>6. CASE UNCHANGED vars
  BY <1>6 DEF TypeOK, vars, circuit, counters, requests
<1> QED BY <1>1, <1>2, <1>3, <1>4, <1>5, <1>6 DEF Next

\* Every reachable state of the breaker and its requests is well typed.
THEOREM TypeCorrect == Spec => []TypeOK
  BY InitType, StepType, PTL DEF Spec
-----------------------------------------------------------------------------
(* Permits.                                                                *)

\* The holders are finitely many.
LEMMA HoldersFinite == IsFiniteSet(Holders) /\ Cardinality(Holders) \in Nat
<1>1. Holders \subseteq Requests
  BY DEF Holders
<1> QED BY <1>1, RequestsAssumption, FS_Subset, FS_CardinalityType

\* The same facts of the next state.
LEMMA HoldersFiniteNext == IsFiniteSet(Holders') /\ Cardinality(Holders') \in Nat
<1>1. Holders' \subseteq Requests
  BY DEF Holders
<1> QED BY <1>1, RequestsAssumption, FS_Subset, FS_CardinalityType

\* A step that leaves permits and counter alone keeps them in balance.
LEMMA UntouchedPermits ==
    ASSUME PermitsCovered, UNCHANGED <<permit, half_open_requests>>
    PROVE  PermitsCovered'
<1>1. Holders' = Holders
  BY DEF Holders
<1> QED BY <1>1 DEF PermitsCovered

\* A new trial starts at zero.
LEMMA TrialCovers ==
    ASSUME half_open_requests' = 0
    PROVE  PermitsCovered'
  BY HoldersFiniteNext DEF PermitsCovered

\* A probe that is let through is counted once, and holds one permit.
LEMMA ProbeCovers ==
    ASSUME TypeOK, PermitsCovered, NEW r \in Requests, permit[r] = "none",
           half_open_requests' = half_open_requests + 1,
           permit' = [permit EXCEPT ![r] = "current"]
    PROVE  PermitsCovered'
<1>1. Holders' = Holders \cup {r} /\ r \notin Holders
  BY DEF TypeOK, Holders
<1>2. Cardinality(Holders') = Cardinality(Holders) + 1
  BY <1>1, HoldersFinite, FS_AddElement
<1> QED BY <1>2, HoldersFinite DEF TypeOK, PermitsCovered

\* A released permit is taken off the counter, unless a new trial did already.
LEMMA ReleaseCovers ==
    ASSUME TypeOK, PermitsCovered, NEW r \in Requests, permit[r] # "none", Release(r)
    PROVE  PermitsCovered'
<1>1. Holders' = Holders \ {r} /\ r \in Holders
  BY DEF TypeOK, Holders, Release
<1>2. Cardinality(Holders') = Cardinality(Holders) - 1
  BY <1>1, HoldersFinite, FS_RemoveElement
<1>3. Cardinality(Holders') \in Nat
  BY HoldersFiniteNext
<1> QED BY <1>2, <1>3, HoldersFinite DEF TypeOK, PermitsCovered, Release

\* Where the holders are, after a step of one request.
LEMMA ProceedPlaces ==
    ASSUME TypeOK, OnlySentHold, ReleasersHold, NEW r \in Requests, Proceed(r)
    PROVE  OnlySentHold' /\ ReleasersHold'
<1> USE DEF OnlySentHold, ReleasersHold, TypeOK, Goto
<1>1. CASE CheckTimeout(r, "available", "availableTurn")
  BY <1>1 DEF CheckTimeout
<1>2. CASE CheckTimeout(r, "allow", "allowTurn")
  BY <1>2 DEF CheckTimeout
<1>3. CASE TransitionToHalfOpen(r)
  BY <1>3 DEF TransitionToHalfOpen
<1>4. CASE AllowRequest(r)
  BY <1>4 DEF AllowRequest, CircuitState
<1>5. CASE AllowHalfOpenProbe(r)
  BY <1>5 DEF AllowHalfOpenProbe
<1>6. CASE RollBackProbe(r)
  BY <1>6 DEF RollBackProbe
<1>7. CASE RecordSuccess(r)
  BY <1>7 DEF RecordSuccess, Report
<1>8. CASE RecordFailure(r)
  BY <1>8 DEF RecordFailure, Report
<1>9. CASE ReleaseNeutral(r)
  BY <1>9 DEF ReleaseNeutral, Release
<1>10. CASE ReleasePermit(r)
  BY <1>10 DEF ReleasePermit, Release
<1>11. CASE CountSuccess(r)
  BY <1>11 DEF CountSuccess
<1>12. CASE CountFailure(r)
  BY <1>12 DEF CountFailure
<1>13. CASE TransitionToClosed(r)
  BY <1>13 DEF TransitionToClosed
<1>14. CASE ClearCounters(r)
  BY <1>14 DEF ClearCounters
<1>15. CASE TransitionToOpen(r)
  BY <1>15 DEF TransitionToOpen
<1>16. CASE StampOpening(r)
  BY <1>16 DEF StampOpening
<1> QED BY <1>1, <1>2, <1>3, <1>4, <1>5, <1>6, <1>7, <1>8, <1>9, <1>10, <1>11, <1>12,
           <1>13, <1>14, <1>15, <1>16 DEF Proceed

\* The same, after any step.
LEMMA StepPlaces ==
    ASSUME TypeOK, OnlySentHold, ReleasersHold, [Next]_vars
    PROVE  OnlySentHold' /\ ReleasersHold'
<1>1. CASE \E r \in Requests : IsAvailable(r) \/ Bypass(r) \/ Abandon(r)
  BY <1>1 DEF TypeOK, OnlySentHold, ReleasersHold, IsAvailable, Bypass, Abandon, Goto
<1>2. CASE \E r \in Requests : Proceed(r)
  BY <1>2, ProceedPlaces
<1>3. CASE Reset \/ ResetCounters \/ UpdateConfig \/ Elapse \/ UNCHANGED vars
  BY <1>3 DEF Reset, ResetCounters, UpdateConfig, Elapse, vars, circuit, requests,
              OnlySentHold, ReleasersHold
<1> QED BY <1>1, <1>2, <1>3 DEF Next

\* If refusals are not split, no request ever is inside of one.
LEMMA StepUnsplit ==
    ASSUME TypeOK, NoRollback, ~ SplitRefusal, [Next]_vars
    PROVE  NoRollback'
<1> USE DEF NoRollback, TypeOK, Goto
<1>1. CASE \E r \in Requests : IsAvailable(r) \/ Bypass(r) \/ Abandon(r)
  BY <1>1 DEF IsAvailable, Bypass, Abandon
<1>2. CASE \E r \in Requests : AllowRequest(r)
  BY <1>2 DEF AllowRequest, CircuitState
<1>3. CASE \E r \in Requests : AllowHalfOpenProbe(r)
  BY <1>3 DEF AllowHalfOpenProbe
<1>4. CASE \E r \in Requests : Proceed(r) /\ ~ AllowRequest(r) /\ ~ AllowHalfOpenProbe(r)
  BY <1>4 DEF Proceed, CheckTimeout, TransitionToHalfOpen, RollBackProbe, RecordSuccess,
              RecordFailure, Report, ReleaseNeutral, ReleasePermit, CountSuccess, CountFailure,
              TransitionToClosed, ClearCounters, TransitionToOpen, StampOpening
<1>5. CASE Reset \/ ResetCounters \/ UpdateConfig \/ Elapse \/ UNCHANGED vars
  BY <1>5 DEF Reset, ResetCounters, UpdateConfig, Elapse, vars, requests
<1> QED BY <1>1, <1>2, <1>3, <1>4, <1>5 DEF Next

\* Permits and counter stay in balance in a step of one request.
LEMMA ProceedCovers ==
    ASSUME Inv, ~ SplitRefusal, NEW r \in Requests, Proceed(r)
    PROVE  PermitsCovered'
<1> USE DEF Inv
<1>1. CASE TransitionToHalfOpen(r)
  BY <1>1, TrialCovers, UntouchedPermits DEF TransitionToHalfOpen
<1>2. CASE AllowHalfOpenProbe(r)
  <2>1. permit[r] = "none"
    BY <1>2 DEF AllowHalfOpenProbe, OnlySentHold
  <2> QED BY <1>2, <2>1, ProbeCovers, UntouchedPermits DEF AllowHalfOpenProbe
<1>3. CASE RollBackProbe(r)
  BY <1>3 DEF RollBackProbe, NoRollback
<1>4. CASE ReleaseNeutral(r)
  BY <1>4, ReleaseCovers, UntouchedPermits DEF ReleaseNeutral
<1>5. CASE ReleasePermit(r)
  BY <1>5, ReleaseCovers DEF ReleasePermit, ReleasersHold
<1>6. CASE UNCHANGED <<permit, half_open_requests>>
  BY <1>6, UntouchedPermits
<1>7. \/ TransitionToHalfOpen(r) \/ AllowHalfOpenProbe(r) \/ RollBackProbe(r)
      \/ ReleaseNeutral(r) \/ ReleasePermit(r) \/ UNCHANGED <<permit, half_open_requests>>
  BY DEF Proceed, CheckTimeout, AllowRequest, RecordSuccess, RecordFailure, Report,
         CountSuccess, CountFailure, TransitionToClosed, ClearCounters, TransitionToOpen,
         StampOpening, circuit
<1> QED BY <1>1, <1>2, <1>3, <1>4, <1>5, <1>6, <1>7

\* The permits and their counter, from the first state on.
LEMMA InitInv == Init => Inv
<1> SUFFICES ASSUME Init PROVE Inv
  OBVIOUS
<1>1. TypeOK
  BY InitType
<1>2. OnlySentHold /\ ReleasersHold /\ NoRollback
  BY DEF Init, OnlySentHold, ReleasersHold, NoRollback
<1>3. PermitsCovered
  BY HoldersFinite DEF Init, PermitsCovered
<1> QED BY <1>1, <1>2, <1>3 DEF Inv

\* No step unbalances them, if nobody goes away and refusals are not split.
LEMMA StepInv ==
    ASSUME ~ MayAbandon, ~ SplitRefusal, Inv, [Next]_vars
    PROVE  Inv'
<1>1. TypeOK' /\ OnlySentHold' /\ ReleasersHold' /\ NoRollback'
  BY StepType, StepPlaces, StepUnsplit DEF Inv
<1>2. CASE \E r \in Requests : Proceed(r)
  BY <1>1, <1>2, ProceedCovers DEF Inv
<1>3. CASE ~ \E r \in Requests : Proceed(r)
  <2>1. UNCHANGED <<permit, half_open_requests>>
    BY <1>3 DEF Next, IsAvailable, Bypass, Abandon, Reset, ResetCounters, UpdateConfig,
                Elapse, vars, circuit, requests
  <2> QED BY <1>1, <2>1, UntouchedPermits DEF Inv
<1> QED BY <1>2, <1>3

\* If no client goes away while its request is sent, and nothing runs inside the
\* refusal of a probe, every probe that the breaker counts is held by a request
\* that will release it, with any number of requests, resets and reopenings.
THEOREM PermitsStayCovered ==
    ASSUME ~ MayAbandon, ~ SplitRefusal
    PROVE  Spec => []PermitsCovered
<1>1. Init => Inv
  BY InitInv
<1>2. Inv /\ [Next]_vars => Inv'
  BY StepInv
<1>3. Inv => PermitsCovered
  BY DEF Inv
<1> QED BY <1>1, <1>2, <1>3, PTL DEF Spec

-----------------------------------------------------------------------------
(* Which steps lose a slot, with clients that go away and split refusals.  *)

\* The refusals under way are finitely many, too.
LEMMA RefusingFinite == IsFiniteSet(Refusing) /\ Cardinality(Refusing) \in Nat
<1>1. Refusing \subseteq Requests
  BY DEF Refusing
<1> QED BY <1>1, RequestsAssumption, FS_Subset, FS_CardinalityType

\* The same facts of the next state.
LEMMA RefusingFiniteNext == IsFiniteSet(Refusing') /\ Cardinality(Refusing') \in Nat
<1>1. Refusing' \subseteq Requests
  BY DEF Refusing
<1> QED BY <1>1, RequestsAssumption, FS_Subset, FS_CardinalityType

\* A request that neither enters nor leaves a refusal leaves them as they were.
LEMMA SameRefusing ==
    ASSUME TypeOK, NEW r \in Requests, NEW point, Goto(r, point),
           pc[r] # "rollback", point # "rollback"
    PROVE  Refusing' = Refusing
  BY DEF TypeOK, Refusing, Goto

\* A step after which no more slots are lost than before.
NoLoss == Lost' <= Lost

\* The loss is a number.
LEMMA LostType == TypeOK => Lost \in Nat
  BY HoldersFinite, RefusingFinite DEF TypeOK, Lost, Accounted

\* What a step leaves alone stays accounted for.
LEMMA UntouchedAccount ==
    ASSUME TypeOK, UNCHANGED <<permit, half_open_requests>>, Refusing' = Refusing
    PROVE  NoLoss
<1>1. Holders' = Holders
  BY DEF Holders
<1> QED BY <1>1, LostType DEF NoLoss, Lost, Accounted

\* A new trial starts with nothing to account for.
LEMMA TrialAccounts ==
    ASSUME TypeOK, half_open_requests' = 0
    PROVE  NoLoss
<1>1. Lost' = 0
  BY HoldersFiniteNext, RefusingFiniteNext DEF Lost, Accounted
<1> QED BY <1>1, LostType DEF NoLoss

\* A probe that is let through is held.
LEMMA ProbeAccounts ==
    ASSUME TypeOK, NEW r \in Requests, permit[r] = "none",
           half_open_requests' = half_open_requests + 1,
           permit' = [permit EXCEPT ![r] = "current"], Refusing' = Refusing
    PROVE  NoLoss
<1>1. Holders' = Holders \cup {r} /\ r \notin Holders
  BY DEF TypeOK, Holders
<1>2. Cardinality(Holders') = Cardinality(Holders) + 1
  BY <1>1, HoldersFinite, FS_AddElement
<1> QED BY <1>2, HoldersFinite, RefusingFinite DEF TypeOK, NoLoss, Lost, Accounted

\* The addition of a refused probe is one its request takes back.
LEMMA RefusalAccounts ==
    ASSUME TypeOK, NEW r \in Requests, pc[r] # "rollback", Goto(r, "rollback"),
           half_open_requests' = (half_open_requests + 1) % CounterMod, UNCHANGED permit
    PROVE  NoLoss
<1>1. Refusing' = Refusing \cup {r} /\ r \notin Refusing /\ Holders' = Holders
  BY DEF TypeOK, Refusing, Holders, Goto
<1>2. Cardinality(Refusing') = Cardinality(Refusing) + 1
  BY <1>1, RefusingFinite, FS_AddElement
<1>3. half_open_requests' <= half_open_requests + 1
  BY CountAssumption DEF TypeOK
<1>4. half_open_requests' \in Nat
  BY CountAssumption DEF TypeOK
<1> QED BY <1>1, <1>2, <1>3, <1>4, HoldersFinite, RefusingFinite DEF TypeOK, NoLoss, Lost, Accounted

\* A refusal takes its addition back, unless the counter was set to zero.
LEMMA RollBackAccounts ==
    ASSUME TypeOK, NEW r \in Requests, RollBackProbe(r), half_open_requests # 0
    PROVE  NoLoss
<1>1. Refusing' = Refusing \ {r} /\ r \in Refusing /\ Holders' = Holders
  BY DEF TypeOK, Refusing, Holders, Goto, RollBackProbe
<1>2. Cardinality(Refusing') = Cardinality(Refusing) - 1
  BY <1>1, RefusingFinite, FS_RemoveElement
<1>3. half_open_requests' = half_open_requests - 1
  BY CountAssumption DEF TypeOK, RollBackProbe
<1> QED BY <1>1, <1>2, <1>3, HoldersFinite, RefusingFinite DEF TypeOK, NoLoss, Lost, Accounted

\* A permit that is released is taken off the counter, in whatever state.
LEMMA ReleaseAccounts ==
    ASSUME TypeOK, NEW r \in Requests, permit[r] # "none", Release(r),
           Refusing' = Refusing
    PROVE  NoLoss
<1>1. Holders' = Holders \ {r} /\ r \in Holders
  BY DEF TypeOK, Holders, Release
<1>2. Cardinality(Holders') = Cardinality(Holders) - 1
  BY <1>1, HoldersFinite, FS_RemoveElement
<1>3. Cardinality(Holders') \in Nat
  BY HoldersFiniteNext
<1> QED BY <1>2, <1>3, HoldersFinite, RefusingFinite DEF TypeOK, NoLoss, Lost, Accounted, Release

\* A step of one request accounts for its slot, but for the wrapping refusal.
LEMMA ProceedAccounts ==
    ASSUME TypeOK, OnlySentHold, ReleasersHold, NEW r \in Requests, Proceed(r),
           ~ Loses(r)
    PROVE  NoLoss
<1>1. CASE TransitionToHalfOpen(r)
  <2>1. Refusing' = Refusing
    BY <1>1, SameRefusing DEF TransitionToHalfOpen
  <2> QED BY <1>1, <2>1, TrialAccounts, UntouchedAccount DEF TransitionToHalfOpen
<1>2. CASE AllowHalfOpenProbe(r)
  <2>1. permit[r] = "none" /\ pc[r] # "rollback"
    BY <1>2 DEF AllowHalfOpenProbe, OnlySentHold
  <2>2. CASE Goto(r, "sent") \/ Goto(r, "idle")
    <3>1. Refusing' = Refusing
      BY <2>1, <2>2, SameRefusing
    <3> QED BY <1>2, <2>1, <2>2, <3>1, ProbeAccounts, UntouchedAccount, RefusalAccounts
            DEF AllowHalfOpenProbe
  <2>3. CASE Goto(r, "rollback")
    <3>1. ~ Goto(r, "sent")
      BY <2>3 DEF Goto, TypeOK
    <3> QED BY <1>2, <2>1, <2>3, <3>1, RefusalAccounts, <2>2 DEF AllowHalfOpenProbe
  <2> QED BY <1>2, <2>2, <2>3 DEF AllowHalfOpenProbe
<1>3. CASE RollBackProbe(r)
  BY <1>3, RollBackAccounts DEF Loses
<1>4. CASE ReleaseNeutral(r)
  <2>1. Refusing' = Refusing
    BY <1>4, SameRefusing DEF ReleaseNeutral
  <2> QED BY <1>4, <2>1, ReleaseAccounts, UntouchedAccount DEF ReleaseNeutral
<1>5. CASE ReleasePermit(r)
  <2>1. Refusing' = Refusing
    BY <1>5, SameRefusing DEF ReleasePermit
  <2> QED BY <1>5, <2>1, ReleaseAccounts DEF ReleasePermit, ReleasersHold
<1>6. CASE /\ Proceed(r) /\ ~ TransitionToHalfOpen(r) /\ ~ AllowHalfOpenProbe(r)
           /\ ~ RollBackProbe(r) /\ ~ ReleaseNeutral(r) /\ ~ ReleasePermit(r)
  <2> USE DEF Proceed, CheckTimeout, AllowRequest, RecordSuccess, RecordFailure, Report,
              CountSuccess, CountFailure, TransitionToClosed, ClearCounters, TransitionToOpen,
              StampOpening
  <2>1. UNCHANGED <<permit, half_open_requests>>
    BY <1>6 DEF circuit
  <2>2. pc[r] # "rollback" /\ \E point : point # "rollback" /\ Goto(r, point)
    BY <1>6 DEF TypeOK, CircuitState
  <2> QED BY <2>1, <2>2, SameRefusing, UntouchedAccount
<1> QED BY <1>1, <1>2, <1>3, <1>4, <1>5, <1>6

\* With any number of requests and any width of the counter, a slot is lost only
\* with the client that goes away while it holds it, or by a refusal that
\* subtracts from a counter that was set to zero in between.
THEOREM SlotsLeakOnlyByLoss == Spec => LeakOnlyByLoss
<1> DEFINE Placed == TypeOK /\ OnlySentHold /\ ReleasersHold
<1>1. Init => Placed
  BY InitType DEF Init, OnlySentHold, ReleasersHold
<1>2. Placed /\ [Next]_vars => Placed'
  BY StepType, StepPlaces
<1>3. Placed /\ Placed' /\ [Next]_vars =>
        [Lost' > Lost => \E r \in Requests : Loses(r)]_vars
  <2> SUFFICES ASSUME Placed, Placed', Next, ~ \E r \in Requests : Loses(r)
               PROVE  NoLoss
    <3>1. (TypeOK => Lost \in Nat)'
      BY LostType, PTL
    <3> QED BY <3>1, LostType DEF NoLoss
  <2>1. CASE \E r \in Requests : Proceed(r)
    BY <2>1, ProceedAccounts
  <2>2. CASE \E r \in Requests : IsAvailable(r) \/ Bypass(r)
    <3> PICK r \in Requests : IsAvailable(r) \/ Bypass(r)
      BY <2>2
    <3>1. Refusing' = Refusing
      BY SameRefusing DEF IsAvailable, Bypass
    <3> QED BY <3>1, UntouchedAccount DEF IsAvailable, Bypass, circuit
  <2>3. CASE Reset \/ ResetCounters \/ UpdateConfig \/ Elapse
    <3>1. UNCHANGED <<pc, permit, half_open_requests>>
      BY <2>3 DEF Reset, ResetCounters, UpdateConfig, Elapse, circuit, requests
    <3>2. Refusing' = Refusing
      BY <3>1 DEF Refusing
    <3> QED BY <3>1, <3>2, UntouchedAccount
  <2> QED BY <2>1, <2>2, <2>3 DEF Next, Loses
<1> QED BY <1>1, <1>2, <1>3, PTL DEF Spec, LeakOnlyByLoss

\* A breaker becomes half-open only out of the open state, in every behaviour.
THEOREM TrialsStartOpen == Spec => TrialOnlyFromOpen
<1>1. [Next]_vars => [state # "halfOpen" /\ state' = "halfOpen" => state = "open"]_vars
  <2> SUFFICES ASSUME Next, state # "halfOpen", state' = "halfOpen" PROVE state = "open"
    OBVIOUS
  <2>1. CASE \E r \in Requests : TransitionToHalfOpen(r)
    BY <2>1 DEF TransitionToHalfOpen, BecomesHalfOpen
  <2>2. CASE ~ \E r \in Requests : TransitionToHalfOpen(r)
    BY <2>2 DEF Next, IsAvailable, Bypass, Abandon, Reset, ResetCounters, UpdateConfig, Elapse,
         Proceed, CheckTimeout, AllowRequest, AllowHalfOpenProbe, RollBackProbe, RecordSuccess,
         RecordFailure, Report, ReleaseNeutral, ReleasePermit, CountSuccess, CountFailure,
         TransitionToClosed, ClearCounters, TransitionToOpen, StampOpening, circuit
  <2> QED BY <2>1, <2>2
<1> QED BY <1>1, PTL DEF Spec, TrialOnlyFromOpen
=============================================================================
