---------------------------- MODULE CircuitBreaker ----------------------------
(***************************************************************************)
(* The circuit breaker of one provider (proxy/circuit_breaker.rs) under    *)
(* concurrent proxy requests.  The state, the time of the last opening and *)
(* the counters are separate locks and atomics, and the runtime has many   *)
(* threads: every lock acquisition and every atomic operation that another *)
(* request can observe is a step of its own.  A request asks is_available  *)
(* while the candidates are listed, allow_request before it is sent, and   *)
(* reports its outcome with the permit it was given.                       *)
(***************************************************************************)
EXTENDS Naturals, FiniteSets

CONSTANTS
    Requests,      \* the request tasks of the proxy
    Configs,       \* the configurations the user can set
    CountCap,      \* counters stop here: every threshold is at most this
    CounterMod,    \* the width of the permit counter (2^32 in the code)
    MayAbandon,    \* whether a client may go away while its request is sent
    SplitRefusal   \* whether others may run inside the refusal of a probe

ASSUME RequestsAssumption == IsFiniteSet(Requests)
ASSUME CountAssumption == /\ CountCap \in Nat
                          /\ CounterMod \in Nat /\ CounterMod > 1
ASSUME ConfigAssumption ==
    Configs \subseteq [failure_threshold : 1..CountCap, success_threshold : 1..CountCap]
ASSUME BooleanAssumption == MayAbandon \in BOOLEAN /\ SplitRefusal \in BOOLEAN

CircuitState == {"closed", "open", "halfOpen"}

\* The control points of a request, named after what it does next.
Listing == {"available", "availableTurn"}
Asking == {"listed", "allow", "allowTurn", "reread", "probe", "rollback"}
Reporting == {"okRelease", "okCount", "okClose", "okClear",
              "failRelease", "failCount", "failOpen", "failStamp"}
Point == {"idle", "sent"} \cup Listing \cup Asking \cup Reporting

VARIABLES
    state,             \* CircuitBreaker.state
    last_opened_at,    \* never, or whether the recovery wait from it is over
    failures,          \* consecutive_failures
    successes,         \* consecutive_successes
    half_open_requests,\* the probes the half-open breaker has let through
    config,            \* CircuitBreaker.config
    pc,                \* where every request is
    seen,              \* the state a reporting request read when it began
    permit,            \* used_half_open_permit of every request that was sent,
                       \* and whether the breaker went half-open again since
    resetting          \* a manual reset has closed the state, not the counters

counters == <<failures, successes>>
circuit == <<state, last_opened_at, failures, successes, half_open_requests>>
requests == <<pc, seen, permit>>
vars == <<circuit, config, requests, resetting>>

\* Types; the permit counter never leaves its width.
TypeOK ==
    /\ state \in CircuitState
    /\ last_opened_at \in {"never", "fresh", "elapsed"}
    /\ failures \in 0..CountCap /\ successes \in 0..CountCap
    /\ half_open_requests \in 0..(CounterMod - 1)
    /\ config \in Configs
    /\ pc \in [Requests -> Point]
    /\ seen \in [Requests -> CircuitState]
    /\ permit \in [Requests -> {"none", "current", "stale"}]
    /\ resetting \in BOOLEAN

Init ==
    /\ state = "closed" /\ last_opened_at = "never"
    /\ failures = 0 /\ successes = 0 /\ half_open_requests = 0
    /\ config \in Configs
    /\ pc = [r \in Requests |-> "idle"]
    /\ seen = [r \in Requests |-> "closed"]
    /\ permit = [r \in Requests |-> "none"]
    /\ resetting = FALSE

Goto(r, point) == pc' = [pc EXCEPT ![r] = point]

\* fetch_add on a counter that is only ever compared with a threshold.
Increment(n) == IF n < CountCap THEN n + 1 ELSE n

max_half_open_requests == 1
-----------------------------------------------------------------------------
(* is_available, and a request that does not ask the breaker.              *)

\* Failover lists the candidates: a closed or half-open provider is one.
IsAvailable(r) ==
    /\ pc[r] = "idle"
    /\ Goto(r, IF state = "open" THEN "available" ELSE "listed")
    /\ UNCHANGED <<circuit, config, seen, permit, resetting>>

\* The only provider of a request is used whatever its breaker says.
Bypass(r) ==
    /\ pc[r] = "idle"
    /\ Goto(r, "sent")
    /\ UNCHANGED <<circuit, config, seen, permit, resetting>>

\* The breaker was open: has the recovery wait passed?
CheckTimeout(r, point, turn) ==
    /\ pc[r] = point
    /\ Goto(r, IF last_opened_at = "elapsed" THEN turn ELSE "idle")
    /\ UNCHANGED <<circuit, config, seen, permit, resetting>>

\* Mutant of BecomesHalfOpen: the state is not looked at again.
BecomesHalfOpenAlways == TRUE

\* Under the write lock, only an open breaker becomes half-open.
BecomesHalfOpen == state = "open"

\* transition_to_half_open; permits given earlier belong to an earlier trial.
TransitionToHalfOpen(r) ==
    /\ pc[r] \in {"availableTurn", "allowTurn"}
    /\ IF BecomesHalfOpen
       THEN /\ state' = "halfOpen"
            /\ successes' = 0
            /\ half_open_requests' = 0
            /\ permit' = [q \in Requests |-> IF permit[q] = "none" THEN "none" ELSE "stale"]
       ELSE UNCHANGED <<state, successes, half_open_requests, permit>>
    /\ Goto(r, IF pc[r] = "availableTurn" THEN "listed" ELSE "reread")
    /\ UNCHANGED <<last_opened_at, failures, config, seen, resetting>>
-----------------------------------------------------------------------------
(* allow_request.                                                          *)

\* Read the state, at first and again after the turn to half-open.
AllowRequest(r) ==
    /\ pc[r] \in {"listed", "reread"}
    /\ Goto(r, CASE state = "closed" -> "sent"
                 [] state = "halfOpen" -> "probe"
                 [] OTHER -> IF pc[r] = "listed" THEN "allow" ELSE "idle")
    /\ UNCHANGED <<circuit, config, seen, permit, resetting>>

\* allow_half_open_probe: add first; over the limit, take the addition back.
AllowHalfOpenProbe(r) ==
    /\ pc[r] = "probe"
    /\ \/ /\ half_open_requests < max_half_open_requests
          /\ half_open_requests' = half_open_requests + 1
          /\ permit' = [permit EXCEPT ![r] = "current"]
          /\ Goto(r, "sent")
       \/ /\ half_open_requests >= max_half_open_requests
          /\ IF SplitRefusal
             THEN /\ half_open_requests' = (half_open_requests + 1) % CounterMod
                  /\ Goto(r, "rollback")
             ELSE /\ Goto(r, "idle")
                  /\ UNCHANGED half_open_requests
          /\ UNCHANGED permit
    /\ UNCHANGED <<state, last_opened_at, counters, config, seen, resetting>>

\* The fetch_sub of a refused probe: it wraps around at zero.
RollBackProbe(r) ==
    /\ pc[r] = "rollback"
    /\ half_open_requests' = (half_open_requests + CounterMod - 1) % CounterMod
    /\ Goto(r, "idle")
    /\ UNCHANGED <<state, last_opened_at, counters, config, seen, permit, resetting>>
-----------------------------------------------------------------------------
(* The outcome of a request that was sent.                                 *)

\* Mutant of Report: the permit is only given back by a report that sees the trial.
ReportInTrial(r, release, count) ==
    /\ pc[r] = "sent"
    /\ seen' = [seen EXCEPT ![r] = state]
    /\ Goto(r, IF permit[r] # "none" /\ state = "halfOpen" THEN release ELSE count)
    /\ UNCHANGED <<circuit, config, permit, resetting>>

\* record_success and record_failure read the state before anything else.
Report(r, release, count) ==
    /\ pc[r] = "sent"
    /\ seen' = [seen EXCEPT ![r] = state]
    /\ Goto(r, IF permit[r] # "none" THEN release ELSE count)
    /\ UNCHANGED <<circuit, config, permit, resetting>>

RecordSuccess(r) == Report(r, "okRelease", "okCount")
RecordFailure(r) == Report(r, "failRelease", "failCount")

\* Mutant of Release: a breaker that is no longer half-open keeps its count.
ReleaseWhileHalfOpen(r) ==
    /\ half_open_requests' = IF state = "halfOpen" /\ half_open_requests > 0
                             THEN half_open_requests - 1 ELSE half_open_requests
    /\ permit' = [permit EXCEPT ![r] = "none"]

\* Mutant of Release: the counter is decremented without a look at it.
ReleaseUnchecked(r) ==
    /\ half_open_requests' = half_open_requests - 1
    /\ permit' = [permit EXCEPT ![r] = "none"]

\* release_half_open_permit: a compare-and-swap that stops at zero.
Release(r) ==
    /\ half_open_requests' = IF half_open_requests = 0 THEN 0 ELSE half_open_requests - 1
    /\ permit' = [permit EXCEPT ![r] = "none"]

\* finish_neutral_failure: the client's error, not the provider's.
ReleaseNeutral(r) ==
    /\ pc[r] = "sent"
    /\ IF permit[r] # "none" THEN Release(r) ELSE UNCHANGED <<half_open_requests, permit>>
    /\ Goto(r, "idle")
    /\ UNCHANGED <<state, last_opened_at, counters, config, seen, resetting>>

ReleasePermit(r) ==
    /\ pc[r] \in {"okRelease", "failRelease"}
    /\ Release(r)
    /\ Goto(r, IF pc[r] = "okRelease" THEN "okCount" ELSE "failCount")
    /\ UNCHANGED <<state, last_opened_at, counters, config, seen, resetting>>

\* A success counts towards closing if the breaker was half-open when read.
CountSuccess(r) ==
    LET probes == IF seen[r] = "halfOpen" THEN Increment(successes) ELSE successes IN
    /\ pc[r] = "okCount"
    /\ failures' = 0
    /\ successes' = probes
    /\ Goto(r, IF seen[r] = "halfOpen" /\ probes >= config.success_threshold
               THEN "okClose" ELSE "idle")
    /\ UNCHANGED <<state, last_opened_at, half_open_requests, config, seen,
                   permit, resetting>>

\* A failure opens a breaker that was half-open when read, or closed with too
\* many failures in a row; the error rate is left open: it may trip as well.
CountFailure(r) ==
    /\ pc[r] = "failCount"
    /\ failures' = Increment(failures)
    /\ successes' = 0
    /\ \/ /\ \/ seen[r] = "halfOpen"
             \/ seen[r] = "closed"
          /\ Goto(r, "failOpen")
       \/ /\ \/ seen[r] = "open"
             \/ seen[r] = "closed" /\ Increment(failures) < config.failure_threshold
          /\ Goto(r, "idle")
    /\ UNCHANGED <<state, last_opened_at, half_open_requests, config, seen,
                   permit, resetting>>

\* transition_to_closed, first the state and then the counters.
TransitionToClosed(r) ==
    /\ pc[r] = "okClose"
    /\ state' = "closed"
    /\ Goto(r, "okClear")
    /\ UNCHANGED <<last_opened_at, counters, half_open_requests, config, seen,
                   permit, resetting>>

ClearCounters(r) ==
    /\ pc[r] = "okClear"
    /\ failures' = 0 /\ successes' = 0
    /\ Goto(r, "idle")
    /\ UNCHANGED <<state, last_opened_at, half_open_requests, config, seen,
                   permit, resetting>>

\* transition_to_open, first the state and then the time.
TransitionToOpen(r) ==
    /\ pc[r] = "failOpen"
    /\ state' = "open"
    /\ Goto(r, "failStamp")
    /\ UNCHANGED <<last_opened_at, counters, half_open_requests, config, seen,
                   permit, resetting>>

\* Mutant of Stamp: the time of the opening is not kept.
StampNever == "never"

\* The time a breaker that has just opened gets.
Stamp == "fresh"

StampOpening(r) ==
    /\ pc[r] = "failStamp"
    /\ last_opened_at' = Stamp
    /\ failures' = 0 /\ successes' = 0
    /\ Goto(r, "idle")
    /\ UNCHANGED <<state, half_open_requests, config, seen, permit, resetting>>

\* The client goes away while its request is sent: the handler's future is
\* dropped, and nothing is reported.
Abandon(r) ==
    /\ MayAbandon
    /\ pc[r] = "sent"
    /\ permit' = [permit EXCEPT ![r] = "none"]
    /\ Goto(r, "idle")
    /\ UNCHANGED <<circuit, config, seen, resetting>>
-----------------------------------------------------------------------------
(* The user, and the clock.                                                *)

\* reset, as slow as any other writer of the state.
Reset ==
    /\ ~ resetting
    /\ state' = "closed"
    /\ resetting' = TRUE
    /\ UNCHANGED <<last_opened_at, counters, half_open_requests, config, requests>>

ResetCounters ==
    /\ resetting
    /\ failures' = 0 /\ successes' = 0
    /\ resetting' = FALSE
    /\ UNCHANGED <<state, last_opened_at, half_open_requests, config, requests>>

\* update_config waits for the requests that read the configuration.
UpdateConfig ==
    /\ \A r \in Requests : pc[r] \notin {"okRelease", "okCount", "failRelease", "failCount"}
    /\ config' \in Configs \ {config}
    /\ UNCHANGED <<circuit, requests, resetting>>

\* timeout_seconds pass.
Elapse ==
    /\ last_opened_at = "fresh"
    /\ last_opened_at' = "elapsed"
    /\ UNCHANGED <<state, counters, half_open_requests, config, requests, resetting>>

\* What a request does once it has been made.
Proceed(r) ==
    \/ CheckTimeout(r, "available", "availableTurn")
    \/ CheckTimeout(r, "allow", "allowTurn")
    \/ TransitionToHalfOpen(r) \/ AllowRequest(r)
    \/ AllowHalfOpenProbe(r) \/ RollBackProbe(r)
    \/ RecordSuccess(r) \/ RecordFailure(r) \/ ReleaseNeutral(r)
    \/ ReleasePermit(r) \/ CountSuccess(r) \/ CountFailure(r)
    \/ TransitionToClosed(r) \/ ClearCounters(r)
    \/ TransitionToOpen(r) \/ StampOpening(r)

Next ==
    \/ \E r \in Requests : IsAvailable(r) \/ Bypass(r) \/ Proceed(r) \/ Abandon(r)
    \/ Reset \/ ResetCounters \/ UpdateConfig \/ Elapse

\* Every request ends (its timeouts see to that), time passes, and requests keep
\* coming through the failover list, not only past it: SF, for a task that is
\* idle may always be used for a request that bypasses the breaker.
Fairness ==
    /\ \A r \in Requests : WF_vars(Proceed(r)) /\ SF_vars(IsAvailable(r))
    /\ WF_vars(Elapse) /\ WF_vars(ResetCounters)

Spec == Init /\ [][Next]_vars
FairSpec == Spec /\ Fairness
-----------------------------------------------------------------------------
(* Properties.                                                             *)

Holders == {r \in Requests : permit[r] # "none"}

\* Every probe the breaker counts is held by a request that will still release
\* it: otherwise a half-open provider refuses its probes for good
\* (provider_router.rs, allow_provider_request).
PermitsCovered == half_open_requests <= Cardinality(Holders)

\* What the breaker counts is held, or about to be taken back by a refusal; the
\* rest is lost, and a half-open breaker refuses its probes until a reset.
Refusing == {r \in Requests : pc[r] = "rollback"}
Accounted == Cardinality(Holders) + Cardinality(Refusing)
Lost == IF half_open_requests > Accounted THEN half_open_requests - Accounted ELSE 0

\* The holder of a permit is dropped with it, or a refusal subtracts from a
\* counter that was set to zero since it added.
Loses(r) == Abandon(r) \/ (half_open_requests = 0 /\ RollBackProbe(r))

\* With clients that go away and refusals that others run inside of, these are
\* the only two ways to lose a slot (allow_half_open_probe,
\* transition_to_half_open, release_half_open_permit): no report, reset,
\* reopening or late end of an earlier trial's probe makes the loss grow.
LeakOnlyByLoss ==
    [][Lost' > Lost => \E r \in Requests : Loses(r)]_vars

\* A breaker becomes half-open only out of the open state: a late turn never
\* takes a provider that recovered, or was reset, back to a trial.
TrialOnlyFromOpen ==
    [][state # "halfOpen" /\ state' = "halfOpen" => state = "open"]_vars

\* The probe slots are always handed back, whatever the outcomes and however the
\* state changes in the meantime, unless one is lost: what is counted comes down to
\* the refusals that are about to take their addition back.
SlotFreed ==
    half_open_requests > Cardinality(Refusing)
        ~> half_open_requests <= Cardinality(Refusing) \/ Lost > 0

\* A provider whose breaker opened is tried again, if requests keep coming.
OpenRecovers == state = "open" ~> state # "open"
=============================================================================
