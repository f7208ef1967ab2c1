------------------------------ MODULE Policies -------------------------------
(***************************************************************************)
(* What a policy promises over time.  A user asks for bytes; a request     *)
(* that passes is reserved, and released when its upload or download has   *)
(* failed or completed, in which case usage is recorded at that hour, of   *)
(* as many bytes as the event says.  Other events record usage that nobody *)
(* has checked.  Meanwhile the clock moves on and with it the window of    *)
(* the user's limit.  (Requests that are checked at the same time are      *)
(* QuotaFlow's subject: here a check and its reservation are one step.)    *)
(***************************************************************************)
EXTENDS Limits, FiniteSets, FiniteSetsExt

CONSTANTS
    Rows,        \* configurations a user may have, see below
    Amounts,     \* byte counts of requests and events
    Hours,       \* the hours modelled, 0 to a bound on time
    MaxRequests  \* bound on the number of requests that pass

\* A row has a policy, terms of the user's own, the terms of the plan that counts and
\* whether it is active, and the bytes granted to the user (for ALLOWANCE).
ASSUME PoliciesAssumption ==
    /\ \A row \in Rows :
          /\ DOMAIN row = {"policy", "own", "plan", "active", "granted"}
          /\ row.policy \in EnforcementPolicies /\ row.granted \in Nat
          /\ ValidOwn(row.own) /\ ValidTerms(row.plan)
          /\ \A terms \in {row.own, row.plan} :
                /\ terms.window.zone \in Int /\ terms.window.duration \in Nat
                /\ terms.bytes \in [Types -> Nat]
                /\ \A t \in Types : terms.threshold[t] \in Nat \cup {NoThreshold}
    /\ Amounts \subseteq Nat \ {0}
    /\ Hours \subseteq Nat /\ 0 \in Hours
    /\ MaxRequests \in Nat

\* An int64 is one of finitely many, and so are the hours of a bounded time.
ASSUME FiniteAssumption == IsFiniteSet(Amounts) /\ IsFiniteSet(Hours)

VARIABLES
    now,       \* the hour
    row,       \* the user's configuration
    recorded,  \* recorded[t][h]: bytes recorded at hour h
    pending,   \* pending[t][n]: reservations of n bytes
    granted,   \* bytes left in the user's grants
    passed,    \* number of requests that passed, and of recordings without one
    checked    \* history: checked[t][h]: the bytes recorded at h that a check let pass

vars == <<now, row, recorded, pending, granted, passed, checked>>

TypeOK ==
    /\ now \in Hours
    /\ row \in Rows
    /\ recorded \in [Types -> [Hours -> Nat]]
    /\ pending \in [Types -> [Amounts -> Nat]]
    /\ granted \in Nat
    /\ passed \in 0..MaxRequests
    /\ checked \in [Types -> [Hours -> Nat]]

Init ==
    /\ now = 0
    /\ row \in Rows
    /\ recorded = [t \in Types |-> [h \in Hours |-> 0]]
    /\ pending = [t \in Types |-> [n \in Amounts |-> 0]]
    /\ granted = row.granted
    /\ passed = 0
    /\ checked = recorded

-----------------------------------------------------------------------------
PolicyLimits == ResolveWithPlan(row.plan, row.active, row.own, row.policy)

\* SumPendingBytesForUser.
PendingBytes(t) == SumFunctionOnSet([n \in Amounts |-> n * pending[t][n]], Amounts)

\* GetUsageForWindow, of a valid window.
UsageForWindow(t, w) ==
    LET bounds == GetWindowBounds(w, now)
    IN  SumFunctionOnSet(recorded[t], {h \in Hours : bounds.start <= h /\ h < bounds.end})

\* What is looked up for the limit on t; nothing is when there is no such limit.
Used(limits, t) ==
    IF limits # Unresolved /\ limits[t].bytes > 0 /\ ValidWindow(limits[t].window)
    THEN UsageForWindow(t, limits[t].window)
    ELSE 0

\* The enforcer of the row's policy is asked.
Verdict(t, n) ==
    LET limits == PolicyLimits IN
    CASE row.policy = "HARD_LIMITS" -> CheckHardLimits(limits, t, Used(limits, t), PendingBytes(t), n)
      [] row.policy = "THRESHOLD" -> CheckThreshold(limits, t, Used(limits, t), n)
      [] row.policy = "ALLOWANCE" -> CheckAllowance(granted, n)
      [] row.policy = "UNLIMITED" -> CheckUnlimited(n)

Request(t, n) ==
    /\ passed < MaxRequests
    /\ Passes(Verdict(t, n))
    /\ pending' = [pending EXCEPT ![t][n] = @ + 1]
    /\ passed' = passed + 1
    /\ UNCHANGED <<now, row, recorded, granted, checked>>

\* n bytes are recorded now, of which a check has let pass c.
Recorded(t, n, c) ==
    /\ recorded' = [recorded EXCEPT ![t][now] = @ + n]
    /\ checked' = [checked EXCEPT ![t][now] = @ + c]

Lesser(m, n) == IF m < n THEN m ELSE n

\* Mutant: whether there still is a reservation is not looked at.
CompleteBlindly(t, n, m) ==
    /\ pending' = [pending EXCEPT ![t][n] = @ - 1]
    /\ Recorded(t, m, Lesser(m, n))
    /\ UNCHANGED <<now, row, granted, passed>>

\* A successful operation: the reservation of n bytes is released, and the m bytes of
\* the event are recorded now, whenever they were reserved.
Complete(t, n, m) ==
    /\ pending[t][n] > 0
    /\ pending' = [pending EXCEPT ![t][n] = @ - 1]
    /\ Recorded(t, m, Lesser(m, n))
    /\ UNCHANGED <<now, row, granted, passed>>

\* The operation or its recording has failed, or the caller gives up.
Release(t, n) ==
    /\ pending[t][n] > 0
    /\ pending' = [pending EXCEPT ![t][n] = @ - 1]
    /\ UNCHANGED <<now, row, recorded, granted, passed, checked>>

\* Usage is recorded without a reservation.
Record(t, n, c) ==
    /\ passed < MaxRequests
    /\ passed' = passed + 1
    /\ Recorded(t, n, c)
    /\ UNCHANGED <<now, row, pending>>

\* Events without a reservation, and the shares of anonymous downloads: no policy is asked.
RecordEvent(t, n) == Record(t, n, 0) /\ UNCHANGED granted

\* The enforcers' own Record methods.  Hard limits are checked once more.
RecordHardLimits(t, n) ==
    /\ row.policy = "HARD_LIMITS"
    /\ Passes(Verdict(t, n))
    /\ Record(t, n, n)
    /\ UNCHANGED granted

RecordThreshold(t, n) == row.policy = "THRESHOLD" /\ Record(t, n, 0) /\ UNCHANGED granted

RecordUnlimited(t, n) == row.policy = "UNLIMITED" /\ Record(t, n, 0) /\ UNCHANGED granted

\* The detail written with the consumption is followed by a second one.
RecordAllowance(t, n) ==
    /\ row.policy = "ALLOWANCE"
    /\ n <= granted
    /\ granted' = granted - n
    /\ Record(t, 2 * n, 0)

Tick ==
    /\ now + 1 \in Hours
    /\ now' = now + 1
    /\ UNCHANGED <<row, recorded, pending, granted, passed, checked>>

\* The bounds are reached and nothing is under way.
Stop ==
    /\ now + 1 \notin Hours
    /\ UNCHANGED vars

Next ==
    \/ \E t \in Types, n \in Amounts : Request(t, n) \/ Release(t, n) \/ RecordEvent(t, n)
    \/ \E t \in Types, n, m \in Amounts : Complete(t, n, m)
    \/ \E t \in Types, n \in Amounts :
          \/ RecordHardLimits(t, n)
          \/ RecordThreshold(t, n)
          \/ RecordUnlimited(t, n)
          \/ RecordAllowance(t, n)
    \/ Tick
    \/ Stop

Spec == Init /\ [][Next]_vars

-----------------------------------------------------------------------------
(* Properties.                                                             *)

\* The day, week, month or year that an hour belongs to, counted without bounds.
Period(w, h) ==
    LET local == h + w.zone
    IN  CASE w.type = "DAY" -> (local - w.startHour) \div DayHours
          [] w.type = "WEEK" -> (local \div DayHours - w.startDay) \div WeekDays
          [] w.type = "MONTH" -> local \div (DayHours * MonthDays)
          [] w.type = "YEAR" -> local \div (DayHours * MonthDays * YearMonths)

\* Weeks, months and years that start at an hour begin in the future until that hour,
\* and weeks in another time zone may begin a day early.
Regular(w) ==
    /\ ValidWindow(w)
    /\ w.type \in CalendarTypes => w.type = "DAY" \/ w.startHour = 0
    /\ w.type = "WEEK" => w.zone = 0

RowWindows == {row.own.window, row.plan.window}

(***************************************************************************)
(* The usage that counts is that of the period under way: a calendar       *)
(* window holds an hour exactly if the hour is in the same period as now,  *)
(* so that windows taken at two moments neither overlap nor leave a gap.   *)
(***************************************************************************)
WindowIsPeriod ==
    \A w \in {v \in RowWindows : v.type \in CalendarTypes /\ Regular(v)}, h \in Hours :
        LET bounds == GetWindowBounds(w, now)
        IN  (bounds.start <= h /\ h < bounds.end) <=> Period(w, h) = Period(w, now)

\* Hours that one and the same limit is about.
Together(w, g, h) ==
    CASE w.type = "ROLLING" -> g <= h /\ h <= g + w.duration
      [] w.type = "LIFETIME" -> TRUE
      [] OTHER -> Period(w, g) = Period(w, h)

\* The bytes of f in hours that one limit is about.
SumTogether(f, w, g) == SumFunctionOnSet(f, {h \in Hours : Together(w, g, h)})

\* A hard limit on t counts, and its window is regular.
UnderLimit(t) ==
    /\ row.policy = "HARD_LIMITS" /\ PolicyLimits # Unresolved
    /\ PolicyLimits[t].bytes > 0 /\ Regular(PolicyLimits[t].window)

(***************************************************************************)
(* Under hard limits the checks let no more than the limit into any one    *)
(* period, in whichever period a request was checked and whenever its      *)
(* usage was recorded, and however much was recorded besides.              *)
(***************************************************************************)
NoPeriodOverLimit ==
    \A t \in Types, g \in Hours :
        UnderLimit(t) =>
            SumTogether(checked[t], PolicyLimits[t].window, g) <= PolicyLimits[t].bytes

\* GetUsageForWindow over the lifetime window, for a limit without a window.
Ever(t) == SumFunction(recorded[t])

\* GetCurrentUsage: of the day, in UTC.
CurrentUsage(t) ==
    SumFunctionOnSet(recorded[t], {h \in Hours : Midnight(h) = Midnight(now)})

Figures(t) ==
    [used |-> Used(PolicyLimits, t), ever |-> Ever(t), today |-> CurrentUsage(t),
     spent |-> row.granted - granted, left |-> granted]

\* Neither policy looks at the limits.
LimitOf(t) ==
    IF row.policy \in {"ALLOWANCE", "UNLIMITED"} THEN NoLimits[t] ELSE PolicyLimits[t]

(***************************************************************************)
(* What a user is shown is what the check goes by: with nothing reserved   *)
(* that would count, a request passes if and only if it fits in the bytes  *)
(* shown to remain; and the threshold policy warns about it if and only if *)
(* it brings the usage shown to the threshold or beyond.                   *)
(***************************************************************************)
StatusAgreesWithCheck ==
    row.policy \in {"ALLOWANCE", "UNLIMITED"} \/ PolicyLimits # Unresolved =>
        \A t \in Types, n \in Amounts :
            LET limit == LimitOf(t)
                status == Status(row.policy, limit, Figures(t))
                fits == status.remaining = NoBound \/ n <= status.remaining
            IN  /\ limit.bytes > 0 => ValidWindow(limit.window)
                /\ row.policy = "HARD_LIMITS" => PendingBytes(t) = 0
                => /\ Passes(Verdict(t, n)) <=> fits
                   /\ Verdict(t, n) = "warned" <=>
                        /\ row.policy = "THRESHOLD"
                        /\ limit.bytes > 0 /\ limit.threshold # NoThreshold
                        /\ fits
                        /\ status.used + n >= limit.threshold

-----------------------------------------------------------------------------
(* What the repository says of limits, and the code does not do: TLC       *)
(* refutes each of these; no run checks them.                              *)

(***************************************************************************)
(* What README.md:8 says of hard limits, "Strict limits blocking           *)
(* operations when exceeded": no period sees more than the limit.  The     *)
(* events that record usage ask no policy (event_listeners.go:71, 213).    *)
(***************************************************************************)
LimitsAreStrict ==
    \A t \in Types, g \in Hours :
        UnderLimit(t) =>
            SumTogether(recorded[t], PolicyLimits[t].window, g) <= PolicyLimits[t].bytes

(***************************************************************************)
(* "Number of bytes allowed in this window" (core/types.go:371): the       *)
(* checks let no more than that into any window a limit ever has, be it    *)
(* regular or not (GetWindowBounds).                                       *)
(***************************************************************************)
AllowedInWindow ==
    \A t \in Types, g \in Hours :
        LET limit == PolicyLimits[t]
            bounds == GetWindowBounds(limit.window, g)
        IN  /\ row.policy = "HARD_LIMITS" /\ PolicyLimits # Unresolved
            /\ limit.bytes > 0 /\ ValidWindow(limit.window)
            => SumFunctionOnSet(checked[t], {h \in Hours : bounds.start <= h /\ h < bounds.end})
                   <= limit.bytes

(***************************************************************************)
(* Pending bytes are "used during quota checks to prevent over-allocation" *)
(* (core/reservation.go:38): no more is let pass and held than was         *)
(* granted to a user under the allowance policy (AllowancePolicyEnforcer). *)
(***************************************************************************)
NotOverAllocated ==
    row.policy = "ALLOWANCE" =>
        \A t \in Types : SumFunction(checked[t]) + PendingBytes(t) <= row.granted
==============================================================================
