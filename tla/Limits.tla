------------------------------- MODULE Limits --------------------------------
(***************************************************************************)
(* What a user's configuration row and plan amount to (the limit           *)
(* resolver), and what each policy makes of it: the verdict on a request,  *)
(* and the status shown to the user.  Nothing here keeps any state.        *)
(*                                                                         *)
(* The terms of a plan, and a user's own terms, are a record of            *)
(*    bytes[t]      the limit for usage of type t, 0 for none              *)
(*    threshold[t]  the byte count to warn from, or NoThreshold            *)
(*    window        the window of all its limits                           *)
(***************************************************************************)
EXTENDS Naturals, Windows

CONSTANTS
    Types,        \* UPLOAD, DOWNLOAD, STORAGE_ADD
    NoThreshold,  \* no threshold is configured
    Unresolved,   \* ResolveEffectiveLimits returns an error
    NoBound       \* nothing limits what may still be used

ASSUME NoBoundAssumption == NoBound \notin Nat

EnforcementPolicies == {"HARD_LIMITS", "THRESHOLD", "ALLOWANCE", "UNLIMITED"}

\* UserQuotaConfig.validate.  (A rolling window without a duration passes here, and
\* thresholds are not compared with limits.)
ValidOwn(terms) ==
    /\ \/ terms.window.type \in CalendarTypes \cup {"", "LIFETIME"}
       \/ terms.window.type = "ROLLING" /\ terms.window.duration >= 0
    /\ terms.window.startHour \in 0..(DayHours - 1)

\* QuotaPlan.BeforeSave.
ValidTerms(terms) ==
    /\ ValidOwn(terms)
    /\ \A t \in Types :
          terms.bytes[t] > 0 /\ terms.threshold[t] # NoThreshold =>
              terms.threshold[t] <= terms.bytes[t]

-----------------------------------------------------------------------------
(* ResolveEffectiveLimits.                                                 *)

Limit(bytes, window, threshold) ==
    [bytes |-> bytes, window |-> window, threshold |-> threshold]

NoLimits == [t \in Types |-> Limit(0, NoWindow, NoThreshold)]

\* A plan's thresholds count for the threshold policy only.
ApplyPlanLimits(terms, policy) ==
    [t \in Types |->
        Limit(terms.bytes[t],
              IF terms.bytes[t] > 0 THEN terms.window ELSE NoWindow,
              IF policy = "THRESHOLD" THEN terms.threshold[t] ELSE NoThreshold)]

\* A limit of the user's own comes with the window of the user's own row.
ApplyUserLimits(limits, own) ==
    [t \in Types |->
        Limit(IF own.bytes[t] > 0 THEN own.bytes[t] ELSE limits[t].bytes,
              IF own.bytes[t] > 0 THEN own.window ELSE limits[t].window,
              IF own.threshold[t] # NoThreshold THEN own.threshold[t] ELSE limits[t].threshold)]

HasAnyLimits(limits) ==
    \E t \in Types : limits[t].bytes > 0 \/ limits[t].threshold # NoThreshold

\* The plan the row names, or else the default one, has been found.
ResolveWithPlan(terms, active, own, policy) ==
    LET limits == ApplyUserLimits(ApplyPlanLimits(terms, policy), own) IN
    IF ~active \/ (policy = "HARD_LIMITS" /\ ~HasAnyLimits(limits))
    THEN Unresolved
    ELSE limits

-----------------------------------------------------------------------------
(* The verdicts on a request for n bytes: "error", "denied", "allowed", or *)
(* "warned", which is allowed too.                                         *)

\* Mutant: what is reserved does not count.
CheckHardLimitsUnreserved(limits, t, used, pending, n) ==
    LET limit == limits[t].bytes IN
    IF n = 0 \/ limits = Unresolved THEN "error"
    ELSE IF limit = 0 THEN "allowed"
    ELSE IF ~ValidWindow(limits[t].window) THEN "error"
    ELSE IF limit < used \/ n > limit - used THEN "denied"
    ELSE "allowed"

\* HardLimitsPolicyEnforcer.
CheckHardLimits(limits, t, used, pending, n) ==
    LET current == used + pending
        limit == limits[t].bytes
    IN  IF n = 0 \/ limits = Unresolved THEN "error"
        ELSE IF limit = 0 THEN "allowed"
        ELSE IF ~ValidWindow(limits[t].window) THEN "error"
        ELSE IF limit < current \/ n > limit - current THEN "denied"
        ELSE "allowed"

\* Mutant: crossing the threshold exactly is not noticed.
EvaluateThresholdBeyond(current, n, threshold, limit) ==
    /\ current <= limit /\ n <= limit - current
    /\ threshold < current \/ n > threshold - current

\* EvaluateThreshold: whether to warn.
EvaluateThreshold(current, n, threshold, limit) ==
    LET withinLimit == current <= limit /\ n <= limit - current
        wouldExceed == threshold < current \/ n > threshold - current
        wouldCross == threshold > current /\ n >= threshold - current
    IN  threshold = 0 \/ ((wouldExceed \/ wouldCross) /\ withinLimit)

\* checkThresholdWithLimit.
CheckThresholdWithLimit(current, n, threshold, limit) ==
    IF current >= limit \/ n > limit - current THEN "denied"
    ELSE IF threshold # NoThreshold /\ EvaluateThreshold(current, n, threshold, limit) THEN "warned"
    ELSE "allowed"

\* ThresholdPolicyEnforcer.  Without a window nothing counts as used.
CheckThreshold(limits, t, used, n) ==
    LET limit == limits[t]
        current == IF IsNil(limit.window) THEN 0 ELSE used
    IN  IF n = 0 \/ limits = Unresolved THEN "error"
        ELSE IF limit.bytes = 0 THEN "allowed"
        ELSE IF ~IsNil(limit.window) /\ ~ValidWindow(limit.window) THEN "error"
        ELSE CheckThresholdWithLimit(current, n, limit.threshold, limit.bytes)

\* AllowancePolicyEnforcer, with what is left in the grants for t.
CheckAllowance(available, n) ==
    IF n = 0 THEN "error" ELSE IF n > available THEN "denied" ELSE "allowed"

\* UnlimitedPolicyEnforcer.
CheckUnlimited(n) == IF n = 0 THEN "error" ELSE "allowed"

Passes(verdict) == verdict \in {"allowed", "warned"}

-----------------------------------------------------------------------------
(* The status page, for one type of usage.  Figures is a record of bytes:  *)
(* used and ever, recorded in the window of the limit and since the        *)
(* beginning; today, recorded today; spent and left, of the grants.        *)

\* getUsageForLimit: without a window it shows all there ever was.
ShownUsage(limit, figures) ==
    IF limit.bytes = 0 \/ IsNil(limit.window) THEN figures.ever ELSE figures.used

\* buildLimitedStatusWithWindow.
Remaining(bytes, shown) ==
    IF bytes = 0 THEN NoBound ELSE IF shown < bytes THEN bytes - shown ELSE 0

\* handleQuotaStatus.
Status(policy, limit, figures) ==
    CASE policy = "ALLOWANCE" -> [used |-> figures.spent, remaining |-> figures.left]
      [] policy = "UNLIMITED" -> [used |-> figures.today, remaining |-> NoBound]
      [] OTHER -> LET shown == ShownUsage(limit, figures)
                  IN  [used |-> shown, remaining |-> Remaining(limit.bytes, shown)]
===============================================================================
