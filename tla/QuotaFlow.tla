------------------------------- MODULE QuotaFlow -------------------------------
(***************************************************************************)
(* A quota from check to charge: checkQuotaWithLock and the hard limits    *)
(* policy on one side, handleReservationWithUsage and the recording        *)
(* handlers on the other, with the configuration, the plan, the usage      *)
(* windows and restarts moving underneath.                                 *)
(*                                                                         *)
(* It is built on what the lock manager and the reservation manager        *)
(* promise (UserMutex, ReservationLedger).  Each read or write of shared   *)
(* state (database row, reservation map, lock) is a step of its own.       *)
(*                                                                         *)
(* A check:       idle -> config -> policy -> plan -> usage -> decide      *)
(*                     -> reserve -> unlock -> idle                        *)
(* A completion:  idle -> lookup -> release -> record -> unlock -> idle    *)
(***************************************************************************)
EXTENDS Integers, FiniteSets

CONSTANTS
    Procs,    \* goroutines of the service
    Users,    \* user IDs other than 0
    Types,    \* UPLOAD, DOWNLOAD, STORAGE_ADD
    Plans,    \* quota plans; one of them stands for "the default plan, if any"
    Ids,      \* reservation UUIDs
    Sizes,    \* byte counts of requests and events, uint64
    Limits,   \* values of a limit; 0 is no limit
    Policies, \* what the policy can be: TRUE is HARD_LIMITS
    Racy,     \* bound: the users whose lock may be lost
    MaxInt,   \* the largest int64
    NoRes,    \* no reservation was made under this UUID
    Nobody,   \* no user
    NoType,   \* no type of usage
    NoPlan,   \* no plan was read
    MaxUsage  \* bound: no direct recording beyond this many bytes

ASSUME FlowAssumption ==
    /\ Sizes \subseteq 0..(2 * MaxInt + 1)
    /\ Limits \subseteq Nat /\ 0 \in Limits
    /\ Policies \subseteq BOOLEAN
    /\ Racy \subseteq Users
    /\ MaxInt \in Nat
    /\ MaxUsage \in Nat
    /\ Nobody \notin Users
    /\ NoRes \notin Ids \cup [user : Users, type : Types, bytes : Nat]

VARIABLES
    holders, raced,         \* the user locks (UserMutex)
    issued, open, pending,  \* the reservations (ReservationLedger)
    policy,     \* user_quota_configs.enforcement_policy is HARD_LIMITS
    own,        \* own[u][t]: limit in the user's configuration row
    plan,       \* plan[u]: the plan the row names
    planLimit,  \* planLimit[l][t]: limit in a plan
    usage,      \* usage[u][t]: bytes of usage details inside the limit's window
    pc, user, type, size,   \* a goroutine's call and its arguments
    row,        \* row[p]: own limits as the check read them ...
    rowPlan,    \* ... and the plan
    limit,      \* limit[p]: the limit the check resolved, 0 for none
    seen,       \* seen[p]: usage as the check read it
    rsv         \* rsv[p]: UUID of the completion event

VARIABLES               \* history
    covered,    \* the part of usage that was reserved before it was recorded
    charged,    \* charged[r]: how often usage was recorded for r
    claimed,    \* reservations released by the event of a successful operation
    soft,       \* the users whose policy has at some time not been HARD_LIMITS
    ownSeen,    \* ownSeen[u][t]: values own[u][t] has had
    onPlans,    \* onPlans[u]: the plans u has been on
    planSeen    \* planSeen[l][t]: values planLimit[l][t] has had

lockVars == <<holders, raced>>
ledgerVars == <<issued, open, pending>>
configVars == <<policy, own, plan, planLimit, soft, ownSeen, onPlans, planSeen>>
usageVars == <<usage, covered, charged, claimed>>
callVars == <<pc, user, type, size, row, rowPlan, limit, seen, rsv>>
vars == <<lockVars, ledgerVars, configVars, usageVars, callVars>>

Mutex == INSTANCE UserMutex
\* Reserve refuses what int64(bytes) makes zero or negative.
Ledger == INSTANCE ReservationLedger WITH Sizes <- {n \in Sizes : 0 < n /\ n <= MaxInt}

CheckSteps == {"config", "policy", "plan", "usage", "decide", "reserve"}
CompletionSteps == {"lookup", "release", "record"}
LockedSteps == CheckSteps \cup CompletionSteps \cup {"unlock"}

TypeOK ==
    /\ Mutex!MutexTypeOK
    /\ Ledger!LedgerTypeOK
    /\ policy \in [Users -> BOOLEAN]
    /\ own \in [Users -> [Types -> Limits]]
    /\ plan \in [Users -> Plans]
    /\ planLimit \in [Plans -> [Types -> Limits]]
    /\ usage \in [Users -> [Types -> Nat]]
    /\ pc \in [Procs -> LockedSteps \cup {"idle"}]
    /\ user \in [Procs -> Users \cup {Nobody}]
    /\ type \in [Procs -> Types \cup {NoType}]
    /\ size \in [Procs -> Sizes \cup {0}]
    /\ row \in [Procs -> [Types -> Limits]]
    /\ rowPlan \in [Procs -> Plans \cup {NoPlan}]
    /\ limit \in [Procs -> Nat]
    /\ seen \in [Procs -> Nat]
    /\ rsv \in [Procs -> Ids \cup {NoRes}]
    /\ covered \in [Users -> [Types -> Nat]]
    /\ charged \in [Ids -> Nat]
    /\ claimed \subseteq Ids
    /\ soft \subseteq Users
    /\ ownSeen \in [Users -> [Types -> SUBSET Limits]]
    /\ onPlans \in [Users -> SUBSET Plans]
    /\ planSeen \in [Plans -> [Types -> SUBSET Limits]]

\* A configuration row or a plan without limits.
NoLimits == [t \in Types |-> 0]

Init ==
    /\ Mutex!MutexInit
    /\ Ledger!LedgerInit
    /\ policy \in [Users -> Policies]
    /\ own \in [Users -> [Types -> Limits]]
    /\ plan \in [Users -> Plans]
    /\ planLimit \in [Plans -> [Types -> Limits]]
    /\ usage = [u \in Users |-> [t \in Types |-> 0]]
    /\ pc = [p \in Procs |-> "idle"]
    /\ user = [p \in Procs |-> Nobody]
    /\ type = [p \in Procs |-> NoType]
    /\ size = [p \in Procs |-> 0]
    /\ row = [p \in Procs |-> NoLimits]
    /\ rowPlan = [p \in Procs |-> NoPlan]
    /\ limit = [p \in Procs |-> 0]
    /\ seen = [p \in Procs |-> 0]
    /\ rsv = [p \in Procs |-> NoRes]
    /\ covered = usage
    /\ charged = [r \in Ids |-> 0]
    /\ claimed = {}
    /\ soft = {u \in Users : ~policy[u]}
    /\ ownSeen = [u \in Users |-> [t \in Types |-> {own[u][t]}]]
    /\ onPlans = [u \in Users |-> {plan[u]}]
    /\ planSeen = [l \in Plans |-> [t \in Types |-> {planLimit[l][t]}]]

-----------------------------------------------------------------------------
(* Moving from step to step.                                               *)

Goto(p, step) == pc' = [pc EXCEPT ![p] = step]

\* defer lock.Release(): the call is over.
Unlock(p) ==
    /\ pc[p] = "unlock"
    /\ Mutex!Release(p, user[p])
    /\ Goto(p, "idle")
    /\ user' = [user EXCEPT ![p] = Nobody]
    /\ type' = [type EXCEPT ![p] = NoType]
    /\ size' = [size EXCEPT ![p] = 0]
    /\ row' = [row EXCEPT ![p] = NoLimits]
    /\ rowPlan' = [rowPlan EXCEPT ![p] = NoPlan]
    /\ limit' = [limit EXCEPT ![p] = 0]
    /\ seen' = [seen EXCEPT ![p] = 0]
    /\ rsv' = [rsv EXCEPT ![p] = NoRes]
    /\ UNCHANGED <<ledgerVars, configVars, usageVars>>

-----------------------------------------------------------------------------
(* Check{Upload,Download,Storage}Quota.                                    *)

\* The call gets the user's lock.  (While it waits it has no effect; if its
\* context ends first it returns an error and has had none.)
BeginCheck(p, u, t, n) ==
    /\ pc[p] = "idle"
    /\ Mutex!Acquire(p, u)
    /\ Goto(p, "config")
    /\ user' = [user EXCEPT ![p] = u]
    /\ type' = [type EXCEPT ![p] = t]
    /\ size' = [size EXCEPT ![p] = n]
    /\ UNCHANGED <<row, rowPlan, limit, seen, rsv, ledgerVars, configVars, usageVars>>

\* configManager.GetUserQuotaConfig: the row whose limits and plan the check
\* will use.
ReadConfig(p) ==
    /\ pc[p] = "config"
    /\ Goto(p, "policy")
    /\ row' = [row EXCEPT ![p] = own[user[p]]]
    /\ rowPlan' = [rowPlan EXCEPT ![p] = plan[user[p]]]
    /\ UNCHANGED <<user, type, size, limit, seen, rsv,
                   lockVars, ledgerVars, configVars, usageVars>>

\* configManager.GetPolicyEnforcer reads the row again, for its policy only.
\* The verdicts of the other policies are left open: allowed with or without a
\* reservation, or refused.
ReadPolicy(p) ==
    /\ pc[p] = "policy"
    /\ IF policy[user[p]]
       THEN Goto(p, "plan")
       ELSE \E step \in {"reserve", "unlock"} : Goto(p, step)
    /\ UNCHANGED <<user, type, size, row, rowPlan, limit, seen, rsv,
                   lockVars, ledgerVars, configVars, usageVars>>

\* Mutant: a marker for "no limit" where 0 is expected.
EffectiveOrMarker(p, t) ==
    IF row[p][t] > 0 THEN row[p][t]
    ELSE IF planLimit[rowPlan[p]][t] > 0 THEN planLimit[rowPlan[p]][t] ELSE -1

\* The user's own limit goes before the plan's; 0 is no limit.
Effective(p, t) == IF row[p][t] > 0 THEN row[p][t] ELSE planLimit[rowPlan[p]][t]

\* ResolveEffectiveLimits reads the plan.  Zero requested bytes are an error.
\* Without a limit for this type of usage the request is allowed, with or
\* without a reservation, if the user has a limit or a threshold for another
\* (HasAnyLimits), and an error if not; thresholds are not modelled.
ReadPlan(p) ==
    /\ pc[p] = "plan"
    /\ IF size[p] = 0
       THEN Goto(p, "unlock") /\ UNCHANGED limit
       ELSE /\ limit' = [limit EXCEPT ![p] = Effective(p, type[p])]
            /\ IF Effective(p, type[p]) = 0
               THEN \E step \in {"reserve", "unlock"} : Goto(p, step)
               ELSE Goto(p, "usage")
    /\ UNCHANGED <<user, type, size, row, rowPlan, seen, rsv,
                   lockVars, ledgerVars, configVars, usageVars>>

\* GetUsageForWindow.
ReadUsage(p) ==
    /\ pc[p] = "usage"
    /\ Goto(p, "decide")
    /\ seen' = [seen EXCEPT ![p] = usage[user[p]][type[p]]]
    /\ UNCHANGED <<user, type, size, row, rowPlan, limit, rsv,
                   lockVars, ledgerVars, configVars, usageVars>>

\* Mutant: what is held does not count.
DecideOnUsage(p) ==
    /\ pc[p] = "decide"
    /\ IF limit[p] < seen[p] \/ size[p] > limit[p] - seen[p]
       THEN Goto(p, "unlock")
       ELSE \E step \in {"reserve", "unlock"} : Goto(p, step)
    /\ UNCHANGED <<user, type, size, row, rowPlan, limit, seen, rsv,
                   lockVars, ledgerVars, configVars, usageVars>>

\* m - n in uint64.
Minus(m, n) == IF n <= m THEN m - n ELSE m - n + 2 * MaxInt + 2

\* Mutant: the remaining quota wraps when the limit is below the usage.
DecideWrapping(p) ==
    /\ pc[p] = "decide"
    /\ IF size[p] > Minus(limit[p], seen[p] + pending[user[p]][type[p]])
       THEN Goto(p, "unlock")
       ELSE \E step \in {"reserve", "unlock"} : Goto(p, step)
    /\ UNCHANGED <<user, type, size, row, rowPlan, limit, seen, rsv,
                   lockVars, ledgerVars, configVars, usageVars>>

\* SumPendingBytesForUser and the comparison: denied if the limit is below what
\* is used and held, or the request exceeds the difference.
Decide(p) ==
    /\ pc[p] = "decide"
    /\ LET current == seen[p] + pending[user[p]][type[p]] IN
       IF limit[p] < current \/ size[p] > Minus(limit[p], current)
       THEN Goto(p, "unlock")
       ELSE \E step \in {"reserve", "unlock"} : Goto(p, step)
    /\ UNCHANGED <<user, type, size, row, rowPlan, limit, seen, rsv,
                   lockVars, ledgerVars, configVars, usageVars>>

\* int64(n) of a uint64.
Int64(n) == IF n <= MaxInt THEN n ELSE n - 2 * MaxInt - 2

\* Reserve, if int64(requestedBytes) is positive; otherwise an error.
Reserve(p, r) ==
    /\ pc[p] = "reserve"
    /\ IF 0 < Int64(size[p])
       THEN Ledger!Reserve(r, user[p], type[p], Int64(size[p]))
       ELSE UNCHANGED ledgerVars
    /\ Goto(p, "unlock")
    /\ UNCHANGED <<user, type, size, row, rowPlan, limit, seen, rsv,
                   lockVars, configVars, usageVars>>

\* A database read fails, the plan is inactive or the window invalid.
CheckFails(p) ==
    /\ pc[p] \in {"config", "policy", "plan", "usage"}
    /\ Goto(p, "unlock")
    /\ UNCHANGED <<user, type, size, row, rowPlan, limit, seen, rsv,
                   lockVars, ledgerVars, configVars, usageVars>>

-----------------------------------------------------------------------------
(* Completion events and callers.                                          *)

\* An event with a reservation UUID: handleReservationWithUsage gets the user's
\* lock.  Events may come late, twice, and with other sizes than were reserved.
BeginCompletion(p, r, n) ==
    /\ pc[p] = "idle"
    /\ issued[r] # NoRes
    /\ Mutex!Acquire(p, issued[r].user)
    /\ Goto(p, "lookup")
    /\ user' = [user EXCEPT ![p] = issued[r].user]
    /\ type' = [type EXCEPT ![p] = issued[r].type]
    /\ size' = [size EXCEPT ![p] = n]
    /\ rsv' = [rsv EXCEPT ![p] = r]
    /\ UNCHANGED <<row, rowPlan, limit, seen, ledgerVars, configVars, usageVars>>

\* Mutant: a reservation that is gone is handled as if it were there.
LookupAnything(p) ==
    /\ pc[p] = "lookup"
    /\ Goto(p, "release")
    /\ UNCHANGED <<user, type, size, row, rowPlan, limit, seen, rsv,
                   lockVars, ledgerVars, configVars, usageVars>>

\* GetReservation: nothing under this UUID, nothing to do.
Lookup(p) ==
    /\ pc[p] = "lookup"
    /\ Goto(p, IF rsv[p] \in open THEN "release" ELSE "unlock")
    /\ UNCHANGED <<user, type, size, row, rowPlan, limit, seen, rsv,
                   lockVars, ledgerVars, configVars, usageVars>>

\* Mutant: only a failed operation gives its reservation back.
ReleaseOnFailure(p) ==
    /\ pc[p] = "release"
    /\ \/ /\ Goto(p, "record")
          /\ claimed' = claimed \cup {rsv[p]}
          /\ UNCHANGED ledgerVars
       \/ /\ Goto(p, "unlock")
          /\ Ledger!Release(rsv[p])
          /\ UNCHANGED claimed
    /\ UNCHANGED <<user, type, size, row, rowPlan, limit, seen, rsv,
                   lockVars, configVars, usage, covered, charged>>

\* reservation.Release(), and on to recording if the operation was successful.
ReleaseReservation(p) ==
    /\ pc[p] = "release"
    /\ Ledger!Release(rsv[p])
    /\ \/ Goto(p, "record") /\ claimed' = claimed \cup {rsv[p]}
       \/ Goto(p, "unlock") /\ UNCHANGED claimed
    /\ UNCHANGED <<user, type, size, row, rowPlan, limit, seen, rsv,
                   lockVars, configVars, usage, covered, charged>>

Least(m, n) == IF m < n THEN m ELSE n

\* RecordUpload, RecordDownload, RecordStorageChange: the usage detail is
\* written.  (The daily total, written next, is read by no check.)
RecordUsage(p) ==
    /\ pc[p] = "record"
    /\ size[p] > 0
    /\ usage' = [usage EXCEPT ![user[p]][type[p]] = @ + size[p]]
    /\ covered' = [covered EXCEPT ![user[p]][type[p]] =
                       @ + Least(size[p], issued[rsv[p]].bytes)]
    /\ charged' = [charged EXCEPT ![rsv[p]] = @ + 1]
    /\ Goto(p, "unlock")
    /\ UNCHANGED <<user, type, size, row, rowPlan, limit, seen, rsv, claimed,
                   lockVars, ledgerVars, configVars>>

\* Zero bytes, or the transaction fails: the error is logged and dropped.
RecordFails(p) ==
    /\ pc[p] = "record"
    /\ Goto(p, "unlock")
    /\ UNCHANGED <<user, type, size, row, rowPlan, limit, seen, rsv,
                   lockVars, ledgerVars, configVars, usageVars>>

\* An event without a UUID is recorded at once and takes no lock.
RecordDirectly(u, t, n) ==
    /\ 0 < n /\ usage[u][t] + n <= MaxUsage
    /\ usage' = [usage EXCEPT ![u][t] = @ + n]
    /\ UNCHANGED <<covered, charged, claimed,
                   lockVars, ledgerVars, configVars, callVars>>

\* QuotaCheckResult.ReleaseReservation: a caller gives up, without any lock.
CallerReleases(r) ==
    /\ r \in open
    /\ Ledger!Release(r)
    /\ UNCHANGED <<lockVars, configVars, usageVars, callVars>>

-----------------------------------------------------------------------------
(* What moves underneath.                                                  *)

\* UpdateUserQuotaConfig and its relatives write the row without the lock.
SetPolicy(u, hard) ==
    /\ policy' = [policy EXCEPT ![u] = hard]
    /\ soft' = IF hard THEN soft ELSE soft \cup {u}
    /\ UNCHANGED <<own, plan, planLimit, ownSeen, onPlans, planSeen,
                   lockVars, ledgerVars, usageVars, callVars>>

SetOwnLimit(u, t, n) ==
    /\ own' = [own EXCEPT ![u][t] = n]
    /\ ownSeen' = [ownSeen EXCEPT ![u][t] = @ \cup {n}]
    /\ UNCHANGED <<policy, plan, planLimit, soft, onPlans, planSeen,
                   lockVars, ledgerVars, usageVars, callVars>>

\* AssignUserToPlan, RemoveUserFromPlan.
SetPlan(u, l) ==
    /\ plan' = [plan EXCEPT ![u] = l]
    /\ onPlans' = [onPlans EXCEPT ![u] = @ \cup {l}]
    /\ UNCHANGED <<policy, own, planLimit, soft, ownSeen, planSeen,
                   lockVars, ledgerVars, usageVars, callVars>>

\* UpdateQuotaPlan, or another plan becomes the default.
SetPlanLimit(l, t, n) ==
    /\ planLimit' = [planLimit EXCEPT ![l][t] = n]
    /\ planSeen' = [planSeen EXCEPT ![l][t] = @ \cup {n}]
    /\ UNCHANGED <<policy, own, plan, soft, ownSeen, onPlans,
                   lockVars, ledgerVars, usageVars, callVars>>

\* Usage details leave the window, or CleanupOldRecords deletes them.
Expire(u, t) ==
    /\ \E c \in 0..covered[u][t], e \in 0..(usage[u][t] - covered[u][t]) :
          /\ covered' = [covered EXCEPT ![u][t] = c]
          /\ usage' = [usage EXCEPT ![u][t] = c + e]
    /\ UNCHANGED <<charged, claimed, lockVars, ledgerVars, configVars, callVars>>

\* A user's lock entry is dropped under a goroutine's feet (UserLock).
LockRaces(u) ==
    /\ Mutex!Race(u)
    /\ UNCHANGED <<ledgerVars, configVars, usageVars, callVars>>

\* The process restarts: locks, reservations and calls are gone, rows stay.
Restart ==
    /\ holders' = [u \in Users |-> {}]
    /\ Ledger!Forget
    /\ pc' = [p \in Procs |-> "idle"]
    /\ user' = [p \in Procs |-> Nobody]
    /\ type' = [p \in Procs |-> NoType]
    /\ size' = [p \in Procs |-> 0]
    /\ row' = [p \in Procs |-> NoLimits]
    /\ rowPlan' = [p \in Procs |-> NoPlan]
    /\ limit' = [p \in Procs |-> 0]
    /\ seen' = [p \in Procs |-> 0]
    /\ rsv' = [p \in Procs |-> NoRes]
    /\ UNCHANGED <<raced, configVars, usageVars>>

CallStep(p) ==
    \/ Unlock(p)
    \/ \E u \in Users, t \in Types, n \in Sizes : BeginCheck(p, u, t, n)
    \/ ReadConfig(p)
    \/ ReadPolicy(p)
    \/ ReadPlan(p)
    \/ ReadUsage(p)
    \/ Decide(p)
    \/ \E r \in Ids : Reserve(p, r)
    \/ CheckFails(p)
    \/ \E r \in Ids, n \in Sizes : BeginCompletion(p, r, n)
    \/ Lookup(p)
    \/ ReleaseReservation(p)
    \/ RecordUsage(p)
    \/ RecordFails(p)

ConfigStep ==
    \/ \E u \in Users, hard \in Policies : SetPolicy(u, hard)
    \/ \E u \in Users, t \in Types, n \in Limits : SetOwnLimit(u, t, n)
    \/ \E u \in Users, l \in Plans : SetPlan(u, l)
    \/ \E l \in Plans, t \in Types, n \in Limits : SetPlanLimit(l, t, n)

Next ==
    \/ \E p \in Procs : CallStep(p)
    \/ \E u \in Users, t \in Types, n \in Sizes : RecordDirectly(u, t, n)
    \/ \E r \in Ids : CallerReleases(r)
    \/ ConfigStep
    \/ \E u \in Users, t \in Types : Expire(u, t)
    \/ \E u \in Racy : LockRaces(u)
    \/ Restart

Spec == Init /\ [][Next]_vars

-----------------------------------------------------------------------------
(* Properties.                                                             *)

\* Every limit a check for u and t can have resolved from what it read: one of
\* the user's own, or, if that was ever absent, one of a plan the user was on.
LimitsSeen(u, t) ==
    (ownSeen[u][t] \ {0}) \cup
    {n \in Limits : 0 \in ownSeen[u][t] /\ \E l \in onPlans[u] : n \in planSeen[l][t]}

\* What reservations have let through and what they still hold stay within the
\* most generous hard limit the user has had, whatever checks, completions,
\* callers, configuration changes, window ends and restarts interleave, as
\* long as the user's lock excludes.  (hard_limits.go with quota.go's lock.)
WithinLimit ==
    \A u \in Users, t \in Types :
        ~raced[u] /\ u \notin soft =>
            \E n \in LimitsSeen(u, t) :
                n = 0 \/ covered[u][t] + pending[u][t] <= n

\* However often a completion event is delivered, usage is recorded at most once
\* for a reservation while the user's lock excludes.
ChargedOnce ==
    \A r \in Ids :
        issued[r] # NoRes /\ ~raced[issued[r].user] => charged[r] <= 1

\* No reservation is counted twice, as held and as used, even when the lock
\* fails: usage is recorded after the release, never before it.
NeverCountedTwice ==
    \A r \in Ids : charged[r] > 0 => r \notin open

\* "handles reservation release and usage recording atomically"
\* (event_listeners.go:25): once its handler is done, a reservation released for
\* a successful operation has been charged.
AtomicCompletion ==
    \A r \in claimed :
        charged[r] > 0 \/ \E p \in Procs : pc[p] = "record" /\ rsv[p] = r
=============================================================================
