-------------------------------- MODULE Usage --------------------------------
(***************************************************************************)
(* Recording usage, and what is read from it: uploads, downloads (those of *)
(* anonymous visitors are shared among the users who pin the content),     *)
(* storage added and removed, each as a usage detail and then, in another  *)
(* transaction, in the daily total; usage in a window, the check of a      *)
(* group of users, and the health of a pinned CID.                         *)
(*                                                                         *)
(* A recording:  idle -> detail -> daily [-> update] -> done               *)
(*                         ^------- next user -------'                     *)
(* A group check:  idle -> ask -> answered -> idle                         *)
(* A health report:  idle -> health -> answered -> idle                    *)
(***************************************************************************)
EXTENDS Limits, FiniteSets, FiniteSetsExt

CONSTANTS
    Procs,          \* goroutines
    Users,
    Amounts,        \* byte counts of uploads and downloads
    Objects,        \* <<size, slab>>: slab is NoSlab or <<minShards, totalSectors>>
    Requests,       \* <<type, byte count>>: what a group check is about
    NoSlab,
    Redundancy,     \* DEFAULT_REDUNDANCY
    MaxInt,         \* math.MaxInt64
    MaxSharedWith,  \* users that may share one detail
    Precision,      \* SharedUsagePrecision
    Deployments,    \* <<dialect of the database, account of each user>>, see below
    NoRow,          \* the day has no row in user_quotas
    Retentions,     \* days of retention that an administrator may ask for
    Moments,        \* the hours at which anything happens, a bound on time
    MaxCalls,       \* bound on the number of recordings and group checks
    MaxFailures     \* bound on the number of failures of the database

UsageTypes == Types \cup {"STORAGE_REMOVE"}
Columns == {"uploaded", "downloaded", "stored"}
MaxUint == 2 * MaxInt + 1       \* math.MaxUint64

\* An account has a policy, its limits as resolved (or Unresolved), the bytes left in its
\* grants, whether there is a configuration row, and whether the row, or the plan it
\* names, is to be excluded from health reports.
ASSUME UsageAssumption ==
    /\ Types = {"UPLOAD", "DOWNLOAD", "STORAGE_ADD"}
    /\ IsFiniteSet(Users)
    /\ Amounts \subseteq Nat \ {0}
    /\ NoSlab \notin Nat \X Nat
    /\ Objects \subseteq (Nat \ {0}) \X ((Nat \X Nat) \cup {NoSlab})
    /\ Requests \subseteq Types \X (Nat \ {0})
    /\ {Redundancy, MaxInt, MaxSharedWith} \subseteq Nat \ {0}
    /\ {Precision, MaxCalls, MaxFailures} \cup Moments \cup Retentions \subseteq Nat
    /\ \A d \in Deployments :
          /\ d = <<d[1], d[2]>>
          /\ d[1] \in {"mysql", "sqlite"}
          /\ DOMAIN d[2] = Users
          /\ \A u \in Users :
                /\ DOMAIN d[2][u] = {"policy", "limits", "left", "known", "hidden", "planHidden"}
                /\ d[2][u].policy \in EnforcementPolicies
                /\ d[2][u].limits = Unresolved
                      \/ \A t \in Types : d[2][u].limits[t].bytes \in 0..MaxUint
                /\ d[2][u].left \in [Types -> 0..MaxUint]
    /\ NoRow \notin [Columns -> Nat]

\* Time and the number of goroutines are bounded.
ASSUME FiniteAssumption == IsFiniteSet(Procs) /\ IsFiniteSet(Moments)

VARIABLES
    now,        \* hours since the beginning
    dialect, accounts,
    recorded,   \* recorded[u][t][h]: bytes in the usage details of hour h
    cleaned,    \* cleaned[u][t]: bytes in details deleted since (soft delete)
    daily,      \* daily[u][d]: the row of user_quotas, or NoRow
    missed,     \* missed[u][t]: recorded bytes whose daily total was not updated
    task,       \* task[p]: the call p is in
    calls,      \* calls made so far
    failures    \* and failures met

vars == <<now, dialect, accounts, recorded, cleaned, daily, missed, task, calls, failures>>

Day(h) == h \div DayHours
Days == {Day(h) : h \in Moments}
Today == Day(now)

\* type, share: what each user is charged with; todo: users still to be charged, or
\* asked; user, day: the one whose daily total is next; count: SharedWith, or the
\* users asked; asked: bytes to be shared; billed, lost: bytes charged so far, and
\* bytes of users that could not be; kept: users with sufficient quota; stirred: usage
\* or time has moved on since the group check, or the report, began; remaining,
\* unlimited: the health reported so far.
Idle == [pc |-> "idle", type |-> "", share |-> 0, todo |-> {}, user |-> 0, day |-> 0,
         count |-> 0, asked |-> 0, billed |-> 0, lost |-> 0, group |-> {}, kept |-> {},
         stirred |-> FALSE, answer |-> "", remaining |-> 0, unlimited |-> FALSE]

TypeOK ==
    /\ now \in Moments
    /\ <<dialect, accounts>> \in Deployments
    /\ recorded \in [Users -> [UsageTypes -> [Moments -> Nat]]]
    /\ cleaned \in [Users -> [UsageTypes -> Nat]]
    /\ daily \in [Users -> [Days -> [Columns -> Nat] \cup {NoRow}]]
    /\ missed \in [Users -> [UsageTypes -> Nat]]
    /\ calls \in 0..MaxCalls
    /\ failures \in 0..MaxFailures
    /\ \A p \in Procs :
          /\ DOMAIN task[p] = DOMAIN Idle
          /\ task[p].pc \in {"idle", "detail", "daily", "update", "done", "ask", "health", "answered"}
          /\ task[p].pc \in {"daily", "update"} => task[p].user \in Users
          /\ {task[p].share, task[p].billed, task[p].lost, task[p].remaining} \subseteq Nat
          /\ task[p].todo \subseteq Users /\ task[p].kept \subseteq task[p].group

Init ==
    /\ now \in Moments /\ \A h \in Moments : now <= h
    /\ \E d \in Deployments : dialect = d[1] /\ accounts = d[2]
    /\ recorded = [u \in Users |-> [t \in UsageTypes |-> [h \in Moments |-> 0]]]
    /\ cleaned = [u \in Users |-> [t \in UsageTypes |-> 0]]
    /\ daily = [u \in Users |-> [d \in Days |-> NoRow]]
    /\ missed = [u \in Users |-> [t \in UsageTypes |-> 0]]
    /\ task = [p \in Procs |-> Idle]
    /\ calls = 0
    /\ failures = 0

-----------------------------------------------------------------------------
(* What is computed from bytes.                                            *)

Magnitude(n) == IF n < 0 THEN -n ELSE n
AtMost(m, n) == IF m < n THEN m ELSE n

\* uint64 to int64.
AsInt64(n) == IF n > MaxInt THEN n - 2 * (MaxInt + 1) ELSE n

\* Mutant: a share is always rounded up.
SharedBytesUp(bytes, users) ==
    IF users = 0 THEN 0 ELSE (bytes + users - 1) \div users

CalculateSharedBytes(bytes, users) ==
    IF users = 0 THEN 0
    ELSE bytes \div users + (IF Precision > 0 /\ bytes % users # 0 THEN 1 ELSE 0)

\* CalculateScaledSize, in exact arithmetic.
CalculateScaledSize(size, minShards, totalSectors) ==
    IF minShards = 0 \/ totalSectors = 0 THEN size
    ELSE (size * totalSectors) \div (minShards * Redundancy)

\* getStorageSizeToRecord: the cap is for objects without redundancy metadata only.
StorageSizeToRecord(size, slab) ==
    IF slab = NoSlab THEN AtMost(size, MaxInt)
    ELSE CalculateScaledSize(size, slab[1], slab[2])

-----------------------------------------------------------------------------
(* Recording.                                                              *)

\* Group checks and reports under way notice that usage, or time, has moved on.
Stir(tasks) ==
    [p \in Procs |-> IF tasks[p].pc \in {"ask", "health", "answered"} THEN [tasks[p] EXCEPT !.stirred = TRUE]
                     ELSE tasks[p]]

IsFree(p) == task[p].pc \in {"idle", "done"}

\* Each of the users is charged the share.
Begin(p, type, share, users, bytes) ==
    /\ IsFree(p)
    /\ calls < MaxCalls
    /\ calls' = calls + 1
    /\ task' = [task EXCEPT ![p] = [Idle EXCEPT
                    !.pc = "detail", !.type = type, !.share = share, !.todo = users,
                    !.count = Cardinality(users), !.asked = bytes]]
    /\ UNCHANGED <<now, dialect, accounts, recorded, cleaned, daily, missed, failures>>

RecordUpload(p, u, n) == n > 0 /\ Begin(p, "UPLOAD", n, {u}, n)

RecordDownload(p, u, n) == n > 0 /\ Begin(p, "DOWNLOAD", n, {u}, n)

\* recordAnonymousDownload, with shared usage enabled and users who pin the upload.
RecordAnonymousDownload(p, pinners, n) ==
    /\ n > 0 /\ pinners # {}
    /\ Begin(p, "DOWNLOAD", CalculateSharedBytes(n, Cardinality(pinners)), pinners, n)

\* The magnitude of math.MinInt64 is no int64.
RecordStorageChange(p, u, n) ==
    LET bytes == AtMost(Magnitude(n), MaxInt) IN
    /\ n # 0
    /\ Begin(p, IF n < 0 THEN "STORAGE_REMOVE" ELSE "STORAGE_ADD", bytes, {u}, bytes)

HandleStorageObjectPinned(p, u, size, slab) ==
    RecordStorageChange(p, u, AsInt64(StorageSizeToRecord(size, slab)))

HandleStorageObjectUnpinned(p, u, size, slab) ==
    RecordStorageChange(p, u, AsInt64(-AsInt64(StorageSizeToRecord(size, slab))))

\* UserUsageDetail.validate.
ValidDetail(k) ==
    /\ k.share > 0 \/ k.type = "STORAGE_REMOVE"
    /\ k.count <= MaxSharedWith

\* RecordUserUsageDetail commits the detail in a transaction of its own.
CreateDetail(p, u) ==
    LET k == task[p] IN
    /\ k.pc = "detail"
    /\ u \in k.todo
    /\ ValidDetail(k)
    /\ recorded' = [recorded EXCEPT ![u][k.type][now] = @ + k.share]
    /\ task' = Stir([task EXCEPT ![p] = [k EXCEPT
                    !.pc = "daily", !.user = u, !.todo = @ \ {u}, !.billed = @ + k.share]])
    /\ UNCHANGED <<now, dialect, accounts, cleaned, daily, missed, calls, failures>>

Fails == failures < MaxFailures /\ failures' = failures + 1

\* The next user's turn, or the end of the call.
Onwards(k) == IF k.todo = {} THEN "done" ELSE "detail"

\* The detail is refused, or the database fails: an anonymous download counts the
\* failure and goes on, any other call returns the error.
DetailFails(p, u) ==
    LET k == [task[p] EXCEPT !.todo = @ \ {u}, !.lost = @ + task[p].share] IN
    /\ task[p].pc = "detail"
    /\ u \in task[p].todo
    /\ IF ValidDetail(task[p]) THEN Fails ELSE UNCHANGED failures
    /\ task' = [task EXCEPT ![p] = [k EXCEPT !.pc = Onwards(k)]]
    /\ UNCHANGED <<now, dialect, accounts, recorded, cleaned, daily, missed, calls>>

-----------------------------------------------------------------------------
(* Daily totals: UpsertDailyUsage.                                         *)

ColumnOf(type) ==
    CASE type = "UPLOAD" -> "uploaded"
      [] type = "DOWNLOAD" -> "downloaded"
      [] OTHER -> "stored"

Zeros == [c \in Columns |-> 0]

\* Mutant: removing storage may take the total below zero.
AddToUnclamped(row, k) ==
    [row EXCEPT ![ColumnOf(k.type)] = IF k.type = "STORAGE_REMOVE" THEN @ - k.share ELSE @ + k.share]

\* getUpdateAssignments, and the assignments of the other dialects.
AddTo(row, k) ==
    [row EXCEPT ![ColumnOf(k.type)] =
        IF k.type # "STORAGE_REMOVE" THEN @ + k.share
        ELSE IF @ < k.share THEN 0 ELSE @ - k.share]

\* Mutant: a removal starts from its own bytes.
FirstRowAnyway(k) == [Zeros EXCEPT ![ColumnOf(k.type)] = k.share]

\* The row to be inserted: a removal starts from zero.
FirstRow(k) == IF k.type = "STORAGE_REMOVE" THEN Zeros ELSE AddTo(Zeros, k)

Charged(p) ==
    task' = [task EXCEPT ![p] = [@ EXCEPT !.pc = Onwards(task[p]), !.user = Idle.user, !.day = 0]]

\* INSERT ... ON DUPLICATE KEY UPDATE.
UpsertMySQL(p) ==
    LET k == task[p]
        row == daily[k.user][Today]
    IN  /\ k.pc = "daily"
        /\ dialect = "mysql"
        /\ daily' = [daily EXCEPT ![k.user][Today] = IF row = NoRow THEN FirstRow(k) ELSE AddTo(row, k)]
        /\ Charged(p)
        /\ UNCHANGED <<now, dialect, accounts, recorded, cleaned, missed, calls, failures>>

\* INSERT OR IGNORE of a row of zeros ...
UpsertInsert(p) ==
    LET k == task[p] IN
    /\ k.pc = "daily"
    /\ dialect = "sqlite"
    /\ daily' = [daily EXCEPT ![k.user][Today] = IF @ = NoRow THEN Zeros ELSE @]
    /\ task' = [task EXCEPT ![p].pc = "update", ![p].day = Today]
    /\ UNCHANGED <<now, dialect, accounts, recorded, cleaned, missed, calls, failures>>

\* Mutant: the update replaces what the row holds.
UpsertReplace(p) ==
    LET k == task[p] IN
    /\ k.pc = "update"
    /\ daily' = [daily EXCEPT ![k.user][k.day] = FirstRow(k)]
    /\ Charged(p)
    /\ UNCHANGED <<now, dialect, accounts, recorded, cleaned, missed, calls, failures>>

\* ... and an UPDATE of the row, whoever has inserted it.
UpsertUpdate(p) ==
    LET k == task[p] IN
    /\ k.pc = "update"
    /\ daily' = [daily EXCEPT ![k.user][k.day] = AddTo(@, k)]
    /\ Charged(p)
    /\ UNCHANGED <<now, dialect, accounts, recorded, cleaned, missed, calls, failures>>

\* A statement fails: the detail stays.
DailyFails(p) ==
    LET k == task[p] IN
    /\ k.pc \in {"daily", "update"}
    /\ Fails
    /\ missed' = [missed EXCEPT ![k.user][k.type] = @ + k.share]
    /\ Charged(p)
    /\ UNCHANGED <<now, dialect, accounts, recorded, cleaned, daily, calls>>

-----------------------------------------------------------------------------
(* Time and retention.                                                     *)

Tick ==
    /\ now' \in {h \in Moments : h > now}
    /\ task' = Stir(task)
    /\ UNCHANGED <<dialect, accounts, recorded, cleaned, daily, missed, calls, failures>>

\* CleanupOldRecords: details are deleted, daily totals are kept.
CleanupOldRecords(retentionDays) ==
    LET old == {h \in Moments : h < now - retentionDays * DayHours}
        OldBytes(u, t) == SumFunctionOnSet(recorded[u][t], old)
    IN  /\ recorded' = [u \in Users |-> [t \in UsageTypes |-> [h \in Moments |->
                            IF h \in old THEN 0 ELSE recorded[u][t][h]]]]
        /\ cleaned' = [u \in Users |-> [t \in UsageTypes |-> cleaned[u][t] + OldBytes(u, t)]]
        /\ task' = Stir(task)
        /\ UNCHANGED <<now, dialect, accounts, daily, missed, calls, failures>>

-----------------------------------------------------------------------------
(* Reading usage.                                                          *)

\* GetUsageForWindow and GetUsageForWindowBatch, of a valid window.
UsageForWindow(u, t, w) ==
    LET bounds == GetWindowBounds(w, now)
    IN  SumFunctionOnSet(recorded[u][t], {h \in Moments : bounds.start <= h /\ h < bounds.end})

\* GetAggregatedUsageByType and GetTotalBytesByType.
TotalBytesByType(u, t) == SumFunction(recorded[u][t])

\* checkUserQuotaForAction, of a user without reservations.
CheckUserQuota(u, t, n) ==
    LET limits == accounts[u].limits
        policy == accounts[u].policy
        used == IF limits # Unresolved /\ limits[t].bytes > 0 /\ ValidWindow(limits[t].window)
                THEN UsageForWindow(u, t, limits[t].window) ELSE 0
    IN  CASE policy = "HARD_LIMITS" -> CheckHardLimits(limits, t, used, 0, n)
          [] policy = "THRESHOLD" -> CheckThreshold(limits, t, used, n)
          [] policy = "ALLOWANCE" -> CheckAllowance(accounts[u].left[t], n)
          [] policy = "UNLIMITED" -> CheckUnlimited(n)

\* A round of CheckGroupQuotaIteration.
Round(k, users) ==
    [k EXCEPT !.pc = "ask", !.todo = users, !.kept = {}, !.count = Cardinality(users),
              !.share = CalculateSharedBytes(k.asked, Cardinality(users))]

\* Whom resolveCIDToUploadID and getPinningUsersForUpload may find: no upload, no pins,
\* or the users who pin the upload, each once.
PinningUsers == SUBSET Users

\* CheckCIDGroupQuotaAvailability, of a CID that users pin.
CheckGroup(p, t, pinners, n) ==
    /\ IsFree(p)
    /\ calls < MaxCalls
    /\ pinners # {}
    /\ calls' = calls + 1
    /\ task' = [task EXCEPT ![p] =
                    Round([Idle EXCEPT !.type = t, !.asked = n, !.group = pinners], pinners)]
    /\ UNCHANGED <<now, dialect, accounts, recorded, cleaned, daily, missed, failures>>

Answer(k, answer) == [k EXCEPT !.pc = "answered", !.answer = answer]

\* Each user is checked under a lock of the user's own.
AskUser(p, u) ==
    LET k == task[p]
        verdict == CheckUserQuota(u, k.type, k.share)
    IN  /\ k.pc = "ask"
        /\ u \in k.todo
        /\ task' = [task EXCEPT ![p] =
                        IF verdict = "error" THEN Answer(k, "error")
                        ELSE [k EXCEPT !.todo = @ \ {u},
                                       !.kept = IF Passes(verdict) THEN @ \cup {u} ELSE @]]
        /\ UNCHANGED <<now, dialect, accounts, recorded, cleaned, daily, missed, calls, failures>>

\* Mutant: those who are left keep the share of the first round.
NextRoundSameShare(p) ==
    LET k == task[p] IN
    /\ k.pc = "ask"
    /\ k.todo = {}
    /\ task' = [task EXCEPT ![p] =
                    CASE k.kept = {} -> Answer(k, "no")
                      [] OTHER -> Answer(k, "yes")]
    /\ UNCHANGED <<now, dialect, accounts, recorded, cleaned, daily, missed, calls, failures>>

\* Mutant: a user without sufficient quota is asked again and again.
NextRoundWithAll(p) ==
    LET k == task[p] IN
    /\ k.pc = "ask"
    /\ k.todo = {}
    /\ task' = [task EXCEPT ![p] =
                    CASE Cardinality(k.kept) = k.count -> Answer(k, "yes")
                      [] OTHER -> Round(k, k.group)]
    /\ UNCHANGED <<now, dialect, accounts, recorded, cleaned, daily, missed, calls, failures>>

NextRound(p) ==
    LET k == task[p] IN
    /\ k.pc = "ask"
    /\ k.todo = {}
    /\ task' = [task EXCEPT ![p] =
                    CASE k.kept = {} -> Answer(k, "no")
                      [] Cardinality(k.kept) = k.count -> Answer(k, "yes")
                      [] OTHER -> Round(k, k.kept)]
    /\ UNCHANGED <<now, dialect, accounts, recorded, cleaned, daily, missed, calls, failures>>

\* GetExcludedFromHealthReports.
Excluded(u) == accounts[u].known /\ (accounts[u].hidden \/ accounts[u].planHidden)

\* ResolveEffectiveLimitsBatchReadOnly: makes no row, and omits who cannot be resolved.
Resolved(u) == accounts[u].known /\ accounts[u].limits # Unresolved

\* The pinners a report is about, under the given policies.
Counted(pinners, policies) ==
    {u \in pinners : Resolved(u) /\ ~Excluded(u) /\ accounts[u].policy \in policies}

\* Those whose storage has a limit in a window.
Windowed(pinners) ==
    {u \in Counted(pinners, {"HARD_LIMITS", "THRESHOLD"}) :
        LET limit == accounts[u].limits["STORAGE_ADD"]
        IN  limit.bytes > 0 /\ ~IsNil(limit.window)}

\* GetCIDPinHealth, asked by the owner of the upload, by the system, or by a stranger.
\* (Totals of quotas and usage, and the estimated date of exhaustion, are left out.)
CheckHealth(p, pinners, stranger) ==
    /\ IsFree(p)
    /\ calls < MaxCalls
    /\ calls' = calls + 1
    /\ task' = [task EXCEPT ![p] =
                    IF stranger THEN Answer(Idle, "unauthorized")
                    ELSE [Idle EXCEPT !.pc = "health", !.group = pinners,
                              !.todo = Windowed(pinners),
                              !.unlimited = Counted(pinners, {"UNLIMITED"}) # {}]]
    /\ UNCHANGED <<now, dialect, accounts, recorded, cleaned, daily, missed, failures>>

\* Mutant: the key has the policy only.
AnyWindow(users, w) == TRUE

\* The users under one key of windowGroups.  (Parameters are printed as addresses:
\* users with the same window may be under several keys.)
SameWindow(users, w) == \A u \in users : accounts[u].limits["STORAGE_ADD"].window = w

\* The windowed users are read by groups, in the window of the first one.
ReadWindows(p, users, first) ==
    LET k == task[p]
        window == accounts[first].limits["STORAGE_ADD"].window
        bytes == [u \in users |-> Remaining(accounts[u].limits["STORAGE_ADD"].bytes,
                                            UsageForWindow(u, "STORAGE_ADD", window))]
    IN  /\ k.pc = "health"
        /\ users \subseteq k.todo
        /\ first \in users
        /\ SameWindow(users, window)
        /\ task' = [task EXCEPT ![p] =
                        IF ~ValidWindow(window) THEN Answer(k, "error")
                        ELSE [k EXCEPT !.todo = @ \ users, !.remaining = @ + SumFunction(bytes)]]
        /\ UNCHANGED <<now, dialect, accounts, recorded, cleaned, daily, missed, calls, failures>>

\* GetActiveGrantsByTypeBatch, CalculateAvailableBytes.
AvailableBytes(u) == accounts[u].left["STORAGE_ADD"]

ReadGrants(p) ==
    LET k == task[p]
        bytes == [u \in Counted(k.group, {"ALLOWANCE"}) |-> AvailableBytes(u)]
    IN  /\ k.pc = "health"
        /\ k.todo = {}
        /\ task' = [task EXCEPT ![p] =
                        Answer([k EXCEPT !.remaining = @ + SumFunction(bytes)], "healthy")]
        /\ UNCHANGED <<now, dialect, accounts, recorded, cleaned, daily, missed, calls, failures>>

Return(p) ==
    /\ task[p].pc = "answered"
    /\ task' = [task EXCEPT ![p] = Idle]
    /\ UNCHANGED <<now, dialect, accounts, recorded, cleaned, daily, missed, calls, failures>>

-----------------------------------------------------------------------------
Record(p) ==
    \/ \E u \in Users : CreateDetail(p, u) \/ DetailFails(p, u)
    \/ UpsertMySQL(p)
    \/ UpsertInsert(p)
    \/ UpsertUpdate(p)
    \/ DailyFails(p)

AskGroup(p) ==
    \/ \E u \in Users : AskUser(p, u)
    \/ NextRound(p)

ReportHealth(p) ==
    \/ \E S \in SUBSET Users, u \in Users : ReadWindows(p, S, u)
    \/ ReadGrants(p)

\* The service's own calls.
RecordFor(p) ==
    \E u \in Users, n \in Amounts : RecordUpload(p, u, n) \/ RecordDownload(p, u, n)

Call(p) ==
    \/ RecordFor(p)
    \/ \E S \in SUBSET Users, n \in Amounts : RecordAnonymousDownload(p, S, n)
    \/ \E u \in Users, o \in Objects :
          HandleStorageObjectPinned(p, u, o[1], o[2]) \/ HandleStorageObjectUnpinned(p, u, o[1], o[2])
    \/ \E S \in PinningUsers, r \in Requests : CheckGroup(p, r[1], S, r[2])
    \/ \E S \in PinningUsers, stranger \in BOOLEAN : CheckHealth(p, S, stranger)

\* The request of an administrator.
HandleCleanup(retentionDays) == retentionDays > 0 /\ CleanupOldRecords(retentionDays)

Next ==
    \/ \E p \in Procs : Call(p) \/ Record(p) \/ AskGroup(p) \/ ReportHealth(p) \/ Return(p)
    \/ Tick
    \/ \E days \in Retentions : HandleCleanup(days)

Spec == Init /\ [][Next]_vars

-----------------------------------------------------------------------------
(* Properties.                                                             *)

Ever(u, t) == TotalBytesByType(u, t) + cleaned[u][t]

DailyTotal(u, c) ==
    SumFunction([d \in Days |-> IF daily[u][d] = NoRow THEN 0 ELSE daily[u][d][c]])

\* Bytes whose detail is written, and whose daily total is about to be.
UnderWay(u, t) ==
    SumFunction([p \in Procs |->
        IF task[p].pc \in {"daily", "update"} /\ task[p].user = u /\ task[p].type = t
        THEN task[p].share ELSE 0])

(***************************************************************************)
(* No upload or download is lost from the daily totals or counted twice    *)
(* there, by whatever recordings meet in one row: they add up to the       *)
(* details ever written, less those whose update failed or is under way.   *)
(***************************************************************************)
DailyAgrees ==
    \A u \in Users, t \in {"UPLOAD", "DOWNLOAD"} :
        DailyTotal(u, ColumnOf(t)) + UnderWay(u, t) + missed[u][t] = Ever(u, t)

\* Removals are clamped day by day and may miss a row, but the daily totals of stored
\* bytes never exceed what was added.
StoredIsCovered ==
    \A u \in Users : DailyTotal(u, "stored") <= Ever(u, "STORAGE_ADD")

\* What a call charges, with what it could not charge, is what it was asked to, but for
\* the rounding of shares: down by default, up with a precision.
WholeIsShared ==
    \A p \in Procs :
        LET k == task[p]
            shared == k.billed + k.lost
        IN  k.pc = "done" =>
                IF Precision = 0 THEN shared <= k.asked /\ k.asked < shared + k.count
                ELSE k.asked <= shared /\ shared < k.asked + k.count

\* All the users can bear their share of n bytes.
CanBear(users, t, n) ==
    \A u \in users : Passes(CheckUserQuota(u, t, CalculateSharedBytes(n, Cardinality(users))))

\* The limits of u are not resolved, or that on t has no window to count usage in.
CannotTell(u, t) ==
    LET limits == accounts[u].limits
    IN  limits = Unresolved \/ (limits[t].bytes > 0 /\ ~ValidWindow(limits[t].window))

\* While nothing is recorded, a group check answers as if it had tried every group among
\* the pinners; it fails only if a share rounds to nothing or the check of one of them
\* cannot tell.
GroupIsRight ==
    \A p \in Procs :
        LET k == task[p]
            someone == \E S \in SUBSET k.group : S # {} /\ CanBear(S, k.type, k.asked)
        IN  k.pc = "answered" /\ ~k.stirred =>
                /\ k.answer = "yes" => someone
                /\ k.answer = "no" => ~someone
                /\ k.answer = "error" => \/ k.asked < Cardinality(k.group)
                                         \/ \E u \in k.group : CannotTell(u, k.type)

\* A group check comes to an end, whatever is recorded meanwhile: every step of it leaves
\* fewer users in the group, or the same group with fewer of them to ask.
GroupShrinks ==
    [][\A p \in Procs :
          LET k == task[p] IN
          k.pc = "ask" /\ task'[p].pc = "ask" /\ task'[p].todo # k.todo =>
              \/ task'[p].count < k.count
              \/ task'[p].count = k.count /\ Cardinality(task'[p].todo) < Cardinality(k.todo)]_vars

\* The largest request to store that the check of u would let pass.
LargestFor(u) ==
    Max({0} \cup {n \in 1..MaxUint : Passes(CheckUserQuota(u, "STORAGE_ADD", n))})

(***************************************************************************)
(* A health report agrees with the check: while nothing is recorded, what  *)
(* it says remains for a CID is what the checks of its pinners, one by     *)
(* one, would still let pass, however they are grouped to read their       *)
(* usage; and anything, if one of them is unlimited.  (Who is excluded,    *)
(* has no row or no limit on storage does not count, although a check      *)
(* would let some of them pass.)                                           *)
(***************************************************************************)
HealthIsBacked ==
    \A p \in Procs :
        LET k == task[p]
            counted == Windowed(k.group) \cup Counted(k.group, {"ALLOWANCE"})
        IN  k.pc = "answered" /\ k.answer = "healthy" /\ ~k.stirred =>
                IF k.unlimited
                THEN \E u \in k.group : LargestFor(u) = MaxUint
                ELSE k.remaining = SumFunction([u \in counted |-> LargestFor(u)])
===============================================================================
