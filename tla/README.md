# Verification of portal-plugin-quota

TLA+ models of the quota plugin, checked with TLC on small instances and, where
marked, proved with TLAPS for every instance. All paths are relative to the
repository (`src/` is its root here); line numbers are in `PROJECT.json`.

## The system

The plugin answers one question for the portal, "may this user upload, download
or store that many bytes?", and keeps the books the answer rests on. It is one
Go process over a SQL database.

| Part | State | Operations |
|---|---|---|
| User lock manager (`internal/lock`) | map user -> `userLock` (mutex, waiter count) | `AcquireLock`, `AcquireLockWithTimeout`, `TryAcquireLock`, `Lock.Release` |
| Reservation manager (`internal/reservation`) | map UUID -> reservation, index user -> UUIDs, both in memory | `Reserve`, `GetReservation`, `Reservation.Release`, `SumPendingBytesForUser`, cleanup on a ticker |
| Quota checks (`service/quota/quota.go`) | none of their own | `CheckUploadQuota`, `CheckDownloadQuota`, `CheckStorageQuota` over `checkQuotaWithLock` |
| Completion events (`service/quota/event_listeners.go`) | none | `handleUploadCompleted`, `handleDownloadCompleted`, `handleStorageObjectPinned`, `...Unpinned`, over `handleReservationWithUsage` |
| Policies (`service/policies`) | none | the verdict of HARD_LIMITS, THRESHOLD, ALLOWANCE, UNLIMITED; the limit resolver; the plan manager |
| Configuration (`managers/config.go`) | table `user_quota_configs` | read or create a row, validate, change, map it to an enforcer |
| Plans (`quota.go`) | table `quota_plans` | create, update, delete, make default, assign, remove |
| Usage (`managers/usage.go`) | tables `user_usage_details`, `user_quotas` (daily totals) | record uploads, downloads, storage changes, anonymous downloads; sums over windows |
| Grants (`managers/grant.go`) | tables `allowance_grants`, `allowance_consumptions` | create, update, deactivate, consume in priority order |
| Retention (`quota.go`) | | `CleanupOldRecords` |
| Group and CID quota, health (`quota.go`, `core/distribution.go`) | none | share a download among the users who pin the content; iterate until a group can carry it |
| Windows, thresholds, redundancy (`core/types.go`, `core/redundancy.go`) | none | pure functions |
| API, DTOs, metrics, migrations, mocks, wiring | none | |

How they interact. A check takes the user's lock, reads the user's row, reads it
again for the policy, and asks the policy's enforcer; HARD_LIMITS resolves the
limit (a third read, of the plan), sums usage in the limit's window (a fourth)
and adds the bytes that are reserved; if the request fits and the caller wants
it, a reservation is made before the lock is given up. Later the portal fires an
event with the reservation's UUID: the handler takes the user's lock, releases
the reservation and records the usage. Between the two, the caller may release
the reservation itself, administrators may change rows and plans, windows move
on, the process may restart and lose every reservation while the events are
still to come.

What is hard: none of the database reads of one check share a transaction; only
the user's lock, which the writers of configuration and the direct recording
handlers do not take, keeps checks and completions apart; releases bypass every
lock; the lock table reference-counts its entries with a window in which a
pointer is not counted; completion events are delivered late, twice, or to a
process that no longer knows the reservation.

What makes each part correct:

* locks: one holder per user; no entry outlives its users; no free mutex waited
  for in vain;
* reservations: bytes are held exactly from `Reserve` to the first `Release`,
  whatever races with whatever; both maps agree; sums miss nothing that is held;
* checks and completions: what was let through under a hard limit stays within a
  limit the user had; one event charges once; bytes are never both held and used;
* usage: daily totals agree with details; an anonymous download is shared without
  charging anyone twice;
* grants: used plus remaining is the grant; consumption takes exactly what it
  was asked to or nothing;
* plans: at most one default; no user on a deleted plan; whoever is told of limits is
  told of the current ones;
* windows, thresholds, shares: agree with their one-line definitions, at the
  edges too.

## The modules

    UserMutex          <--implements--  UserLock       (internal/lock)
    ReservationLedger  <--implements--  Reservations   (internal/reservation)
        |                                   |
        +-------------- QuotaFlow ----------+          (checks, completions, configuration)

    Windows <-- Limits <-- Usage      (recording, daily totals, groups, health)
                      <-- Policies    (what a policy promises over time)

    Grants                            (managers/grant.go and its callers)
    Plans                             (plans, users' rows, events about them)

    SumTheorems                       (what sums over finite sets do, for the proofs)

`MC*` modules hold what TLC needs to run an instance, `*Proofs` modules the
theorems. `QuotaFlow` is built on the two abstract specifications (`INSTANCE`), and the two
detailed modules are shown to implement them, so that each is checked at the
granularity that matters for it. `Windows` and `Limits` are functions without state;
`Usage` and `Policies` extend them and give them usage and a clock.

What one module leaves open another one decides: `QuotaFlow` interleaves the reads
of a check and takes windows and the verdicts of the other policies as given;
`Policies` takes a check and its reservation as one step (which is what `QuotaFlow`
shows under the user's lock) and works out windows and verdicts; `Usage` follows
the statements that record; `Plans` takes what a plan says as opaque.

### UserLock, UserMutex

`UserLock` has one action per atomic step of `lock.go`: `FindUserLock` and
`CreateUserLock` are `getUserLock` under `lm.mu`; `AddWaiter` is the
`atomic.AddInt64` after it; `TryLock` is a tick of the polling loop or the only
attempt of `TryAcquireLock`; `GiveUp` is the error path; `Unlock` is `Release` up
to `mu.Unlock()`; `CleanupLock` is its callback. `locks` is `lm.locks`, `waiters`
and `locked` are the fields of the objects; unreachable objects go back to the
allocator, as the garbage collector would do. `AcquireAnonymous` is the no-op
lock of user ID 0.

The window between `AddWaiter` and what precedes it is real, and two goroutines
can get into one user's critical section through it (run `user_lock_race`).
`raced[u]` remembers that the window was hit; everything else is shown to be
sound as long as it was not, and `UserMutex` carries `raced` along, so that the
modules built on it say what they owe to the lock. `UserMutex!Race` may happen
at any time: an over-approximation.

A failed `TryAcquireLock` decrements after its `TryLock`, and the mutex may have
become free in between; that history is the one of a "block" call whose context
ends, which the model has.

### Reservations, ReservationLedger

Sections under `rm.mu` are atomic. The CompareAndSwap of `Release` is a step of
its own outside `rm.mu`, its cleanup another one under it. A sum holds `rm.mu`
for reading and visits one reservation per step, so releases fall between its
reads. `wanted` says that somebody still has the handle or the UUID, `aged` that
`createdAt` is before the cutoff. The addition wraps at `MaxInt`, as int64 does.
`Ledger` is the refinement mapping: `issued` (what was ever reserved), `open`
(what `GetReservation` finds), `pending` (bytes per user and type).

### QuotaFlow

Two kinds of calls under the user's lock, a check (`BeginCheck`, `ReadConfig`,
`ReadPolicy`, `ReadPlan`, `ReadUsage`, `Decide`, `Reserve`, `Unlock`) and a
completion (`BeginCompletion`, `Lookup`, `ReleaseReservation`, `RecordUsage` or
`RecordFails`, `Unlock`), each read or write of shared state a step; and what does
not take the lock: `RecordDirectly` (events without a UUID), `CallerReleases`,
`SetPolicy`, `SetOwnLimit`, `SetPlan`, `SetPlanLimit`, `Expire` (time and
`CleanupOldRecords`), `LockRaces`, `Restart`. Sums of usage are counters.

Decisions taken in the model:

* a limit of 0 is "no limit" (`limit_resolver.go`); negative limits are refused
  when a configuration is written and do not occur;
* windows of limits are fixed: `Expire` moves usage out of them, but a change of a
  window's definition is not modelled;
* the verdicts of THRESHOLD, ALLOWANCE and UNLIMITED are left open (either way,
  with or without a reservation): nothing is claimed for users who had them
  (`soft`);
* an event's user and type are those of the reservation it names, its size is
  any; UUIDs are never drawn twice; they survive a restart in the portal, the
  reservations do not;
* the usage detail is one write; the daily total, which no check reads, is not
  modelled here;
* `Minus` is uint64 subtraction and `Int64` the conversion of a size before it is
  reserved; the code guards the one by a comparison, and `Reserve` refuses what the other has
  made negative (`Reservations` has that guard, and its run asks for such sizes);
* `covered`, `charged`, `claimed`, `soft`, `ownSeen`, `onPlans`, `planSeen` are history:
  no action of the code depends on them.

### Grants

The allowance grants of one user (users share none), SQL statement by statement.
A call of `RecordUsageAndConsume` ("record") is a transaction: `Begin`, `WriteDetail` (the usage
detail), `SelectGrants` (`GetActiveGrantsByTypeLocked` and the comparison with
the total), `TakeNext` (one round of the loop of
`consumeFromGrantsInTransaction`, with its guarded UPDATE), and at last `Commit`;
`ConsumeFails` is an error of `ConsumeFromGrants`. A call of `DeductAllowance` ("deduct") begins the
same way, but its details have no upload ID (`HasUploadID`), so the validation before their
INSERT refuses the first of them and the transaction is rolled back (`RefuseDetail`): it never
comes to the grants, nor to its second and third type. Outside transactions of calls: `AddAllowance`, `DeactivateGrant`,
`UpdateGrant` after `FetchGrant` (`handleUpdateGrant` reads the row in one
transaction and writes it in another), `Expire`.

Decisions taken in the model:

* what a transaction writes is its `draft` until it commits; `holder` are the row
  locks of `SELECT ... FOR UPDATE` and of UPDATE, kept to the end. MySQL does this.
  SQLite ignores the clause, but it has one writer at a time and refuses to
  upgrade a snapshot that is not the latest, so a transaction that read before
  another's commit fails, which is a `Rollback` here;
* a plain SELECT (`FetchGrant`) reads committed rows and waits for nobody;
* an expiry date is `expired`, what the queries ask of it; an administrator may
  write a date that has passed or not (or leave it: `RefuseUpdate` covers a call
  that writes nothing);
* consumption record and UPDATE are one step, as are a retry of a transaction
  and a new `Begin`; `ResetAllowance` is a series of `DeactivateGrant`;
* sums are exact: grants beyond 2^64 bytes in total are not modelled.

### Windows, Limits

`Windows` is `LimitWindow.Validate` and `GetWindowBounds`, in hours, on a calendar
whose days, weeks, months and years are as short as its constants say. Months
are equally long: that `time.Date` normalises dates is taken for granted. A time zone
is its distance from UTC. `WeekBounds` keeps the code's `Truncate`, which rounds in UTC.

`Limits` is the limit resolver (`ApplyPlanLimits`, `ApplyUserLimits`,
`ResolveWithPlan`), the validation of rows and plans, the verdict of each enforcer,
and the figures of the status page. A verdict is "error", "denied", "allowed" or
"warned".

### Policies

One user with one configuration (`Rows`), a clock, and requests that pass, complete
or are released at later hours. `Complete` is a completion: it releases a reservation of n
bytes and records the m bytes of the event, which need not be as many. `RecordEvent` are the
events without a reservation and the shares of anonymous downloads, which no policy is asked
about. `recorded` is what usage sums return; `checked` is history, the part of it that a check has
let pass. `RecordHardLimits`, ..., `RecordAllowance` are the `Record...` methods of the enforcers, which
nothing in the plugin calls, but which the service exports: `RecordAllowance` writes
the detail twice, as the code does. `Period` is written independently of
`GetWindowBounds`, by division; `Regular` names the windows for which the two agree.

### Usage

A call that records is a task: `CreateDetail` is the transaction of
`RecordUserUsageDetail`, then the daily total in one statement on MySQL
(`UpsertMySQL`) or two on SQLite (`UpsertInsert`, `UpsertUpdate`); `DetailFails` and
`DailyFails` are their failures. A shared download goes through its users in any
order, since a Go map or an unordered query gives them. `CheckGroup`, `AskUser` and
`NextRound` are the iteration of the group check, each user's check a step with the
verdict `Limits` gives; `CheckHealth`, `ReadWindows`, `ReadGrants` are the health report, where
users are read in groups of the same window. Usage, the clock (`Tick`) and retention
(`CleanupOldRecords`) move in between; `stirred` remembers that they did.

Decisions taken in the model:

* `recorded` adds details up by user, type and hour: no reader of theirs tells two
  details of the same hour apart;
* uploads and downloads of 0 bytes are refused and not enumerated; the size of an object is
  scaled in exact arithmetic; `AsInt64` is the conversion that is not checked;
* a group check is made for users without reservations: `QuotaFlow` has those;
* `missed` and `cleaned` are history.

### Plans

A transaction is a step that takes the snapshot (MySQL's REPEATABLE READ) and a
step that writes and commits; reads before it are steps of their own. So
`UpdateQuotaPlan` is `BeginUpdate` (the handler's read), `CompareUpdate`, `OpenUpdate`,
`SaveUpdate` and, when limits have changed, `SyncPage` for each page of users;
`DeleteQuotaPlan` is `CountUsers` and the deletion; `SetDefaultQuotaPlan` is `OpenDefault`,
`CommitDefault` and the pages. Users' rows are made, changed and assigned in the ways
the service and the admin API offer, one by one or in a batch that falls back to
one by one. The partial unique index on the default plan is `OneActiveDefault`: a write
that breaks it fails as a whole.

`told` is what the receiver of the events has computed, in the one plugin that
listens; events are handled when they are fired (the dispatch itself is
asynchronous, which adds delay and no other outcome, since a handler reads what
is there when it runs). `silent`, `exposed` and `overtaken` are history, and name the
exceptions to the properties:

* `silent`: users whose limits a step has changed that is known not to be announced to
  them, or whom a synchronisation did not reach. The comment of `ToldIsCurrent` lists the cases.
  For an update of a plan they are computed in `Untold` from what the update changed and from
  what it found when it compared (`seen`), so that a change of limits it should have told of is not among them;
* `exposed`: users who were put on a plan that was gone or on its way out;
* `overtaken`: an update wrote back an `is_default` that had changed since it was read.

## What is checked

Fairness is stated only where liveness is checked. `UserLock!FairSpec`: goroutines
that are not blocked proceed, the polling ticker ticks (weak fairness of
`TryLock`), critical sections end in a deferred `Release`, deadlines expire; a
cancellation may never come and no caller has to call again. `Reservations!FairSpec`:
the winner of a CompareAndSwap runs its deferred cleanup; `sync.RWMutex` blocks
new readers once a writer waits, hence strong fairness for the writer;
`TickingSpec` adds that time passes and the ticker ticks.

| Run | Instance | Shows |
|---|---|---|
| `user_lock` | 2 goroutines, 1 user, 3 objects | Exclusion up to the one window, no leaked entry, mutexes and holders in step, refinement of `UserMutex`, and `FreeLockIsTaken` under `FairSpec`. Two goroutines hit the window when one of them calls twice; a third object is there while two are still pointed to. |
| `user_lock_race` | as `user_lock` | Finds the double entry: `Serialized` is violated. |
| `reservations` | 2 UUIDs, 2 users, 2 types, sizes -1..2, int64 as -4..3 | Both maps agree, nothing held is lost, sums are bracketed, refinement of `ReservationLedger`, and `ReleasedIsForgotten` under `FairSpec`. Two reservations of 2 bytes overflow; -1 is what a larger size turns into as an int64. |
| `reservations_abandoned` | 2 UUIDs | `AbandonedIsForgotten` is violated. |
| `quota_flow` | 2 goroutines, 1 user, 1 type, the default plan, 2 UUIDs, limits {0,1}, 1 byte a request | `WithinLimit`, `ChargedOnce`, `NeverCountedTwice` with everything moving: configuration, plan, windows, callers, restarts, the lock's race. One byte fills the limit, so a second request passes only if something went wrong. Usage recorded directly takes the sum past the limit, where an unguarded remainder would wrap. More users, types, plans and sizes are in the theorems, which hold for all of them. |
| `quota_flow_atomic` | 2 goroutines | `AtomicCompletion` is violated. |
| `grants` | 2 goroutines, 2 administrators, 3 grants (2 of one type with different priorities, 1 of another), bytes 1..2, calls for 2 bytes of the one type or 1 of the other | `RecordIsPaid`, `RowsAsRead`, `NeverOverdrawn`, `PriorityOrder`, `OnlyFromActive`. Two grants of a type are needed to go through them in order and to take from more than one; the third is of the type that must be left alone. Two administrators hold copies of a row that grow old while it is consumed from and written. |
| `usage` | 2 goroutines, 2 users, 4 deployments (MySQL and SQLite, the four policies, limits without a window), 2 calls, 1 failure, two moments on different days, int64 up to 4 | `DailyAgrees`, `StoredIsCovered`, `WholeIsShared`, `GroupIsRight`, `HealthIsBacked`, `GroupShrinks`. Two calls meet in one row; an odd number of bytes is shared by two; one user has less to spare, so that a group shrinks; one object is beyond int64 as it is, one only once it is scaled; one has a limit and no window, so that nobody can tell. |
| `policies` | 13 hours (days of 2 hours, weeks of 2 days, months of 3 days, years of 2 months), 23 configurations, requests and events of 1 and 2 bytes against limits of 2 and 3, 2 requests | `WindowIsPeriod`, `NoPeriodOverLimit`, `StatusAgreesWithCheck`. The clock crosses the end of every kind of window; start hours, time zones and a limit of the user's own over a plan's are among the configurations; two requests of 2 bytes are more than either limit. |
| `plans` | 2 goroutines, 2 users, 2 plans, pages of 1 user, 3 calls, 7 initial states | `OneDefault`, `AssignedPlansStand`, `ToldIsCurrent`, `BatchCovers`. Pages of one user make every synchronisation take several; three calls are what it takes for one to undo another that a third relied on. |
| `plans_stale` | as `plans` | `SavesAreAnnounced` is violated. |
| `plans_skipped` | as `plans` | `PlanUsersAreTold` is violated. |

Bounds: `Objs` (lock objects alive at once), `Ids` (reservations ever made),
`MaxUsage` (direct recordings), `MaxInt`, `Racy` (users whose lock may be lost), `Grants`
(rows ever created), `Offers` and `Asks` (what is granted and asked for at once),
`Moments` and `Hours` (time), `MaxCalls`, `MaxFailures`, `MaxRequests`, `PlanIds` (plans ever
made), `Starts` (initial rows), `Deployments` and `Rows` (configurations tried).
Completion events are repeated without bound. Deadlock is checked in all runs; where
a bound stops a system that would go on, a `Stop` action says so.

### Where code and documentation disagree

1. `user_lock_race`: "operations on the same user's quota are serialized"
   (`internal/lock/manager.go:12-13`). A goroutine between `getUserLock` and `AddInt64`
   (`lock.go:77-78`) is not counted; a release then deletes the entry, and the
   next caller gets another mutex.
2. `reservations_abandoned`: "This prevents memory leaks from abandoned
   reservations" (`internal/reservation/manager.go:66-67`). Only released
   reservations are cleaned up; an abandoned one stays, and stays pending.
3. `quota_flow_atomic`: "handles reservation release and usage recording
   atomically" (`event_listeners.go:25`). A failed recording is logged and
   dropped after the release.
4. `plans_stale`: "Check if limit-affecting fields changed before syncing users"
   (`quota.go:523`). They are compared outside the transaction that saves. An update that found
   nothing changed may save old limits over those another update has saved and announced
   since, and tells nobody.
5. `plans_skipped`: "fires QuotaPlanChanged asynchronously for all users assigned to the
   given plan" (`quota.go:420`). The users are read by OFFSET, a page at a time
   (`quota.go:429-434`); one who was told and leaves the plan moves the others up, and one of
   them is skipped.

Some more statements are formulas of the modules that no run checks, because the code
does not keep them. Put in the place of the properties of `Policies.cfg`, `Plans.cfg` or
`Grants.cfg`, each of them has a counterexample:

* `LimitsAreStrict`: "Strict limits blocking operations when exceeded" (`README.md:8`).
  Completion records the size of the event (`event_listeners.go:71`; for a pin, the scaled size,
  `280-284`), not the size that was checked and reserved; events without a UUID (`213`, `247`,
  `300`) and shares of anonymous downloads (`managers/usage.go:343-371`) are recorded unchecked.
* `AllowedInWindow`: "Number of bytes allowed in this window" (`core/types.go:371`). A week,
  month or year that starts at a later hour begins in the future until that hour
  (`core/types.go:333`, `344`, `355`): it holds no usage, and the check lets the limit pass again.
* `NotOverAllocated`: pending bytes are "used during quota checks to prevent
  over-allocation" (`core/reservation.go:38`). The allowance check does not ask for them
  (`policies/allowance.go:48`), so reservations pass that together exceed the grants.
* `NeverTwoDefaults`: "This ensures never more than one default" (`quota.go:685`).
  `UpdateQuotaPlan` saves the row of its snapshot (`quota.go:549`), `is_default` included. If it makes
  the plan inactive as well, the unique index, which counts active defaults, accepts a second
  marked row.
* `DeletedIsUnassigned`: "plan %d has %d users assigned, cannot delete" (`quota.go:597`). The
  users are counted before the transaction that deletes; one who is assigned in between
  stays on a deleted plan.
* `RemainingIsCalculated`: "bytes_remaining must equal bytes - bytes_used"
  (`db/models/errors.go:30`). `UpdateAllowanceGrant` writes `Bytes` and `ExpiryDate`
  only (`grant.go:519-522`), so what is added to a grant can never be consumed.

### What else was met on the way

No run and no formula refutes a statement of the repository here, but the models had to
follow the code in ways a reader may not expect.

* No deduction ever succeeds: the details `DeductAllowance` creates (`quota.go:1117`, `1137`, `1156`)
  have no `UploadID`, which `UserUsageDetail.validate` refuses
  (`db/models/user_usage_detail.go:53-55`), so that its transaction is rolled back with an error
  (`RefuseDetail`).
* A limit of the user's own without a window of its own has none, although the
  field is documented as falling back to the plan's (`db/models/user_quota_config.go:15`,
  `applyUserLimits`): HARD_LIMITS then fails, THRESHOLD counts no usage.
* Weeks in a zone other than UTC may begin a day early. `Regular` leaves them, and the windows
  of `AllowedInWindow`, out of `WindowIsPeriod` and `NoPeriodOverLimit`.
* Usage that "never resets" (LIFETIME) is reset as `CleanupOldRecords` deletes details.
* The default plan can be deleted: `BeforeDelete` sees an empty struct. Until
  another is chosen, users without a plan cannot be resolved.
* `UpdateQuotaPlan` saves the row as it was read: besides what `NeverTwoDefaults` says, it can
  bring a deleted plan back. `SetDefaultQuotaPlan` saves rows of its snapshot and can write back that a plan was deleted (`exposed`).
* Assigning a user to a plan or removing one fires no event, nor does a change of
  the default plan's limits for users who have no plan of their own, nor an update that turns a
  plan on or off and leaves its limits (`silent`).
* Pages are read without ORDER BY; the model takes the order of the rows, which
  both databases give in practice. `UpdateQuotaPlan` does not copy the exclusion from
  health reports that `handleUpdatePlan` fills in.
* A group check fails with an error when a share rounds down to 0 bytes, and when
  the check of a single pinner fails, say that of a user under HARD_LIMITS who has a limit
  without a window: one such row fails the check for everybody who pins the content
  (`GroupIsRight` says both, see `CannotTell`). A health report leaves out users who have no row, for
  whom a group check makes one. Its window groups are keyed by printed pointers, so
  that users of equal windows need not share a query: slower, not wrong.
* Sizes are converted from uint64 to int64 unchecked when objects are pinned with
  redundancy metadata, and the sum of pending bytes wraps.
* An error of `ConsumeFromGrants` for the upload or the download part of `DeductAllowance` is not
  added to the transaction (`quota.go:1148-1151`, `1167-1170`). It never comes to that, but it
  would once the details had an upload ID.
* Nothing in the plugin calls `DeductAllowance` or the enforcers' `Record...` methods: what
  an allowance check lets through is never taken from grants, and
  `RecordUsageAndConsume` followed by the allowance enforcer's own recording writes
  the usage twice. `applyLimit` and `applyLimitWithOptions` have no caller,
  `Reconcile` is a placeholder.
* Grants made or raised through the API add the three kinds of bytes of a request
  into one grant. A user's own thresholds are not compared with limits. A UNIQUE
  failure of any kind counts as a duplicate name.

## What is proved

Every invariant and every action property of the passing runs is a theorem, for
every value of the constants, and so are both refinements. Eight modules hold the
proofs; TLAPS checks all of them from nothing.

`SumTheorems`, for any finite set: what `SumFunctionOnSet` of the community modules
adds up, one element after the other, is the number of its units, pairs of an x in
the set and one of 1..f[x] (`SumCountsUnits`); what sums do (a union, a part, one element
more, one that changes) then follows from cardinalities. The step that needs
induction is `SubsetInduction`: what holds of a set once it holds of its proper subsets
holds of all, with a set of sets in the place of the predicate. It follows from the
well-foundedness of the strict subset ordering, which the library states without an
operator parameter.

`UserLockProofs`, for any finite set of goroutines, any users and objects: the
type invariant (`TypeCorrect`), `Exclusion`, `NoLeak`, `LockedIsHeld`, and that `UserLock` implements
`UserMutex` (`Refinement`). Neither property is inductive by itself. `LockInv` adds:
what a goroutine's program counter says of its pointer (`Pointers`); entries are
not shared between users, and whoever points to an entry's object works for its
user (`EntryOwner`); until a user is raced, every live pointer for it is to its
entry (`Attached`) and the entry's `waiters` is exactly the number of goroutines
that count in it (`WaitersExact`); afterwards `waiters` can be too small but never
too large (`WaitersBound`), which is why an entry is deleted early rather than
leaked; and a locked mutex has one holder (`OneHolderPerMutex`). Exclusion follows
because two holders of an unraced user would hold one mutex; the absence of
leaks because an entry's counter cannot stay above zero without a goroutine that
is counted. Assumed: `LockAssumption` (finitely many goroutines, nil is
no object, 0 is no user).

`QuotaFlowProofs`, for any number of goroutines, users, types of usage, plans,
UUIDs and any limits (`FlowAssumption`: sizes and limits are naturals, 0 is a
limit, only users race, the marker values are no values of another kind; no set
need be finite): `TypeCorrect`, `LimitHolds`, `CompletionCharges`, `CountedOnce`.
The invariant `FlowInv` follows the bytes of a request through the code:

* `HeldCounted`: the ledger's pending number, which the code sums up on demand, is the number of bytes held
  (`HeldBytes` is a set of pairs of a reservation and an index, so that a sum is
  a cardinality and needs no induction);
* `Locked`: while the lock of a user has not raced, a call that is past its lock
  is the only one for that user (lemma `Alone`); it is why the usage a check has read is still at least what is
  covered when it decides;
* `Room`: what a check in flight has decided fits under a limit the user has had,
  on top of what is held and covered. `WithinLimit` is `Room` without a check.
  Bytes go from `Room` to pending (`Reserve`), from pending back to the completion's
  room (`ReleaseReservation`) and from there to what is covered (`RecordUsage`),
  and none of the three steps makes their sum larger;
* `ChargeOrder`, `FirstCharge`, `ChargedOnce`, `Resolved`: a completion that found its
  reservation is the one that releases it, and whoever comes later finds none;
* `History`, `CoveredIsUsage`: what was seen only grows, what is covered is part of
  the usage a sum returns.

Neither `WithinLimit` nor `ChargedOnce` is inductive: a state may satisfy them with
two checks of one user past their decision, or with a completion holding a
reservation that another has charged. `CountedOnce` needs no lock, and its proof
says so: it holds for raced users too.

`ReservationsProofs`, for any users and finitely many reservations: `TypeCorrect`,
`MapsAgree`, `HeldStaysFound`, `SumsAreBracketed`, `LedgerIsImplemented`.

* `ResInv` says what `IndexAgrees` says reservation by reservation (`IndexFits`), which
  removal from both maps preserves (`UnindexFits`, once for the cleanup of a winner and for
  the ticker). `HeldIsFound` is inductive with the fact, in `TypeOK`, that only released
  reservations wait for a cleanup.
* `SumIsBracketed` says that the total so far plus what is still to be visited and held is
  at least what is held now and at most what was held at the start. `ScanFits` adds that a
  sum only has its own user's reservations to visit: so a visit moves bytes from one part to
  the other, and a release takes them from the second, whoever it belongs to. As
  long as what was held at the start is an int64 (`atStart <= MaxInt`), no addition wraps.
* The refinement is shown action by action: `Reserve`, `Release` (the CompareAndSwap) and `Restart`
  are the ledger's actions; both cleanups, a second `Release` and the steps of a sum are
  stutters (`SameLedger`). `pending` of the ledger is a sum over held reservations, so each
  case says what becomes of that sum.

Assumed: `ReservationsAssumption` (sizes are int64 values), `NoResAssumption` (`NoRes` is no
reservation), `FiniteAssumption` (finitely many UUIDs).

`GrantsProofs`, for any administrators and finitely many goroutines and grants: `TypeCorrect`,
`RowsStayAsRead`, `PriorityIsKept`, `OnlyActiveAreUsed`, `GrantsCover`, `RecordsArePaid`. `GrantsInv` adds how far a call has
come (`Stage`); that a locked row is of the type its holder asked for, and is
active (`LocksHeld`); that nobody takes from a row that is not locked or more than it
has (`DraftsCovered`); and what the loop has done with the rows it read (`RowsAtHand`).

`NeverOverdrawn` compares a row with the drafts of all transactions. `Booked` is what
carries it: used and remaining bytes together are within the grant, and the copies that
administrators have read, however old, are not below them, or `UpdateGrant` could write
a grant smaller than what has been used of it. Row locks leave at most one draft that takes
from a row, and it takes no more than what remains (`DraftsCovered`), so the sum over all
transactions is that one draft. `RecordIsPaid` is about the end of a call;
`RecordFine` follows it: what a call has
taken and what is left to take make up what it was asked for, and the rows it has yet to
go through suffice, so that it cannot run out of rows with something left to take.

`PlansProofs`, for any goroutines and finitely many users and plans: `TypeCorrect`, `DefaultIsOne`, `PlansStand`,
`ResolvedHaveRows`, `ToldInTheEnd`. `PlansInv` adds what a call knows by the place it is at (`TasksFine`: a
plan it has found may be deleted but does not vanish; the users a batch has gone
through have rows); that a user on a plan who is not exposed is on one that
nobody is about to delete (`Standing`); and that some row is marked as the default
(`DefaultThere`). The unique index says at most one among the active, so it is exactly one
while marked rows are active and no update has written back a stale marker: `DefaultIsOne`
claims no more, and `NeverTwoDefaults` fails otherwise. `ToldIsCurrent` is about the moments when no announcement is under way; `ToldOrDue` says at any
moment that a user who is not silent has been told what is true, or that some call still
has to tell them (`Announces`): it fires the event, or it goes through pages and has not come
to the user's place (`Rank`) yet. The users of a full page are as many as the offset
grows by, and a page that is not full is the last, so nobody is skipped as
long as nobody joins or leaves the plan meanwhile (`stirred`). `SavesFresh` says of an update that is to tell nobody that the terms it found
when it compared are those it will save: if it changes limits all the same, then over another's (run `plans_stale`). Assumed: `PlansAssumption`, `RowAssumption` (finitely many users and plans, numbered
from 1; plan 1 exists).

`UsageProofs`, for any finite sets of users, goroutines and hours and any amounts and limits
(`UsageAssumption`, `FiniteAssumption`):
`GroupComesToAnEnd`, `TypesAreKept`, `SharesAreWhole`, `DailyTotalsAgree`, `StoredBytesAreCovered`,
`GroupChecksAreRight`, `ReportsAreBacked`.

* `RoundInv`: the users a round has kept and those it has yet to ask are disjoint and together
  no more than the count the shares were computed with. When nobody is left to ask and fewer
  were kept than counted, the next round has fewer users; otherwise one user fewer is left
  to ask. So the check asks at most about n(n+1)/2 times, whatever is recorded meanwhile: it is
  not liveness, which needs fairness, but the bound it rests on.
* `Typed`: the type invariant, and what the fields of a task hold at each place.
* `Shares`: of a shared download, the users charged, those whose detail failed and
  those to come make up the count it was divided by; shares are one share each, so the whole
  follows by multiplication, and rounding, down or up, misses it by less than a byte for each.
* `Balance`: for each user and type, daily totals, what tasks are about to write there and
  what failures lost (`Accounted`) are what was recorded and what retention removed (`Entered`);
  for storage they are at most that, because removals are clamped at zero. One lemma a
  kind of step: `BalanceCreated`, `BalanceUpserted`, `BalanceInserted`, `BalanceMissed`,
  `BalanceCleaned`. The two statements of SQLite are the case where bytes are neither in
  the row nor lost.
* `GroupInv`: while nothing is recorded, every group that could bear its share is still among the users
  kept or to be asked. Dropping a user who fails is right because shares only grow as groups shrink
  (`ShareGrows`) and because a check that lets n bytes pass lets fewer pass
  (`FewerPass`, from `VerdictIs`, which says what each policy's verdict comes to).
* `HealthInv`: the figure of a report is the sum of `LargestFor` over the users read; that this is the
  largest request the checks would let pass is `LargestIs`, again from `VerdictIs`.

The proof of `GroupIsRight` did not go through as the property first stood: it said that a check
fails only if limits are not resolved or a share is 0 bytes, and a limit without a
window is a third reason. The property says so now (`CannotTell`), and a deployment of
the run has such a user.

`PoliciesProofs`, for any configurations and bytes, and days, weeks, months and
years of any length (`PoliciesAssumption`, `CalendarAssumption`, `NoBoundAssumption`,
`FiniteAssumption`: finitely many hours and request sizes): `TypeCorrect`,
`WindowsArePeriods`, `PeriodsStayInLimits`, `StatusAgrees`. `WindowIsPeriod` is a statement about quotients:
an hour lies in the window of now exactly if dividing either by the length of the period gives
the same number. Division by a constant is characterised once (`DivIs`,
`SameQuotient`), so that the other steps are linear. The two kinds of irregular windows, those that
begin in the future (`AllowedInWindow`) and weeks in a zone other than UTC, are left out, as `Regular` says.

`NoPeriodOverLimit` speaks of every period there ever was and of what checks have let pass in it (what is
recorded is not bounded, see `LimitsAreStrict`). `LimitInv` speaks only of the current one, in
which what has passed and is recorded and what is reserved fit: a request is let through against
recorded usage, which is at least that (`CheckedIsRecorded`), a completion moves no more bytes than it releases, and a tick either stays in the period (`WindowHolds`) or
starts one whose usage is zero, since nothing is recorded ahead (`NothingAhead`). A period
that is over does not change any more.
`StatusAgreesWithCheck` is a comparison of two functions of one state, policy by policy.

Left to TLC: the liveness properties `FreeLockIsTaken` and `ReleasedIsForgotten` (fairness and
ENABLED are beyond the prover), and all violations, which are single behaviours.
Finiteness is assumed where something is added up or counted, and nowhere else; every
set in question is finite in a running process.

## Plan

Done: all modules, with a theorem for every safety property that a run checks and for both
refinements. What would come next, in this order:

1. Further properties of the abstract specifications (of `ReservationLedger`: bytes once
   released are never pending again), proved once and carried over by the refinements.
2. Totals and estimates of health reports, if they come to be relied upon.

## Not modelled

* Plugin wiring, configuration loading, metrics, migrations, generated mocks, test
  data: no state of the quota system.
* Listings, histories, statistics, burn rate and the estimated exhaustion of a CID: reads
  for display, of which only the status page's figures and the health report's
  remaining bytes are modelled.
* SQL itself: a statement or a transaction is one step or two, its failure an
  alternative. SQLite's single writer is the case where fewer steps interleave.
* The floating-point arithmetic of `CalculateScaledSize` and the parsing of redundancy
  metadata: the model scales exactly.
* Time zones with daylight saving, months of different lengths, leap years: they
  are `time.Date`'s.
* The asynchronous dispatch of events, logging, wording of errors, decoding of
  requests.
