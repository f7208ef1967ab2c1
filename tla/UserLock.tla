------------------------------- MODULE UserLock -------------------------------
(***************************************************************************)
(* The in-memory lock manager, internal/lock/lock.go, at the granularity   *)
(* of its atomic steps: sections under lm.mu, atomic operations on a       *)
(* userLock, TryLock and Unlock.                                           *)
(*                                                                         *)
(* A goroutine's call runs through                                         *)
(*    idle -> fetched -> waiting -> held -> unlocked -> released -> idle   *)
(* (getUserLock, atomic.AddInt64, TryLock, Unlock, cleanupLock), or leaves *)
(* from "waiting" when its context ends or its only attempt fails.         *)
(***************************************************************************)
EXTENDS Integers, FiniteSets

CONSTANTS
    Procs,      \* goroutines
    Users,      \* user IDs other than 0
    Objs,       \* userLock objects the allocator can hand out
    NoObj,      \* nil: no map entry, no object
    Anonymous   \* user ID 0

ASSUME LockAssumption ==
    /\ IsFiniteSet(Procs)
    /\ NoObj \notin Objs
    /\ Anonymous \notin Users

VARIABLES
    locks,      \* lm.locks: the userLock a user's entry points to, or NoObj
    waiters,    \* userLock.waiters
    locked,     \* state of userLock.mu
    pc,         \* where each goroutine's call stands
    user,       \* the user of the call
    obj,        \* ul, and later the mutex in the Lock handle
    mode,       \* which of the three acquire methods was called
    raced       \* history: the user's entry was deleted while somebody held a
                \* pointer to it that waiters did not count yet

vars == <<locks, waiters, locked, pc, user, obj, mode, raced>>

Modes == {"block", "timeout", "try"}
Counted == {"waiting", "held", "unlocked"}    \* included in waiters
Pointing == Counted \cup {"fetched"}          \* obj is a live pointer

\* A goroutine's call has the lock object it is about to use: no nil pointer.
Pointers ==
    \A p \in Procs :
        /\ pc[p] \in {"fetched", "waiting", "unlocked"} => user[p] \in Users
        /\ pc[p] \in Pointing /\ user[p] \in Users => obj[p] \in Objs
        /\ user[p] = Anonymous => obj[p] = NoObj
        /\ pc[p] = "idle" => user[p] = Anonymous

TypeOK ==
    /\ Pointers
    /\ locks \in [Users -> Objs \cup {NoObj}]
    /\ waiters \in [Objs -> Int]
    /\ locked \in [Objs -> BOOLEAN]
    /\ pc \in [Procs -> Pointing \cup {"idle", "released"}]
    /\ user \in [Procs -> Users \cup {Anonymous}]
    /\ obj \in [Procs -> Objs \cup {NoObj}]
    /\ mode \in [Procs -> Modes]
    /\ raced \in [Users -> BOOLEAN]

Init ==
    /\ locks = [u \in Users |-> NoObj]
    /\ waiters = [o \in Objs |-> 0]
    /\ locked = [o \in Objs |-> FALSE]
    /\ pc = [p \in Procs |-> "idle"]
    /\ user = [p \in Procs |-> Anonymous]
    /\ obj = [p \in Procs |-> NoObj]
    /\ mode = [p \in Procs |-> "block"]
    /\ raced = [u \in Users |-> FALSE]

-----------------------------------------------------------------------------

\* Reachable objects: in the map or in a goroutine's hands.  The garbage
\* collector gives the others back to the allocator.
Reachable(o) ==
    \/ \E u \in Users : locks[u] = o
    \/ \E p \in Procs : obj[p] = o

\* delete(lm.locks, u), and whether it leaves anybody with an uncounted pointer.
DeleteEntry(u) ==
    /\ locks' = [locks EXCEPT ![u] = NoObj]
    /\ raced' = IF \E q \in Procs : pc[q] = "fetched" /\ user[q] = u
                THEN [raced EXCEPT ![u] = TRUE]
                ELSE raced

\* User ID 0 gets a noOpLock: nothing is shared, nothing excludes.
AcquireAnonymous(p) ==
    /\ pc[p] = "idle"
    /\ pc' = [pc EXCEPT ![p] = "held"]
    /\ UNCHANGED <<locks, waiters, locked, user, obj, mode, raced>>

\* getUserLock finds the user's entry ...
FindUserLock(p, u, m) ==
    /\ pc[p] = "idle"
    /\ locks[u] # NoObj
    /\ pc' = [pc EXCEPT ![p] = "fetched"]
    /\ user' = [user EXCEPT ![p] = u]
    /\ mode' = [mode EXCEPT ![p] = m]
    /\ obj' = [obj EXCEPT ![p] = locks[u]]
    /\ UNCHANGED <<locks, waiters, locked, raced>>

\* ... or puts a new one in the map.
CreateUserLock(p, u, m, o) ==
    /\ pc[p] = "idle"
    /\ locks[u] = NoObj
    /\ ~Reachable(o)
    /\ pc' = [pc EXCEPT ![p] = "fetched"]
    /\ user' = [user EXCEPT ![p] = u]
    /\ mode' = [mode EXCEPT ![p] = m]
    /\ obj' = [obj EXCEPT ![p] = o]
    /\ locks' = [locks EXCEPT ![u] = o]
    /\ waiters' = [waiters EXCEPT ![o] = 0]
    /\ locked' = [locked EXCEPT ![o] = FALSE]
    /\ UNCHANGED raced

\* atomic.AddInt64(&ul.waiters, 1), after lm.mu was given up.
AddWaiter(p) ==
    /\ pc[p] = "fetched"
    /\ pc' = [pc EXCEPT ![p] = "waiting"]
    /\ waiters' = [waiters EXCEPT ![obj[p]] = @ + 1]
    /\ UNCHANGED <<locks, locked, user, obj, mode, raced>>

\* Mutant: the attempt does not look at the mutex.
TryLockIgnoringMutex(p) ==
    /\ pc[p] = "waiting"
    /\ pc' = [pc EXCEPT ![p] = "held"]
    /\ locked' = [locked EXCEPT ![obj[p]] = TRUE]
    /\ UNCHANGED <<locks, waiters, user, obj, mode, raced>>

\* ul.mu.TryLock() succeeds: on a tick of the polling loop, or on the only try.
TryLock(p) ==
    /\ pc[p] = "waiting"
    /\ ~locked[obj[p]]
    /\ pc' = [pc EXCEPT ![p] = "held"]
    /\ locked' = [locked EXCEPT ![obj[p]] = TRUE]
    /\ UNCHANGED <<locks, waiters, user, obj, mode, raced>>

\* Mutant: a failed acquire takes its waiter back and forgets the entry.
GiveUpKeepingEntry(p) ==
    /\ pc[p] = "waiting"
    /\ mode[p] = "try" => locked[obj[p]]
    /\ waiters' = [waiters EXCEPT ![obj[p]] = @ - 1]
    /\ pc' = [pc EXCEPT ![p] = "idle"]
    /\ user' = [user EXCEPT ![p] = Anonymous]
    /\ obj' = [obj EXCEPT ![p] = NoObj]
    /\ UNCHANGED <<locks, raced, locked, mode>>

\* Mutant: a failed acquire returns no lock and no error, which the caller takes for a
\* lock it holds.
GiveUpWithoutError(p) ==
    /\ pc[p] = "waiting"
    /\ mode[p] = "try" => locked[obj[p]]
    /\ waiters' = [waiters EXCEPT ![obj[p]] = @ - 1]
    /\ IF waiters[obj[p]] - 1 <= 0
       THEN DeleteEntry(user[p])
       ELSE UNCHANGED <<locks, raced>>
    /\ pc' = [pc EXCEPT ![p] = "held"]
    /\ obj' = [obj EXCEPT ![p] = NoObj]
    /\ UNCHANGED <<locked, user, mode>>

\* The call fails: the context is done, or TryAcquireLock found the mutex
\* taken.  Under lm.mu the waiter is taken back from the object it was added
\* to, and the user's entry, whichever object it holds by now, is deleted.
\* (The mutex may be free again when a failed try gets to lm.mu; that order of
\* events is the one of a "block" call whose context ends.)
GiveUp(p) ==
    /\ pc[p] = "waiting"
    /\ mode[p] = "try" => locked[obj[p]]
    /\ waiters' = [waiters EXCEPT ![obj[p]] = @ - 1]
    /\ IF waiters[obj[p]] - 1 <= 0
       THEN DeleteEntry(user[p])
       ELSE UNCHANGED <<locks, raced>>
    /\ pc' = [pc EXCEPT ![p] = "idle"]
    /\ user' = [user EXCEPT ![p] = Anonymous]
    /\ obj' = [obj EXCEPT ![p] = NoObj]
    /\ UNCHANGED <<locked, mode>>

\* Mutant: Release leaves the mutex locked.
UnlockWithoutMutex(p) ==
    /\ pc[p] = "held"
    /\ pc' = [pc EXCEPT ![p] = IF user[p] = Anonymous THEN "released" ELSE "unlocked"]
    /\ UNCHANGED <<locked, locks, waiters, user, obj, mode, raced>>

\* Release wins the CompareAndSwap and unlocks the mutex of its handle; the
\* noOpLock's Release does nothing.
Unlock(p) ==
    /\ pc[p] = "held"
    /\ IF user[p] = Anonymous
       THEN /\ pc' = [pc EXCEPT ![p] = "released"]
            /\ UNCHANGED locked
       ELSE /\ pc' = [pc EXCEPT ![p] = "unlocked"]
            /\ locked' = [locked EXCEPT ![obj[p]] = FALSE]
    /\ UNCHANGED <<locks, waiters, user, obj, mode, raced>>

\* Mutant: the entry goes while one waiter is left.
CleanupLockTooEarly(p) ==
    /\ pc[p] = "unlocked"
    /\ LET ul == locks[user[p]] IN
       IF ul = NoObj
       THEN UNCHANGED <<locks, waiters, raced>>
       ELSE /\ waiters' = [waiters EXCEPT ![ul] = @ - 1]
            /\ IF waiters[ul] - 1 <= 1
               THEN DeleteEntry(user[p])
               ELSE UNCHANGED <<locks, raced>>
    /\ pc' = [pc EXCEPT ![p] = "released"]
    /\ UNCHANGED <<locked, user, obj, mode>>

\* cleanupLock: the waiter is taken from the user's current entry, which need
\* not be the object that was unlocked.
CleanupLock(p) ==
    /\ pc[p] = "unlocked"
    /\ LET ul == locks[user[p]] IN
       IF ul = NoObj
       THEN UNCHANGED <<locks, waiters, raced>>
       ELSE /\ waiters' = [waiters EXCEPT ![ul] = @ - 1]
            /\ IF waiters[ul] - 1 <= 0
               THEN DeleteEntry(user[p])
               ELSE UNCHANGED <<locks, raced>>
    /\ pc' = [pc EXCEPT ![p] = "released"]
    /\ UNCHANGED <<locked, user, obj, mode>>

\* Mutant: Release without the CompareAndSwap unlocks a second time.
ReleaseTwice(p) ==
    /\ pc[p] = "released"
    /\ user[p] # Anonymous
    /\ locked' = [locked EXCEPT ![obj[p]] = FALSE]
    /\ UNCHANGED <<locks, waiters, pc, user, obj, mode, raced>>

\* Another Release of the same handle loses the CompareAndSwap: no effect.
ReleaseAgain(p) ==
    /\ pc[p] = "released"
    /\ UNCHANGED vars

\* The caller drops the handle.
Forget(p) ==
    /\ pc[p] = "released"
    /\ pc' = [pc EXCEPT ![p] = "idle"]
    /\ user' = [user EXCEPT ![p] = Anonymous]
    /\ obj' = [obj EXCEPT ![p] = NoObj]
    /\ UNCHANGED <<locks, waiters, locked, mode, raced>>

Next ==
    \E p \in Procs :
        \/ AcquireAnonymous(p)
        \/ \E u \in Users, m \in Modes :
              \/ FindUserLock(p, u, m)
              \/ \E o \in Objs : CreateUserLock(p, u, m, o)
        \/ AddWaiter(p)
        \/ TryLock(p)
        \/ GiveUp(p)
        \/ Unlock(p)
        \/ CleanupLock(p)
        \/ ReleaseAgain(p)
        \/ Forget(p)

Spec == Init /\ [][Next]_vars

\* Running goroutines keep running, the polling ticker keeps ticking, critical
\* sections end in a deferred Release, and a deadline expires.  A cancellation
\* without deadline may never come, and nobody is obliged to call again.
Fairness ==
    \A p \in Procs :
        /\ WF_vars(AddWaiter(p))
        /\ WF_vars(TryLock(p) \/ (mode[p] = "try" /\ GiveUp(p)))
        /\ WF_vars(mode[p] = "timeout" /\ GiveUp(p))
        /\ WF_vars(Unlock(p))
        /\ WF_vars(CleanupLock(p))

FairSpec == Spec /\ Fairness

-----------------------------------------------------------------------------
\* The abstract lock: who is between TryLock and Unlock of which user's lock.
holders == [u \in Users |-> {p \in Procs : pc[p] = "held" /\ user[p] = u}]

Mutex == INSTANCE UserMutex

\* Every step is a step of the abstract per-user lock or leaves it unchanged.
ImplementsMutex == Mutex!MutexSpec

\* Exclusion holds for a user unless the window between getUserLock and
\* AddInt64 was hit by a deletion of the entry: no other interleaving of
\* acquire, failure, Unlock and cleanupLock lets two goroutines in.
ExclusiveUnlessRaced == Mutex!ExclusiveUnlessRaced

\* "operations on the same user's quota are serialized" (manager.go:12-13).
Serialized ==
    \A u \in Users : \A p, q \in holders[u] : p = q

\* No map entry outlives its users, however waiters was miscounted: an entry
\* is always in the hands of a goroutine that will still clean up.
NoEntryLeak ==
    \A u \in Users :
        locks[u] # NoObj =>
            \E p \in Procs : pc[p] \in Pointing /\ user[p] = u /\ obj[p] = locks[u]

\* A mutex is locked exactly while one goroutine holds it: neither a failed
\* acquire, nor a second Release, nor a cleanup of somebody else's entry frees
\* or forgets it.
LockedMeansHeld ==
    \A o \in Objs :
        Cardinality({p \in Procs : pc[p] = "held" /\ obj[p] = o}) =
            IF locked[o] THEN 1 ELSE 0

\* A call that keeps waiting for a mutex sees it taken by somebody, or ends: the
\* polling loop (acquireWithSetup) cannot sit on a free mutex for ever, and no
\* Unlock is lost when entries are deleted and created underneath the waiters.
\* Nothing stronger holds: waiters that time out in turn can starve each other.
FreeLockIsTaken ==
    \A p \in Procs, o \in Objs :
        (pc[p] = "waiting" /\ obj[p] = o) ~>
            \/ \E q \in Procs : pc[q] = "held" /\ obj[q] = o
            \/ ~(pc[p] = "waiting" /\ obj[p] = o)
=============================================================================
