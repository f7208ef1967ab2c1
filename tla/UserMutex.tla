------------------------------ MODULE UserMutex ------------------------------
(***************************************************************************)
(* What the rest of the service relies on when it takes a user's lock: one *)
(* holder per user, until the lock table has lost an entry that somebody   *)
(* was about to use.  UserLock, the model of internal/lock/lock.go,        *)
(* implements this specification; QuotaFlow is built on it.                *)
(***************************************************************************)
CONSTANTS
    Procs,   \* goroutines that use the lock manager
    Users    \* user IDs other than 0

VARIABLES
    holders, \* holders[u]: the goroutines inside u's critical section
    raced    \* raced[u]: u's lock entry was dropped under a goroutine's feet

mutexVars == <<holders, raced>>

MutexTypeOK ==
    /\ holders \in [Users -> SUBSET Procs]
    /\ raced \in [Users -> BOOLEAN]

MutexInit ==
    /\ holders = [u \in Users |-> {}]
    /\ raced = [u \in Users |-> FALSE]

\* A goroutine enters u's critical section.
Acquire(p, u) ==
    /\ p \notin holders[u]
    /\ holders[u] = {} \/ raced[u]
    /\ holders' = [holders EXCEPT ![u] = @ \cup {p}]
    /\ UNCHANGED raced

\* A goroutine leaves u's critical section.
Release(p, u) ==
    /\ p \in holders[u]
    /\ holders' = [holders EXCEPT ![u] = @ \ {p}]
    /\ UNCHANGED raced

\* From here on exclusion is lost for u.
Race(u) ==
    /\ raced' = [raced EXCEPT ![u] = TRUE]
    /\ UNCHANGED holders

MutexNext ==
    \E u \in Users :
        \/ Race(u)
        \/ \E p \in Procs : Acquire(p, u) \/ Release(p, u)

MutexSpec == MutexInit /\ [][MutexNext]_mutexVars

\* While a user's lock entry has never been dropped under a goroutine that had
\* just fetched it, at most one goroutine is in the user's critical section
\* (lock.go: acquireLock, Release).
ExclusiveUnlessRaced ==
    \A u \in Users :
        ~raced[u] => \A p, q \in holders[u] : p = q
=============================================================================
