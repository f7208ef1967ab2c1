----------------------------- MODULE Reservations -----------------------------
(***************************************************************************)
(* The in-memory reservation manager, internal/reservation/, at the        *)
(* granularity of its locks and atomics: sections under rm.mu are atomic,  *)
(* the CompareAndSwap in Release is a step of its own outside rm.mu, and   *)
(* SumPendingBytesForUser, which holds rm.mu for reading, visits one       *)
(* reservation per step, so that releases fall between its reads.          *)
(***************************************************************************)
EXTENDS Integers, FiniteSets, FiniteSetsExt

CONSTANTS
    Ids,      \* reservation UUIDs
    Users,    \* user IDs other than 0
    Types,    \* UPLOAD, DOWNLOAD, STORAGE_ADD
    Sizes,    \* the byte counts callers ask for
    NoRes,    \* no reservation was made under this UUID
    NoScan,   \* nobody is summing
    MaxInt    \* the largest value of the code's int64

ASSUME ReservationsAssumption ==
    /\ MaxInt \in Nat
    /\ Sizes \subseteq (-MaxInt - 1)..MaxInt

VARIABLES
    object,            \* the userReservation behind a UUID (shared by handles)
    reservations,      \* keys of rm.reservations
    userReservations,  \* rm.userReservations; its domain is the map's keys
    cleaning,          \* won the CompareAndSwap, cleanupReservation to come
    aged,              \* created before time.Now() - cleanupAge
    wanted,            \* somebody still has the handle or the UUID
    scan               \* the SumPendingBytesForUser under way

vars == <<object, reservations, userReservations, cleaning, aged, wanted, scan>>

UserReservation ==
    [user : Users, type : Types, bytes : 1..MaxInt, released : BOOLEAN]

ASSUME NoResAssumption ==
    NoRes \notin UserReservation \cup [user : Users, type : Types, bytes : 1..MaxInt]

ASSUME FiniteAssumption == IsFiniteSet(Ids)

Made(r) == object[r] # NoRes

\* Mutant: bytes count as held until the cleanup.
PendingUntilCleaned(u, t) ==
    {r \in reservations : object[r].user = u /\ object[r].type = t}

\* Reservations of u and t that are neither released nor cleaned up.
Pending(u, t) ==
    {r \in reservations :
        /\ object[r].user = u
        /\ object[r].type = t
        /\ ~object[r].released}

PendingBytes(u, t) == MapThenSumSet(LAMBDA r : object[r].bytes, Pending(u, t))

\* int64 arithmetic.
Wrap(n) == ((n + MaxInt + 1) % (2 * (MaxInt + 1))) - (MaxInt + 1)

TypeOK ==
    /\ object \in [Ids -> UserReservation \cup {NoRes}]
    /\ reservations \subseteq {r \in Ids : Made(r)}
    /\ DOMAIN userReservations \subseteq Users
    /\ \A u \in DOMAIN userReservations : userReservations[u] \subseteq Ids
    /\ cleaning \subseteq {r \in Ids : Made(r) /\ object[r].released}
    /\ aged \subseteq {r \in Ids : Made(r)}
    /\ wanted \subseteq {r \in Ids : Made(r)}
    /\ scan = NoScan \/ scan.todo \subseteq Ids

Init ==
    /\ object = [r \in Ids |-> NoRes]
    /\ reservations = {}
    /\ userReservations = [u \in {} |-> {}]
    /\ cleaning = {}
    /\ aged = {}
    /\ wanted = {}
    /\ scan = NoScan

-----------------------------------------------------------------------------
\* The write side of rm.mu is free.
Writable == scan = NoScan

\* Mutant: any byte count is accepted.
ReserveAnything(r, u, t, n) ==
    /\ Writable
    /\ ~Made(r)
    /\ object' = [object EXCEPT ![r] =
          [user |-> u, type |-> t, bytes |-> n, released |-> FALSE]]
    /\ reservations' = reservations \cup {r}
    /\ userReservations' =
          [v \in DOMAIN userReservations \cup {u} |->
              (IF v \in DOMAIN userReservations THEN userReservations[v] ELSE {})
                  \cup (IF v = u THEN {r} ELSE {})]
    /\ wanted' = wanted \cup {r}
    /\ UNCHANGED <<cleaning, aged, scan>>

\* Reserve: bytes <= 0 is refused, user ID 0 too; a UUID is never drawn twice.
Reserve(r, u, t, n) ==
    /\ Writable
    /\ n > 0
    /\ ~Made(r)
    /\ object' = [object EXCEPT ![r] =
          [user |-> u, type |-> t, bytes |-> n, released |-> FALSE]]
    /\ reservations' = reservations \cup {r}
    /\ userReservations' =
          [v \in DOMAIN userReservations \cup {u} |->
              (IF v \in DOMAIN userReservations THEN userReservations[v] ELSE {})
                  \cup (IF v = u THEN {r} ELSE {})]
    /\ wanted' = wanted \cup {r}
    /\ UNCHANGED <<cleaning, aged, scan>>

\* Mutant: a user's last entry leaves an empty map behind.
UnindexKeepingEmpty(index, rs) == [u \in DOMAIN index |-> index[u] \ rs]

\* delete(userRes, uuid), and the user's map with its last entry.
Unindex(index, rs) ==
    [u \in {v \in DOMAIN index : ~(index[v] \subseteq rs)} |-> index[u] \ rs]

\* Release, through any handle: the CompareAndSwap from 0 to 1, outside rm.mu.
Release(r) ==
    /\ r \in wanted
    /\ ~object[r].released
    /\ object' = [object EXCEPT ![r].released = TRUE]
    /\ cleaning' = cleaning \cup {r}
    /\ UNCHANGED <<reservations, userReservations, aged, wanted, scan>>

\* Release loses the CompareAndSwap: a no-op.
ReleaseAgain(r) ==
    /\ r \in wanted
    /\ object[r].released
    /\ UNCHANGED vars

\* Mutant: the winner goes home without its cleanup.
CleanupSkipped(r) ==
    /\ Writable
    /\ r \in cleaning
    /\ cleaning' = cleaning \ {r}
    /\ UNCHANGED <<object, reservations, userReservations, aged, wanted, scan>>

\* The winner's onRelease.
CleanupReservation(r) ==
    /\ Writable
    /\ r \in cleaning
    /\ cleaning' = cleaning \ {r}
    /\ reservations' = reservations \ {r}
    /\ userReservations' = Unindex(userReservations, {r})
    /\ UNCHANGED <<object, aged, wanted, scan>>

\* Mutant: the ticker removes old reservations, released or not.
CleanupOldReservations ==
    /\ Writable
    /\ LET stale == reservations \cap aged IN
          /\ reservations' = reservations \ stale
          /\ userReservations' = Unindex(userReservations, stale)
    /\ UNCHANGED <<object, cleaning, aged, wanted, scan>>

\* A tick of the cleanup loop.
CleanupStaleReservations ==
    /\ Writable
    /\ LET stale == {r \in reservations : object[r].released /\ r \in aged} IN
          /\ reservations' = reservations \ stale
          /\ userReservations' = Unindex(userReservations, stale)
    /\ UNCHANGED <<object, cleaning, aged, wanted, scan>>

\* A reservation gets older than cleanupAge.
Age(r) ==
    /\ Made(r)
    /\ aged' = aged \cup {r}
    /\ UNCHANGED <<object, reservations, userReservations, cleaning, wanted, scan>>

\* Its last handle and its UUID are lost, as when a client goes away.
Abandon(r) ==
    /\ r \in wanted
    /\ wanted' = wanted \ {r}
    /\ UNCHANGED <<object, reservations, userReservations, cleaning, aged, scan>>

\* SumPendingBytesForUser takes rm.mu for reading and looks up the user's map.
StartSum(u, t) ==
    /\ scan = NoScan
    /\ scan' = [user |-> u, type |-> t, total |-> 0,
                atStart |-> PendingBytes(u, t),
                todo |-> IF u \in DOMAIN userReservations
                         THEN userReservations[u] ELSE {}]
    /\ UNCHANGED <<object, reservations, userReservations, cleaning, aged, wanted>>

\* Mutant: the loop forgets the usage type.
AddToSumAnyType(r) ==
    /\ scan # NoScan
    /\ r \in scan.todo
    /\ scan' = [scan EXCEPT
          !.todo = @ \ {r},
          !.total = IF r \in reservations /\ ~object[r].released
                    THEN Wrap(@ + object[r].bytes)
                    ELSE @]
    /\ UNCHANGED <<object, reservations, userReservations, cleaning, aged, wanted>>

\* One iteration: the released flag is loaded while Release may change it.
AddToSum(r) ==
    /\ scan # NoScan
    /\ r \in scan.todo
    /\ scan' = [scan EXCEPT
          !.todo = @ \ {r},
          !.total = IF r \in reservations /\ object[r].type = scan.type
                                          /\ ~object[r].released
                    THEN Wrap(@ + object[r].bytes)
                    ELSE @]
    /\ UNCHANGED <<object, reservations, userReservations, cleaning, aged, wanted>>

\* The sum is returned and rm.mu given up.
EndSum ==
    /\ scan # NoScan
    /\ scan.todo = {}
    /\ scan' = NoScan
    /\ UNCHANGED <<object, reservations, userReservations, cleaning, aged, wanted>>

\* A new process starts with an empty manager; clients still know old UUIDs.
Restart ==
    /\ reservations' = {}
    /\ userReservations' = [u \in {} |-> {}]
    /\ cleaning' = {}
    /\ wanted' = {}
    /\ scan' = NoScan
    /\ UNCHANGED <<object, aged>>

Next ==
    \/ \E r \in Ids, u \in Users, t \in Types, n \in Sizes : Reserve(r, u, t, n)
    \/ \E r \in Ids :
          \/ Release(r)
          \/ ReleaseAgain(r)
          \/ CleanupReservation(r)
          \/ Age(r)
          \/ Abandon(r)
          \/ AddToSum(r)
    \/ CleanupStaleReservations
    \/ \E u \in Users, t \in Types : StartSum(u, t)
    \/ EndSum
    \/ Restart

Spec == Init /\ [][Next]_vars

\* The winner of a CompareAndSwap runs on to its cleanup, and a sum to its end.
\* sync.RWMutex lets no stream of readers keep a writer out: hence strong
\* fairness for the writer.
Fairness ==
    /\ \A r \in Ids : SF_vars(CleanupReservation(r)) /\ WF_vars(AddToSum(r))
    /\ WF_vars(EndSum)

FairSpec == Spec /\ Fairness

\* Time passes and the ticker ticks as well.
TickingSpec ==
    /\ FairSpec
    /\ \A r \in Ids : WF_vars(Age(r))
    /\ SF_vars(CleanupStaleReservations)

-----------------------------------------------------------------------------
\* What GetReservation finds under a UUID.
GetReservation(r) == r \in reservations /\ ~object[r].released

open == {r \in Ids : GetReservation(r)}

issued ==
    [r \in Ids |-> IF Made(r)
                   THEN [user |-> object[r].user, type |-> object[r].type,
                         bytes |-> object[r].bytes]
                   ELSE NoRes]

pending == [u \in Users |-> [t \in Types |-> PendingBytes(u, t)]]

Ledger == INSTANCE ReservationLedger WITH Sizes <- {n \in Sizes : n > 0}

\* Whatever races with whatever (several goroutines releasing one reservation,
\* the cleanup of the winner, the ticker, a sum), bytes are held exactly from
\* Reserve to the first Release.
ImplementsLedger == Ledger!LedgerSpec

\* The per-user index and the main map name the same reservations, each under
\* the user it was made for, and a user with none has no map left
\* (cleanupReservation and cleanupStaleReservations both remove from both).
IndexAgrees ==
    /\ UNION {userReservations[u] : u \in DOMAIN userReservations} = reservations
    /\ \A u \in DOMAIN userReservations :
          /\ userReservations[u] # {}
          /\ \A r \in userReservations[u] : object[r].user = u

\* A reservation that somebody may still complete is found by its UUID until
\* it is released, however old it gets: no cleanup takes it away early.
HeldIsFound ==
    \A r \in wanted : ~object[r].released => GetReservation(r)

\* While a sum is under way, what it has added up and what it still has to visit
\* lie between the bytes held now and those held when it started: releases that
\* fall between its reads never make it miss a reservation that is still held.
\* (As long as the bytes held fit an int64: Wrap.)
SumIsBracketed ==
    scan # NoScan /\ scan.atStart <= MaxInt =>
        LET ahead == MapThenSumSet(LAMBDA r : object[r].bytes,
                                   Pending(scan.user, scan.type) \cap scan.todo)
        IN  /\ PendingBytes(scan.user, scan.type) <= scan.total + ahead
            /\ scan.total + ahead <= scan.atStart

\* A released reservation leaves the maps without any help of the ticker
\* (cleanupReservation), however many sums keep rm.mu busy.
ReleasedIsForgotten ==
    \A r \in Ids :
        (r \in reservations /\ object[r].released) ~> r \notin reservations

\* "This prevents memory leaks from abandoned reservations" (manager.go:65-67):
\* a reservation nobody can release any more leaves the maps.
AbandonedIsForgotten ==
    \A r \in Ids :
        (r \in reservations /\ r \notin wanted) ~> r \notin reservations
=============================================================================
