---------------------------- MODULE UserLockProofs ----------------------------
(***************************************************************************)
(* Proofs about the lock manager for any number of goroutines and users.   *)
(***************************************************************************)
EXTENDS UserLock, FiniteSetTheorems, TLAPS

\* Type correctness of the lock table, the userLock objects and the goroutines; what it says
\* of a goroutine's pointer is named once more, to be cited without the rest.
TypeInv == TypeOK /\ Pointers

LEMMA TypeInvInit == Init => TypeInv
  BY LockAssumption DEF Init, TypeInv, TypeOK, Pointers, Pointing, Counted, Modes

LEMMA TypeInvStep == TypeInv /\ [Next]_vars => TypeInv'
<1> SUFFICES ASSUME TypeInv, [Next]_vars PROVE TypeInv'
  OBVIOUS
<1> USE LockAssumption DEF TypeInv, TypeOK, Pointers, Pointing, Counted, Modes
<1>1. ASSUME NEW p \in Procs, AcquireAnonymous(p) PROVE TypeInv'
  BY <1>1 DEF AcquireAnonymous
<1>2. ASSUME NEW p \in Procs, NEW u \in Users, NEW m \in Modes, FindUserLock(p, u, m)
      PROVE TypeInv'
  BY <1>2 DEF FindUserLock
<1>3. ASSUME NEW p \in Procs, NEW u \in Users, NEW m \in Modes, NEW o \in Objs,
             CreateUserLock(p, u, m, o)
      PROVE TypeInv'
  BY <1>3 DEF CreateUserLock
<1>4. ASSUME NEW p \in Procs, AddWaiter(p) PROVE TypeInv'
  BY <1>4 DEF AddWaiter
<1>5. ASSUME NEW p \in Procs, TryLock(p) PROVE TypeInv'
  BY <1>5 DEF TryLock
<1>6. ASSUME NEW p \in Procs, GiveUp(p) PROVE TypeInv'
  <2>1. user[p] \in Users /\ obj[p] \in Objs
    BY <1>6 DEF GiveUp
  <2>2. locks' \in [Users -> Objs \cup {NoObj}] /\ raced' \in [Users -> BOOLEAN]
    BY ZenonT(60), <1>6, <2>1 DEF GiveUp, DeleteEntry
  <2>3. QED
    BY <1>6, <2>1, <2>2 DEF GiveUp
<1>7. ASSUME NEW p \in Procs, Unlock(p) PROVE TypeInv'
  BY <1>7 DEF Unlock
<1>8. ASSUME NEW p \in Procs, CleanupLock(p) PROVE TypeInv'
  <2>1. user[p] \in Users /\ locks[user[p]] \in Objs \cup {NoObj}
    BY <1>8 DEF CleanupLock
  <2>2. locks' \in [Users -> Objs \cup {NoObj}] /\ raced' \in [Users -> BOOLEAN]
    BY <1>8, <2>1 DEF CleanupLock, DeleteEntry
  <2>3. waiters' \in [Objs -> Int]
    BY <1>8, <2>1 DEF CleanupLock
  <2>4. QED
    BY <1>8, <2>1, <2>2, <2>3 DEF CleanupLock
<1>9. ASSUME NEW p \in Procs, ReleaseAgain(p) PROVE TypeInv'
  BY <1>9 DEF ReleaseAgain, vars
<1>10. ASSUME NEW p \in Procs, Forget(p) PROVE TypeInv'
  BY <1>10 DEF Forget
<1>11. CASE UNCHANGED vars
  BY <1>11 DEF vars
<1>12. QED
  BY <1>1, <1>2, <1>3, <1>4, <1>5, <1>6, <1>7, <1>8, <1>9, <1>10, <1>11 DEF Next

\* Type correctness of every reachable state of the lock manager.
THEOREM TypeCorrect == Spec => []TypeOK
<1>1. TypeInv => TypeOK
  BY DEF TypeInv
<1>2. QED
  BY <1>1, TypeInvInit, TypeInvStep, PTL DEF Spec

-----------------------------------------------------------------------------
\* The inductive invariant behind exclusion and the absence of leaks.

\* The goroutines that waiters should count for object o.
CountedOn(o) == {p \in Procs : pc[p] \in Counted /\ obj[p] = o}

\* Entries are not shared between users, and a goroutine's pointer to an object
\* in the map is a pointer to its own user's entry.
EntryOwner ==
    \A u \in Users : locks[u] # NoObj =>
        /\ \A v \in Users : locks[v] = locks[u] => v = u
        /\ \A p \in Procs : obj[p] = locks[u] => user[p] = u

\* Without a race every live pointer is the map's, and waiters is exact.
Attached ==
    \A u \in Users : ~raced[u] =>
        \A p \in Procs : pc[p] \in Pointing /\ user[p] = u => obj[p] = locks[u]

WaitersExact ==
    \A u \in Users : ~raced[u] /\ locks[u] # NoObj =>
        waiters[locks[u]] = Cardinality(CountedOn(locks[u]))

\* After a race an entry's waiters may be too small, never too large.
WaitersBound ==
    \A u \in Users : locks[u] # NoObj =>
        waiters[locks[u]] <= Cardinality(CountedOn(locks[u]))

\* The goroutine that locked a mutex is the only one that holds it.
OneHolderPerMutex ==
    \A p \in Procs : pc[p] = "held" /\ obj[p] # NoObj =>
        /\ locked[obj[p]]
        /\ \A q \in Procs : pc[q] = "held" /\ obj[q] = obj[p] => q = p

LockInv ==
    /\ TypeInv
    /\ EntryOwner
    /\ Attached
    /\ WaitersExact
    /\ WaitersBound
    /\ NoEntryLeak
    /\ OneHolderPerMutex

\* Counting goroutines.
LEMMA CardSubset ==
  ASSUME NEW S, S \subseteq Procs
  PROVE  /\ IsFiniteSet(S)
         /\ Cardinality(S) \in Nat
         /\ Cardinality(S) = 0 <=> S = {}
  BY LockAssumption, FS_Subset, FS_CardinalityType, FS_EmptySet

LEMMA CardRemove ==
  ASSUME NEW S, S \subseteq Procs, NEW p \in S
  PROVE  Cardinality(S \ {p}) = Cardinality(S) - 1
  BY CardSubset, FS_RemoveElement

LEMMA CardAdd ==
  ASSUME NEW S, S \subseteq Procs, NEW p \in Procs, p \notin S
  PROVE  Cardinality(S \cup {p}) = Cardinality(S) + 1
  BY CardSubset, FS_AddElement

LEMMA CardOne ==
  ASSUME NEW S, S \subseteq Procs, NEW p \in S, Cardinality(S) <= 1
  PROVE  S = {p}
<1>1. Cardinality(S \ {p}) = Cardinality(S) - 1
  BY CardRemove
<1>2. Cardinality(S \ {p}) = 0
  BY <1>1, CardSubset
<1>3. S \ {p} = {}
  BY <1>2, CardSubset
<1>4. QED
  BY <1>3

LEMMA CountedType ==
  ASSUME NEW o
  PROVE  /\ CountedOn(o) \subseteq Procs
         /\ CountedOn(o)' \subseteq Procs
  BY DEF CountedOn

LEMMA LockInvInit == Init => LockInv
<1> SUFFICES ASSUME Init PROVE LockInv
  OBVIOUS
<1>1. TypeInv
  BY TypeInvInit
<1>2. EntryOwner /\ WaitersExact /\ WaitersBound /\ NoEntryLeak
  BY DEF Init, EntryOwner, WaitersExact, WaitersBound, NoEntryLeak
<1>3. Attached /\ OneHolderPerMutex
  BY DEF Init, Attached, OneHolderPerMutex, Pointing, Counted
<1>4. QED
  BY <1>1, <1>2, <1>3 DEF LockInv

\* Losing a counted goroutine: the common part of GiveUp and CleanupLock.
LEMMA CountedOnLeave ==
  ASSUME NEW p \in Procs, pc[p] \in Counted, NEW mine, mine = obj[p],
         pc'[p] \notin Counted,
         \A q \in Procs \ {p} : pc'[q] = pc[q] /\ obj'[q] = obj[q]
  PROVE  /\ CountedOn(mine)' = CountedOn(mine) \ {p}
         /\ \A o \in Objs \ {mine} : CountedOn(o)' = CountedOn(o)
         /\ Cardinality(CountedOn(mine)') = Cardinality(CountedOn(mine)) - 1
<1>1. /\ CountedOn(mine)' = CountedOn(mine) \ {p}
      /\ \A o \in Objs \ {mine} : CountedOn(o)' = CountedOn(o)
  BY DEF CountedOn
<1>2. p \in CountedOn(mine)
  BY DEF CountedOn
<1>3. QED
  BY <1>1, <1>2, CardRemove, CountedType

\* What waiters would count does not change when nobody enters or leaves the
\* counted states.
LEMMA CountedOnSame ==
  ASSUME \A q \in Procs : pc'[q] \in Counted <=> pc[q] \in Counted,
         \A q \in Procs : pc[q] \in Counted => obj'[q] = obj[q],
         NEW o
  PROVE  CountedOn(o)' = CountedOn(o)
  BY DEF CountedOn

LEMMA GiveUpStep ==
  ASSUME LockInv, NEW p \in Procs, GiveUp(p)
  PROVE  LockInv'
<1>0. PICK o0, u0 : o0 = obj[p] /\ u0 = user[p]
  OBVIOUS
<1> USE DEF LockInv
<1>1. TypeInv /\ TypeInv'
  BY TypeInvStep DEF Next
<1>2. u0 \in Users /\ o0 \in Objs /\ o0 # NoObj /\ pc[p] = "waiting" /\ waiters[o0] \in Int
  BY <1>0, <1>1, LockAssumption DEF TypeInv, TypeOK, Pointers, Pointing, Counted, GiveUp
<1>3. /\ pc'[p] = "idle" /\ obj'[p] = NoObj /\ user'[p] = Anonymous
      /\ \A q \in Procs \ {p} : pc'[q] = pc[q] /\ obj'[q] = obj[q] /\ user'[q] = user[q]
      /\ waiters'[o0] = waiters[o0] - 1
      /\ \A o \in Objs \ {o0} : waiters'[o] = waiters[o]
      /\ locked' = locked
  BY <1>0, <1>1, <1>2 DEF GiveUp, TypeInv, TypeOK
<1>4. /\ CountedOn(o0)' = CountedOn(o0) \ {p}
      /\ \A o \in Objs \ {o0} : CountedOn(o)' = CountedOn(o)
      /\ Cardinality(CountedOn(o0)') = Cardinality(CountedOn(o0)) - 1
  BY <1>0, <1>2, <1>3, CountedOnLeave DEF Counted
<1>5. p \in CountedOn(o0)
  BY <1>0, <1>2 DEF CountedOn, Counted
<1>6. \A u \in Users : locks[u] = o0 => u = u0
  BY <1>0, <1>2, <1>1 DEF EntryOwner
<1>7. \A u \in Users \ {u0} : locks'[u] = locks[u] /\ raced'[u] = raced[u]
  BY <1>0, <1>1, <1>2 DEF GiveUp, DeleteEntry, TypeInv, TypeOK
<1>8. \/ /\ waiters[o0] - 1 > 0
         /\ locks' = locks /\ raced' = raced
      \/ /\ waiters[o0] - 1 <= 0
         /\ locks'[u0] = NoObj
         /\ \/ raced'[u0]
            \/ ~raced[u0] /\ \A q \in Procs : ~(pc[q] = "fetched" /\ user[q] = u0)
  BY <1>0, <1>1, <1>2, SMTT(30) DEF GiveUp, DeleteEntry, TypeInv, TypeOK
<1>9. EntryOwner'
  BY <1>1, <1>3, <1>7, <1>8, <1>2 DEF EntryOwner, TypeInv, TypeOK
<1>10. OneHolderPerMutex'
  BY <1>3 DEF OneHolderPerMutex
<1>11. Attached'
  <2> SUFFICES ASSUME NEW u \in Users, ~raced'[u],
                      NEW q \in Procs, pc'[q] \in Pointing, user'[q] = u
               PROVE  obj'[q] = locks'[u]
    BY DEF Attached
  <2>1. q # p /\ pc[q] \in Pointing /\ user[q] = u /\ obj'[q] = obj[q]
    BY <1>3 DEF Pointing, Counted
  <2>2. CASE locks'[u] = locks[u]
    BY <1>7, <1>8, <2>1, <2>2 DEF Attached
  <2>3. CASE locks'[u] # locks[u]
    <3>1. u = u0 /\ ~raced[u0] /\ waiters[o0] - 1 <= 0 /\ pc[q] # "fetched"
      BY <1>7, <1>8, <2>1, <2>3
    <3>2. locks[u0] = o0 /\ obj[q] = o0
      BY <1>0, <1>2, <2>1, <3>1 DEF Attached, Pointing, Counted
    <3>3. Cardinality(CountedOn(o0)) <= 1
      BY <1>2, <3>1, <3>2 DEF WaitersExact
    <3>4. q \in CountedOn(o0)
      BY <2>1, <3>1, <3>2 DEF CountedOn, Pointing
    <3>5. QED
      BY <1>5, <2>1, <3>3, <3>4, CardOne, CountedType
  <2>4. QED
    BY <2>2, <2>3
<1>12. ASSUME NEW u \in Users, NEW o, o = locks'[u], o # NoObj
      PROVE  /\ locks[u] = o /\ o \in Objs
             /\ waiters[o] \in Int
             /\ waiters'[o] - waiters[o] = Cardinality(CountedOn(o)') - Cardinality(CountedOn(o))
             /\ u = u0 => waiters[o0] - 1 > 0
             /\ ~raced'[u] => ~raced[u]
  <2>1. /\ locks[u] = o /\ o \in Objs /\ waiters[o] \in Int
        /\ u = u0 => waiters[o0] - 1 > 0
        /\ ~raced'[u] => ~raced[u]
    BY <1>1, <1>7, <1>8, <1>12 DEF TypeInv, TypeOK
  <2>2. Cardinality(CountedOn(o)) \in Nat
    BY CountedType, CardSubset
  <2>3. CASE o = o0
    <3>1. /\ waiters'[o] = waiters[o] - 1
          /\ Cardinality(CountedOn(o)') = Cardinality(CountedOn(o)) - 1
      BY <1>3, <1>4, <2>3 DEF CountedOn
    <3>2. QED
      BY <2>1, <2>2, <3>1
  <2>4. CASE o # o0
    <3>1. waiters'[o] = waiters[o] /\ CountedOn(o)' = CountedOn(o)
      BY <1>3, <1>4, <2>1, <2>4
    <3>2. QED
      BY <2>1, <2>2, <3>1
  <2>5. QED
    BY <2>3, <2>4
<1>13. WaitersExact'
  <2> SUFFICES ASSUME NEW u \in Users, ~raced'[u], NEW o, o = locks'[u], o # NoObj
               PROVE  waiters'[o] = Cardinality(CountedOn(o)')
    BY DEF WaitersExact, CountedOn
  <2>1. waiters[o] = Cardinality(CountedOn(o))
    BY <1>12 DEF WaitersExact
  <2>2. Cardinality(CountedOn(o)) \in Nat /\ Cardinality(CountedOn(o)') \in Nat
    BY CountedType, CardSubset
  <2>3. waiters'[o] \in Int
    BY <1>1, <1>12 DEF TypeInv, TypeOK
  <2>4. QED
    BY <1>12, <2>1, <2>2, <2>3
<1>14. ASSUME NEW u \in Users, NEW o, o = locks'[u], o # NoObj
      PROVE  waiters'[o] <= Cardinality(CountedOn(o)')
  <2>1. waiters[o] <= Cardinality(CountedOn(o))
    BY <1>12, <1>14 DEF WaitersBound
  <2>2. Cardinality(CountedOn(o)) \in Nat /\ Cardinality(CountedOn(o)') \in Nat
    BY CountedType, CardSubset
  <2>3. waiters'[o] \in Int
    BY <1>1, <1>12, <1>14 DEF TypeInv, TypeOK
  <2>4. QED
    BY <1>12, <1>14, <2>1, <2>2, <2>3
<1>15. WaitersBound'
  BY <1>14 DEF WaitersBound, CountedOn
<1>16. NoEntryLeak'
  <2> SUFFICES ASSUME NEW u \in Users, NEW o, o = locks'[u], o # NoObj
               PROVE  \E q \in Procs : pc'[q] \in Pointing /\ user'[q] = u /\ obj'[q] = o
    BY DEF NoEntryLeak
  <2>1. PICK q \in Procs : pc[q] \in Pointing /\ user[q] = u /\ obj[q] = o
    BY <1>12 DEF NoEntryLeak
  <2>2. CASE q # p
    BY <1>3, <2>1, <2>2
  <2>3. CASE q = p
    <3>1. u = u0 /\ o = o0 /\ waiters'[o] >= 1
      BY <1>0, <1>2, <1>3, <1>12, <2>1, <2>3
    <3>2. PICK r : r \in CountedOn(o)'
      <4>1. /\ waiters'[o] <= Cardinality(CountedOn(o)')
            /\ waiters'[o] \in Int
        BY <1>1, <1>12, <1>14 DEF TypeInv, TypeOK
      <4>2. Cardinality(CountedOn(o)') # 0 /\ CountedOn(o)' \subseteq Procs
        BY <3>1, <4>1, CountedType
      <4>3. CountedOn(o)' # {}
        BY <4>2, CardSubset
      <4>4. QED
        BY <4>3
    <3>3. r \in Procs \ {p} /\ pc[r] \in Counted /\ obj[r] = o
      BY <1>3, <3>2 DEF CountedOn, Counted
    <3>4. QED
      BY <1>3, <1>12, <3>3 DEF EntryOwner, Pointing
  <2>4. QED
    BY <2>2, <2>3
<1>17. QED
  BY <1>1, <1>9, <1>10, <1>11, <1>13, <1>15, <1>16

LEMMA CleanupLockStep ==
  ASSUME LockInv, NEW p \in Procs, CleanupLock(p)
  PROVE  LockInv'
<1>0. PICK o0, u0, ul : o0 = obj[p] /\ u0 = user[p] /\ ul = locks[u0]
  OBVIOUS
<1> USE DEF LockInv
<1>1. TypeInv /\ TypeInv'
  BY TypeInvStep DEF Next
<1>2. /\ u0 \in Users /\ o0 \in Objs /\ o0 # NoObj /\ pc[p] = "unlocked"
      /\ ul \in Objs \cup {NoObj}
      /\ ul # NoObj => waiters[ul] \in Int
  BY <1>0, <1>1, LockAssumption
     DEF TypeInv, TypeOK, Pointers, Pointing, Counted, CleanupLock
<1>3. /\ pc'[p] = "released"
      /\ \A q \in Procs \ {p} : pc'[q] = pc[q]
      /\ obj' = obj /\ user' = user /\ locked' = locked
  BY <1>0, <1>1, <1>2 DEF CleanupLock, TypeInv, TypeOK
<1>4. /\ CountedOn(o0)' = CountedOn(o0) \ {p}
      /\ \A o \in Objs \ {o0} : CountedOn(o)' = CountedOn(o)
      /\ Cardinality(CountedOn(o0)') = Cardinality(CountedOn(o0)) - 1
  BY <1>0, <1>2, <1>3, CountedOnLeave DEF Counted
<1>5. p \in CountedOn(o0)
  BY <1>0, <1>2 DEF CountedOn, Counted
<1>6. \A u \in Users \ {u0} : locks'[u] = locks[u] /\ raced'[u] = raced[u]
  BY <1>0, <1>1, <1>2 DEF CleanupLock, DeleteEntry, TypeInv, TypeOK
<1>7. \/ ul = NoObj /\ waiters' = waiters /\ locks' = locks /\ raced' = raced
      \/ /\ ul # NoObj /\ waiters' = [waiters EXCEPT ![ul] = waiters[ul] - 1]
         /\ \/ /\ waiters[ul] - 1 > 0
               /\ locks' = locks /\ raced' = raced
            \/ /\ waiters[ul] - 1 <= 0
               /\ locks'[u0] = NoObj
               /\ \/ raced'[u0]
                  \/ ~raced[u0] /\ \A q \in Procs : ~(pc[q] = "fetched" /\ user[q] = u0)
  BY <1>0, <1>1, <1>2, SMTT(30) DEF CleanupLock, DeleteEntry, TypeInv, TypeOK
<1>8. EntryOwner'
  BY <1>1, <1>3, <1>6, <1>7, <1>2 DEF EntryOwner, TypeInv, TypeOK
<1>9. OneHolderPerMutex'
  BY <1>3 DEF OneHolderPerMutex
<1>10. Attached'
  <2> SUFFICES ASSUME NEW u \in Users, ~raced'[u],
                      NEW q \in Procs, pc'[q] \in Pointing, user'[q] = u
               PROVE  obj'[q] = locks'[u]
    BY DEF Attached
  <2>1. q # p /\ pc[q] \in Pointing /\ user[q] = u /\ obj'[q] = obj[q]
    BY <1>3 DEF Pointing, Counted
  <2>2. CASE locks'[u] = locks[u]
    BY <1>6, <1>7, <2>1, <2>2 DEF Attached
  <2>3. CASE locks'[u] # locks[u]
    <3>1. u = u0 /\ ~raced[u0] /\ ul # NoObj /\ waiters[ul] - 1 <= 0 /\ pc[q] # "fetched"
      BY <1>6, <1>7, <2>1, <2>3
    <3>2. ul = o0 /\ obj[q] = o0
      BY <1>0, <1>2, <2>1, <3>1 DEF Attached, Pointing, Counted
    <3>3. Cardinality(CountedOn(o0)) <= 1
      <4>1. waiters[ul] = Cardinality(CountedOn(ul))
        BY <1>0, <1>2, <3>1 DEF WaitersExact
      <4>2. QED
        BY <1>2, <3>1, <3>2, <4>1
    <3>4. q \in CountedOn(o0)
      BY <2>1, <3>1, <3>2 DEF CountedOn, Pointing
    <3>5. QED
      BY <1>5, <2>1, <3>3, <3>4, CardOne, CountedType
  <2>4. QED
    BY <2>2, <2>3
<1>11. ASSUME NEW u \in Users, NEW o, o = locks'[u], o # NoObj
       PROVE  /\ locks[u] = o /\ o \in Objs
              /\ waiters[o] \in Int /\ waiters'[o] \in Int
              /\ ~raced'[u] => ~raced[u]
              /\ u = u0 => o = ul /\ waiters'[o] = waiters[o] - 1 /\ waiters'[o] >= 1
              /\ u # u0 => /\ o # ul /\ o # o0 /\ waiters'[o] = waiters[o]
                           /\ CountedOn(o)' = CountedOn(o)
  <2>1. /\ locks[u] = o /\ o \in Objs /\ waiters[o] \in Int /\ waiters'[o] \in Int
        /\ ~raced'[u] => ~raced[u]
    BY <1>1, <1>6, <1>7, <1>11 DEF TypeInv, TypeOK
  <2>2. CASE u = u0
    BY <1>0, <1>1, <1>2, <1>7, <1>11, <2>1, <2>2 DEF TypeInv, TypeOK
  <2>3. CASE u # u0
    <3>1. o # ul /\ o # o0
      BY <1>0, <1>2, <1>11, <2>1, <2>3 DEF EntryOwner
    <3>2. waiters'[o] = waiters[o] /\ CountedOn(o)' = CountedOn(o)
      BY <1>1, <1>4, <1>7, <2>1, <3>1 DEF TypeInv, TypeOK
    <3>3. QED
      BY <2>1, <2>3, <3>1, <3>2
  <2>4. QED
    BY <2>2, <2>3
<1>12. WaitersExact'
  <2> SUFFICES ASSUME NEW u \in Users, ~raced'[u], NEW o, o = locks'[u], o # NoObj
               PROVE  waiters'[o] = Cardinality(CountedOn(o)')
    BY DEF WaitersExact, CountedOn
  <2>1. waiters[o] = Cardinality(CountedOn(o)) /\ ~raced[u]
    BY <1>11 DEF WaitersExact
  <2>2. CASE u = u0
    <3>1. o = o0
      BY <1>0, <1>2, <1>11, <2>1, <2>2 DEF Attached, Pointing, Counted
    <3>2. Cardinality(CountedOn(o)') = Cardinality(CountedOn(o)) - 1
      BY <1>4, <3>1 DEF CountedOn
    <3>3. QED
      BY <1>11, <2>1, <2>2, <3>2
  <2>3. CASE u # u0
    BY <1>11, <2>1, <2>3
  <2>4. QED
    BY <2>2, <2>3
<1>13. ASSUME NEW u \in Users, NEW o, o = locks'[u], o # NoObj
       PROVE  waiters'[o] <= Cardinality(CountedOn(o)')
  <2>1. waiters[o] <= Cardinality(CountedOn(o))
    BY <1>11, <1>13 DEF WaitersBound
  <2>2. Cardinality(CountedOn(o)) \in Nat /\ Cardinality(CountedOn(o)') \in Nat
    BY CountedType, CardSubset
  <2>3. \/ Cardinality(CountedOn(o)') = Cardinality(CountedOn(o)) - 1
        \/ CountedOn(o)' = CountedOn(o)
    <3>1. CASE o = o0
      BY <1>4, <3>1 DEF CountedOn
    <3>2. CASE o # o0
      <4>1. o \in Objs
        BY <1>11, <1>13
      <4>2. QED
        BY <1>4, <3>2, <4>1
    <3>3. QED
      BY <3>1, <3>2
  <2>4. CASE u = u0
    <3>1. waiters[o] \in Int /\ waiters'[o] = waiters[o] - 1
      BY <1>11, <1>13, <2>4
    <3>2. Cardinality(CountedOn(o)') >= Cardinality(CountedOn(o)) - 1
      BY <2>2, <2>3
    <3>3. QED
      BY <2>1, <2>2, <3>1, <3>2
  <2>5. CASE u # u0
    <3>1. waiters'[o] = waiters[o] /\ CountedOn(o)' = CountedOn(o)
      BY <1>11, <1>13, <2>5
    <3>2. Cardinality(CountedOn(o)') = Cardinality(CountedOn(o))
      BY <3>1
    <3>3. QED
      BY <2>1, <3>1, <3>2
  <2>6. QED
    BY <2>4, <2>5
<1>14. WaitersBound'
  BY <1>13 DEF WaitersBound, CountedOn
<1>15. NoEntryLeak'
  <2> SUFFICES ASSUME NEW u \in Users, NEW o, o = locks'[u], o # NoObj
               PROVE  \E q \in Procs : pc'[q] \in Pointing /\ user'[q] = u /\ obj'[q] = o
    BY DEF NoEntryLeak
  <2>1. PICK q \in Procs : pc[q] \in Pointing /\ user[q] = u /\ obj[q] = o
    BY <1>11 DEF NoEntryLeak
  <2>2. CASE u # u0
    BY <1>0, <1>3, <2>1, <2>2
  <2>3. CASE u = u0
    <3>1. PICK r : r \in CountedOn(o)'
      <4>1. Cardinality(CountedOn(o)') # 0 /\ CountedOn(o)' \subseteq Procs
        BY <1>11, <1>13, <2>3, CountedType
      <4>2. CountedOn(o)' # {}
        BY <4>1, CardSubset
      <4>3. QED
        BY <4>2
    <3>2. r \in Procs \ {p} /\ pc[r] \in Counted /\ obj[r] = o
      BY <1>3, <3>1 DEF CountedOn, Counted
    <3>3. QED
      BY <1>3, <1>11, <3>2 DEF EntryOwner, Pointing
  <2>4. QED
    BY <2>2, <2>3
<1>16. QED
  BY <1>1, <1>8, <1>9, <1>10, <1>12, <1>14, <1>15

\* Entering with the entry that is in the map, or with a new one.
LEMMA FindUserLockStep ==
  ASSUME LockInv, NEW p \in Procs, NEW u \in Users, NEW m \in Modes, FindUserLock(p, u, m)
  PROVE  LockInv'
<1>1. TypeInv /\ TypeInv'
  BY TypeInvStep DEF Next, LockInv
<1>2. /\ pc[p] = "idle" /\ pc'[p] = "fetched" /\ obj'[p] = locks[u] /\ user'[p] = u
      /\ \A q \in Procs \ {p} : pc'[q] = pc[q] /\ obj'[q] = obj[q] /\ user'[q] = user[q]
      /\ locks' = locks /\ waiters' = waiters /\ locked' = locked /\ raced' = raced
  BY <1>1 DEF FindUserLock, TypeInv, TypeOK
<1>3. \A o : CountedOn(o)' = CountedOn(o)
  BY <1>2 DEF CountedOn, Counted
<1>4. EntryOwner' /\ Attached' /\ NoEntryLeak' /\ OneHolderPerMutex'
  BY <1>2 DEF LockInv, EntryOwner, Attached, NoEntryLeak, OneHolderPerMutex, Pointing, Counted
<1>5. WaitersExact' /\ WaitersBound'
  <2>1. \A v \in Users : CountedOn(locks[v])' = CountedOn(locks[v])
    BY <1>2, <1>3 DEF CountedOn
  <2>2. QED
    BY <1>2, <2>1 DEF LockInv, WaitersExact, WaitersBound
<1>6. QED
  BY <1>1, <1>4, <1>5 DEF LockInv

LEMMA CreateUserLockStep ==
  ASSUME LockInv, NEW p \in Procs, NEW u \in Users, NEW m \in Modes, NEW o \in Objs,
         CreateUserLock(p, u, m, o)
  PROVE  LockInv'
<1>1. TypeInv /\ TypeInv' /\ o # NoObj
  BY TypeInvStep, LockAssumption DEF Next, LockInv
<1>2. /\ pc[p] = "idle" /\ pc'[p] = "fetched" /\ obj'[p] = o /\ user'[p] = u
      /\ \A q \in Procs \ {p} : pc'[q] = pc[q] /\ obj'[q] = obj[q] /\ user'[q] = user[q]
      /\ locks[u] = NoObj /\ locks'[u] = o
      /\ \A v \in Users \ {u} : locks'[v] = locks[v] /\ locks[v] # o
      /\ \A q \in Procs : obj[q] # o
      /\ waiters'[o] = 0 /\ \A x \in Objs \ {o} : waiters'[x] = waiters[x]
      /\ \A x \in Objs \ {o} : locked'[x] = locked[x]
      /\ raced' = raced
  BY <1>1 DEF CreateUserLock, Reachable, TypeInv, TypeOK
<1>3. EntryOwner'
  <2> SUFFICES ASSUME NEW v \in Users, NEW x, x = locks'[v], x # NoObj
               PROVE  /\ \A w \in Users : locks'[w] = x => w = v
                      /\ \A q \in Procs : obj'[q] = x => user'[q] = v
    BY DEF EntryOwner
  <2>1. CASE v = u
    BY <1>1, <1>2, <2>1
  <2>2. CASE v # u
    BY <1>1, <1>2, <2>2 DEF LockInv, EntryOwner
  <2>3. QED
    BY <2>1, <2>2
<1>4. NoEntryLeak'
  <2> SUFFICES ASSUME NEW v \in Users, locks'[v] # NoObj
               PROVE  \E q \in Procs : pc'[q] \in Pointing /\ user'[q] = v /\ obj'[q] = locks'[v]
    BY DEF NoEntryLeak
  <2>1. CASE v = u
    BY <1>2, <2>1 DEF Pointing
  <2>2. CASE v # u
    <3>1. PICK q \in Procs : pc[q] \in Pointing /\ user[q] = v /\ obj[q] = locks[v]
      BY <1>2, <2>2 DEF LockInv, NoEntryLeak
    <3>2. q # p
      BY <1>2, <3>1 DEF Pointing, Counted
    <3>3. QED
      BY <1>2, <2>2, <3>1, <3>2
  <2>3. QED
    BY <2>1, <2>2
<1>5. OneHolderPerMutex'
  <2> SUFFICES ASSUME NEW q \in Procs, pc'[q] = "held", NEW x, x = obj'[q], x # NoObj
               PROVE  /\ locked'[x]
                      /\ \A r \in Procs : pc'[r] = "held" /\ obj'[r] = x => r = q
    BY DEF OneHolderPerMutex
  <2>1. q # p /\ pc[q] = "held" /\ obj[q] = x /\ x \in Objs \ {o}
    BY <1>1, <1>2 DEF TypeInv, TypeOK
  <2>2. QED
    BY <1>2, <2>1 DEF LockInv, OneHolderPerMutex
<1>6. Attached'
  <2> SUFFICES ASSUME NEW v \in Users, ~raced'[v],
                      NEW q \in Procs, pc'[q] \in Pointing, user'[q] = v
               PROVE  obj'[q] = locks'[v]
    BY DEF Attached
  <2>1. CASE q = p
    BY <1>2, <2>1
  <2>2. CASE q # p
    <3>1. obj[q] = locks[v] /\ obj[q] \in Objs /\ obj'[q] = obj[q]
      BY <1>1, <1>2, <2>2 DEF LockInv, Attached, TypeInv, Pointers
    <3>2. v # u
      BY <1>1, <1>2, <3>1, LockAssumption
    <3>3. QED
      BY <1>2, <3>1, <3>2
  <2>3. QED
    BY <2>1, <2>2
<1>7. CountedOn(o)' = {} /\ \A x \in Objs \ {o} : CountedOn(x)' = CountedOn(x)
  BY <1>2 DEF CountedOn, Counted
<1>8. ASSUME NEW v \in Users, NEW x, x = locks'[v], x # NoObj
      PROVE  /\ x \in Objs /\ waiters'[x] \in Int
             /\ waiters'[x] <= Cardinality(CountedOn(x)')
             /\ ~raced'[v] => waiters'[x] = Cardinality(CountedOn(x)')
  <2>1. x \in Objs /\ waiters'[x] \in Int
    BY <1>1, <1>8 DEF TypeInv, TypeOK
  <2>2. CASE v = u
    <3>1. waiters'[x] = 0 /\ CountedOn(x)' = {}
      BY <1>2, <1>7, <1>8, <2>2 DEF CountedOn
    <3>2. Cardinality({}) = 0
      BY FS_EmptySet
    <3>3. QED
      BY <2>1, <3>1, <3>2
  <2>3. CASE v # u
    <3>1. x = locks[v] /\ x # o /\ waiters'[x] = waiters[x] /\ CountedOn(x)' = CountedOn(x)
      BY <1>2, <1>7, <1>8, <2>1, <2>3
    <3>2. QED
      BY <1>2, <1>8, <2>1, <3>1 DEF LockInv, WaitersExact, WaitersBound
  <2>4. QED
    BY <2>2, <2>3
<1>9. WaitersExact' /\ WaitersBound'
  BY <1>8 DEF WaitersExact, WaitersBound, CountedOn
<1>10. QED
  BY <1>1, <1>3, <1>4, <1>5, <1>6, <1>9 DEF LockInv

LEMMA AddWaiterStep ==
  ASSUME LockInv, NEW p \in Procs, AddWaiter(p)
  PROVE  LockInv'
<1>0. PICK o0 : o0 = obj[p]
  OBVIOUS
<1>1. TypeInv /\ TypeInv' /\ o0 \in Objs
  BY <1>0, TypeInvStep DEF Next, LockInv, TypeInv, Pointers, Pointing, Counted, AddWaiter
<1>2. /\ pc[p] = "fetched" /\ pc'[p] = "waiting"
      /\ \A q \in Procs \ {p} : pc'[q] = pc[q]
      /\ obj' = obj /\ user' = user /\ locks' = locks /\ locked' = locked /\ raced' = raced
      /\ waiters'[o0] = waiters[o0] + 1
      /\ \A x \in Objs \ {o0} : waiters'[x] = waiters[x]
  BY <1>0, <1>1 DEF AddWaiter, TypeInv, TypeOK
<1>3. EntryOwner' /\ Attached' /\ NoEntryLeak' /\ OneHolderPerMutex'
  BY <1>2 DEF LockInv, EntryOwner, Attached, NoEntryLeak, OneHolderPerMutex, Pointing, Counted
<1>4. /\ p \notin CountedOn(o0)
      /\ CountedOn(o0)' = CountedOn(o0) \cup {p}
      /\ \A x \in Objs \ {o0} : CountedOn(x)' = CountedOn(x)
  BY <1>0, <1>2 DEF CountedOn, Counted
<1>5. Cardinality(CountedOn(o0)') = Cardinality(CountedOn(o0)) + 1
  BY <1>4, CardAdd, CountedType
<1>6. ASSUME NEW v \in Users, NEW x, x = locks'[v], x # NoObj
      PROVE  /\ waiters'[x] <= Cardinality(CountedOn(x)')
             /\ ~raced'[v] => waiters'[x] = Cardinality(CountedOn(x)')
  <2>1. /\ x = locks[v] /\ x \in Objs /\ waiters[x] \in Int
        /\ waiters[x] <= Cardinality(CountedOn(x))
        /\ ~raced'[v] => waiters[x] = Cardinality(CountedOn(x))
        /\ Cardinality(CountedOn(x)) \in Nat
    BY <1>1, <1>2, <1>6, CountedType, CardSubset
       DEF LockInv, WaitersExact, WaitersBound, TypeInv, TypeOK
  <2>2. CASE x = o0
    <3>1. /\ waiters'[x] = waiters[x] + 1
          /\ Cardinality(CountedOn(x)') = Cardinality(CountedOn(x)) + 1
      BY <1>2, <1>5, <2>2 DEF CountedOn
    <3>2. QED
      BY <2>1, <3>1
  <2>3. CASE x # o0
    <3>1. waiters'[x] = waiters[x] /\ CountedOn(x)' = CountedOn(x)
      BY <1>2, <1>4, <2>1, <2>3
    <3>2. QED
      BY <2>1, <3>1
  <2>4. QED
    BY <2>2, <2>3
<1>7. WaitersExact' /\ WaitersBound'
  BY <1>6 DEF WaitersExact, WaitersBound, CountedOn
<1>8. QED
  BY <1>1, <1>3, <1>7 DEF LockInv

\* Steps that move a goroutine between counted states or outside them.
LEMMA TryLockStep ==
  ASSUME LockInv, NEW p \in Procs, TryLock(p)
  PROVE  LockInv'
<1>1. TypeInv /\ TypeInv' /\ obj[p] \in Objs
  BY TypeInvStep DEF Next, LockInv, TypeInv, Pointers, Pointing, Counted, TryLock
<1>2. /\ pc[p] = "waiting" /\ pc'[p] = "held"
      /\ \A q \in Procs \ {p} : pc'[q] = pc[q]
      /\ obj' = obj /\ user' = user /\ locks' = locks /\ waiters' = waiters /\ raced' = raced
      /\ ~locked[obj[p]] /\ locked'[obj[p]]
      /\ \A x \in Objs \ {obj[p]} : locked'[x] = locked[x]
  BY <1>1 DEF TryLock, TypeInv, TypeOK
<1>3. EntryOwner' /\ Attached' /\ NoEntryLeak'
  BY <1>2 DEF LockInv, EntryOwner, Attached, NoEntryLeak, Pointing, Counted
<1>4. OneHolderPerMutex'
  BY <1>1, <1>2, LockAssumption DEF LockInv, OneHolderPerMutex, TypeInv, TypeOK
<1>5. \A v \in Users : CountedOn(locks[v])' = CountedOn(locks[v])
  BY <1>2 DEF CountedOn, Counted
<1>6. WaitersExact' /\ WaitersBound'
  BY <1>2, <1>5 DEF LockInv, WaitersExact, WaitersBound
<1>7. QED
  BY <1>1, <1>3, <1>4, <1>6 DEF LockInv

LEMMA UnlockStep ==
  ASSUME LockInv, NEW p \in Procs, Unlock(p)
  PROVE  LockInv'
<1>1. TypeInv /\ TypeInv'
  BY TypeInvStep DEF Next, LockInv
<1>2. /\ pc[p] = "held"
      /\ \A q \in Procs \ {p} : pc'[q] = pc[q]
      /\ obj' = obj /\ user' = user /\ locks' = locks /\ waiters' = waiters /\ raced' = raced
      /\ user[p] = Anonymous => pc'[p] = "released" /\ locked' = locked /\ obj[p] = NoObj
      /\ user[p] # Anonymous => /\ pc'[p] = "unlocked"
                                /\ \A x \in Objs \ {obj[p]} : locked'[x] = locked[x]
  BY <1>1 DEF Unlock, TypeInv, TypeOK, Pointers
<1>3. EntryOwner' /\ Attached'
  BY <1>2, LockAssumption DEF LockInv, EntryOwner, Attached, Pointing, Counted
<1>4. NoEntryLeak'
  BY <1>2, LockAssumption DEF LockInv, NoEntryLeak, Pointing, Counted
<1>5. OneHolderPerMutex'
  BY <1>1, <1>2 DEF LockInv, OneHolderPerMutex, TypeInv, TypeOK
<1>6. \A v \in Users : locks[v] # NoObj => CountedOn(locks[v])' = CountedOn(locks[v])
  BY <1>2 DEF CountedOn, Counted
<1>7. WaitersExact' /\ WaitersBound'
  BY <1>2, <1>6 DEF LockInv, WaitersExact, WaitersBound
<1>8. QED
  BY <1>1, <1>3, <1>4, <1>5, <1>7 DEF LockInv

LEMMA OutsideStep ==
  ASSUME LockInv, NEW p \in Procs, AcquireAnonymous(p) \/ Forget(p)
  PROVE  LockInv'
<1>1. TypeInv /\ TypeInv'
  BY TypeInvStep DEF Next, LockInv
<1>2. /\ \/ pc[p] = "idle" /\ pc'[p] = "held" /\ obj[p] = NoObj /\ user[p] = Anonymous
         \/ pc[p] = "released" /\ pc'[p] = "idle"
      /\ obj'[p] = NoObj /\ user'[p] = Anonymous
      /\ \A q \in Procs \ {p} : pc'[q] = pc[q] /\ obj'[q] = obj[q] /\ user'[q] = user[q]
      /\ locks' = locks /\ waiters' = waiters /\ locked' = locked /\ raced' = raced
  BY <1>1 DEF AcquireAnonymous, Forget, TypeInv, TypeOK, Pointers
<1>3. EntryOwner' /\ Attached' /\ NoEntryLeak' /\ OneHolderPerMutex'
  BY <1>2, LockAssumption
     DEF LockInv, EntryOwner, Attached, NoEntryLeak, OneHolderPerMutex, Pointing, Counted
<1>4. \A v \in Users : locks[v] # NoObj => CountedOn(locks[v])' = CountedOn(locks[v])
  BY <1>2 DEF CountedOn, Counted
<1>5. WaitersExact' /\ WaitersBound'
  BY <1>2, <1>4 DEF LockInv, WaitersExact, WaitersBound
<1>6. QED
  BY <1>1, <1>3, <1>5 DEF LockInv

LEMMA StutterStep ==
  ASSUME LockInv, UNCHANGED vars
  PROVE  LockInv'
<1>1. TypeInv'
  BY TypeInvStep DEF LockInv
<1>2. EntryOwner' /\ Attached' /\ NoEntryLeak' /\ OneHolderPerMutex'
  BY DEF LockInv, EntryOwner, Attached, NoEntryLeak, OneHolderPerMutex, vars
<1>3. WaitersExact' /\ WaitersBound'
  BY DEF LockInv, WaitersExact, WaitersBound, CountedOn, vars
<1>4. QED
  BY <1>1, <1>2, <1>3 DEF LockInv

LEMMA LockInvStep == LockInv /\ [Next]_vars => LockInv'
<1> SUFFICES ASSUME LockInv, [Next]_vars PROVE LockInv'
  OBVIOUS
<1>1. ASSUME NEW p \in Procs, ReleaseAgain(p) PROVE LockInv'
  BY <1>1, StutterStep DEF ReleaseAgain
<1>2. QED
  BY <1>1, FindUserLockStep, CreateUserLockStep, AddWaiterStep, TryLockStep, GiveUpStep,
     UnlockStep, CleanupLockStep, OutsideStep, StutterStep DEF Next

-----------------------------------------------------------------------------

\* Exclusion per user, unless the window between getUserLock and AddInt64 was
\* hit by a deletion of the user's entry (lock.go, acquireWithSetup).
THEOREM Exclusion == Spec => []ExclusiveUnlessRaced
<1>1. LockInv => ExclusiveUnlessRaced
  <2> SUFFICES ASSUME LockInv, NEW u \in Users, ~raced[u],
                      NEW p \in holders[u], NEW q \in holders[u]
               PROVE  p = q
    BY DEF ExclusiveUnlessRaced, Mutex!ExclusiveUnlessRaced
  <2>1. p \in Procs /\ q \in Procs /\ pc[p] = "held" /\ pc[q] = "held"
        /\ user[p] = u /\ user[q] = u
    BY DEF holders
  <2>2. obj[p] = locks[u] /\ obj[q] = locks[u] /\ obj[p] # NoObj
    BY <2>1, LockAssumption DEF LockInv, Attached, TypeInv, Pointers, Pointing, Counted
  <2>3. QED
    BY <2>1, <2>2 DEF LockInv, OneHolderPerMutex
<1>2. QED
  BY <1>1, LockInvInit, LockInvStep, PTL DEF Spec

\* The lock table holds no entry that nobody will clean up (lock.go, cleanupLock).
THEOREM NoLeak == Spec => []NoEntryLeak
<1>1. LockInv => NoEntryLeak
  BY DEF LockInv
<1>2. QED
  BY <1>1, LockInvInit, LockInvStep, PTL DEF Spec

-----------------------------------------------------------------------------
\* The lock manager implements UserMutex.

-----------------------------------------------------------------------------
\* A locked mutex is held by a goroutine.
LockedHasHolder ==
    \A o \in Objs : locked[o] => \E p \in Procs : pc[p] = "held" /\ obj[p] = o

LEMMA LockedHasHolderStep == LockInv /\ LockedHasHolder /\ [Next]_vars => LockedHasHolder'
<1> SUFFICES ASSUME LockInv, LockedHasHolder, [Next]_vars, NEW o \in Objs, locked'[o]
             PROVE  \E p \in Procs : pc'[p] = "held" /\ obj'[p] = o
  BY DEF LockedHasHolder
<1> USE LockAssumption DEF LockInv, TypeInv, TypeOK, Pointers
\* A holder that does not move still holds.
<1>1. ASSUME NEW p \in Procs, locked[o], pc[p] # "held",
             \A q \in Procs \ {p} : pc'[q] = pc[q] /\ obj'[q] = obj[q]
      PROVE  \E q \in Procs : pc'[q] = "held" /\ obj'[q] = o
  BY <1>1 DEF LockedHasHolder
<1>2. ASSUME NEW p \in Procs,
             AcquireAnonymous(p) \/ AddWaiter(p) \/ GiveUp(p) \/ CleanupLock(p) \/ Forget(p)
      PROVE  \E q \in Procs : pc'[q] = "held" /\ obj'[q] = o
  <2>1. locked[o] /\ pc[p] # "held"
    BY <1>2 DEF AcquireAnonymous, AddWaiter, GiveUp, CleanupLock, Forget
  <2>2. \A q \in Procs \ {p} : pc'[q] = pc[q] /\ obj'[q] = obj[q]
    BY <1>2 DEF AcquireAnonymous, AddWaiter, GiveUp, CleanupLock, Forget
  <2>3. QED
    BY <1>1, <2>1, <2>2
<1>3. ASSUME NEW p \in Procs, NEW u \in Users, NEW m \in Modes,
             FindUserLock(p, u, m) \/ \E n \in Objs : CreateUserLock(p, u, m, n)
      PROVE  \E q \in Procs : pc'[q] = "held" /\ obj'[q] = o
  <2>1. locked[o] /\ pc[p] # "held"
    BY <1>3 DEF FindUserLock, CreateUserLock
  <2>2. \A q \in Procs \ {p} : pc'[q] = pc[q] /\ obj'[q] = obj[q]
    BY <1>3 DEF FindUserLock, CreateUserLock
  <2>3. QED
    BY <1>1, <2>1, <2>2
<1>4. ASSUME NEW p \in Procs, TryLock(p)
      PROVE  \E q \in Procs : pc'[q] = "held" /\ obj'[q] = o
  <2>1. CASE o = obj[p]
    BY <1>4, <2>1 DEF TryLock
  <2>2. CASE o # obj[p]
    <3>1. locked[o] /\ pc[p] # "held"
      BY <1>4, <2>2 DEF TryLock
    <3>2. \A q \in Procs \ {p} : pc'[q] = pc[q] /\ obj'[q] = obj[q]
      BY <1>4 DEF TryLock
    <3>3. QED
      BY <1>1, <3>1, <3>2
  <2>3. QED
    BY <2>1, <2>2
<1>5. ASSUME NEW p \in Procs, Unlock(p)
      PROVE  \E q \in Procs : pc'[q] = "held" /\ obj'[q] = o
  <2>1. locked[o] /\ o # obj[p]
    BY <1>5 DEF Unlock, Pointing, Counted
  <2>2. PICK q \in Procs : pc[q] = "held" /\ obj[q] = o
    BY <2>1 DEF LockedHasHolder
  <2>3. q # p
    BY <2>1, <2>2
  <2>4. pc'[q] = "held" /\ obj'[q] = o
    BY <1>5, <2>2, <2>3 DEF Unlock
  <2>5. QED
    BY <2>4
<1>6. CASE UNCHANGED vars \/ \E p \in Procs : ReleaseAgain(p)
  BY <1>6 DEF vars, ReleaseAgain, LockedHasHolder
<1>7. QED
  BY <1>2, <1>3, <1>4, <1>5, <1>6 DEF Next

\* A mutex is locked exactly while one goroutine holds it, raced or not.
THEOREM LockedIsHeld == Spec => []LockedMeansHeld
<1>1. Init => LockedHasHolder
  BY DEF Init, LockedHasHolder
<1>2. ASSUME LockInv, LockedHasHolder, NEW o \in Objs
      PROVE  Cardinality({p \in Procs : pc[p] = "held" /\ obj[p] = o}) = IF locked[o] THEN 1 ELSE 0
  <2> DEFINE S == {p \in Procs : pc[p] = "held" /\ obj[p] = o}
  <2>1. \A p \in S : locked[o] /\ S = {p}
    BY <1>2, LockAssumption DEF LockInv, OneHolderPerMutex
  <2>2. CASE locked[o]
    <3>1. PICK p \in Procs : p \in S
      BY <1>2, <2>2 DEF LockedHasHolder
    <3>2. S = {p}
      BY <2>1, <3>1
    <3>3. Cardinality(S) = 1
      BY <3>2, FS_Singleton
    <3>4. QED
      BY <2>2, <3>3
  <2>3. CASE ~locked[o]
    <3>1. S = {}
      BY <2>1, <2>3
    <3>2. Cardinality(S) = 0
      BY <3>1, FS_EmptySet
    <3>3. QED
      BY <2>3, <3>2
  <2>4. QED
    BY <2>2, <2>3
<1>3. LockInv /\ LockedHasHolder => LockedMeansHeld
  BY <1>2 DEF LockedMeansHeld
<1>4. QED
  BY <1>1, <1>3, LockInvInit, LockInvStep, LockedHasHolderStep, PTL DEF Spec


LEMMA HoldersSame ==
  ASSUME \A q \in Procs, u \in Users :
             (pc'[q] = "held" /\ user'[q] = u) <=> (pc[q] = "held" /\ user[q] = u)
  PROVE  holders' = holders
  BY DEF holders

LEMMA RefineStep ==
  ASSUME LockInv, [Next]_vars
  PROVE  [Mutex!MutexNext]_(Mutex!mutexVars)
<1> USE DEF Mutex!mutexVars
<1>1. TypeInv
  BY DEF LockInv
<1>2. ASSUME NEW p \in Procs, TryLock(p) PROVE Mutex!MutexNext
  <2>0. PICK u0 : u0 = user[p]
    OBVIOUS
  <2>1. u0 \in Users /\ obj[p] \in Objs /\ pc[p] = "waiting" /\ ~locked[obj[p]]
    BY <1>1, <1>2, <2>0 DEF TryLock, TypeInv, Pointers, Pointing, Counted
  <2>2. user' = user /\ raced' = raced /\ pc'[p] = "held"
        /\ \A q \in Procs \ {p} : pc'[q] = pc[q]
    BY <1>1, <1>2 DEF TryLock, TypeInv, TypeOK
  <2>3. p \notin holders[u0]
    BY <2>1 DEF holders
  <2>4. holders[u0] = {} \/ raced[u0]
    <3> SUFFICES ASSUME ~raced[u0], NEW q \in holders[u0] PROVE FALSE
      OBVIOUS
    <3>1. q \in Procs /\ pc[q] = "held" /\ user[q] = u0
      BY <2>1 DEF holders
    <3>2. obj[q] = locks[u0] /\ obj[p] = locks[u0]
      BY <2>0, <2>1, <3>1 DEF LockInv, Attached, Pointing, Counted
    <3>3. QED
      BY <2>1, <3>1, <3>2, LockAssumption DEF LockInv, OneHolderPerMutex
  <2>5. holders' = [holders EXCEPT ![u0] = @ \cup {p}]
    BY <2>0, <2>1, <2>2 DEF holders
  <2>6. QED
    BY <2>1, <2>2, <2>3, <2>4, <2>5 DEF Mutex!MutexNext, Mutex!Acquire
<1>3. ASSUME NEW p \in Procs, Unlock(p)
      PROVE  Mutex!MutexNext \/ UNCHANGED <<holders, raced>>
  <2>0. PICK u0 : u0 = user[p]
    OBVIOUS
  <2>1. user' = user /\ raced' = raced /\ pc[p] = "held" /\ pc'[p] # "held"
        /\ \A q \in Procs \ {p} : pc'[q] = pc[q]
    BY <1>1, <1>3 DEF Unlock, TypeInv, TypeOK
  <2>2. CASE u0 = Anonymous
    BY <2>0, <2>1, <2>2, HoldersSame, LockAssumption
  <2>3. CASE u0 # Anonymous
    <3>1. u0 \in Users /\ p \in holders[u0]
      BY <1>1, <2>0, <2>1, <2>3 DEF TypeInv, TypeOK, holders
    <3>2. holders' = [holders EXCEPT ![u0] = @ \ {p}]
      BY <2>0, <2>1, <3>1 DEF holders
    <3>3. QED
      BY <2>1, <3>1, <3>2 DEF Mutex!MutexNext, Mutex!Release
  <2>4. QED
    BY <2>2, <2>3
<1>4. ASSUME NEW p \in Procs, GiveUp(p) \/ CleanupLock(p)
      PROVE  Mutex!MutexNext \/ UNCHANGED <<holders, raced>>
  <2>0. PICK u0 : u0 = user[p]
    OBVIOUS
  <2>1. u0 \in Users /\ pc[p] # "held"
    BY <1>1, <1>4, <2>0 DEF GiveUp, CleanupLock, TypeInv, Pointers
  <2>2. pc'[p] # "held" /\ \A q \in Procs \ {p} : pc'[q] = pc[q] /\ user'[q] = user[q]
    BY <1>1, <1>4 DEF GiveUp, CleanupLock, TypeInv, TypeOK
  <2>3. holders' = holders
    BY <2>1, <2>2, HoldersSame
  <2>4. raced' = raced \/ raced' = [raced EXCEPT ![u0] = TRUE]
    BY <1>4, <2>0 DEF GiveUp, CleanupLock, DeleteEntry
  <2>5. QED
    BY <2>1, <2>3, <2>4 DEF Mutex!MutexNext, Mutex!Race
<1>5. ASSUME NEW p \in Procs,
             \/ AcquireAnonymous(p) \/ AddWaiter(p) \/ ReleaseAgain(p) \/ Forget(p)
             \/ \E u \in Users, m \in Modes :
                   \/ FindUserLock(p, u, m)
                   \/ \E o \in Objs : CreateUserLock(p, u, m, o)
      PROVE  UNCHANGED <<holders, raced>>
  <2>1. raced' = raced
    BY <1>5 DEF AcquireAnonymous, AddWaiter, ReleaseAgain, Forget, FindUserLock,
                CreateUserLock, vars
  <2>2. \A q \in Procs \ {p} : pc'[q] = pc[q] /\ user'[q] = user[q]
    BY <1>1, <1>5 DEF AcquireAnonymous, AddWaiter, ReleaseAgain, Forget, FindUserLock,
                      CreateUserLock, vars, TypeInv, TypeOK
  <2>3. /\ pc[p] # "held"
        /\ pc'[p] # "held" \/ user'[p] = Anonymous
    BY <1>1, <1>5 DEF AcquireAnonymous, AddWaiter, ReleaseAgain, Forget, FindUserLock,
                      CreateUserLock, vars, TypeInv, TypeOK, Pointers
  <2>4. holders' = holders
    BY <2>2, <2>3, HoldersSame, LockAssumption
  <2>5. QED
    BY <2>1, <2>4
<1>6. CASE UNCHANGED vars
  BY <1>6 DEF vars, holders
<1>7. QED
  BY <1>2, <1>3, <1>4, <1>5, <1>6 DEF Next

\* Every behaviour of the lock manager is a behaviour of the abstract lock.
THEOREM Refinement == Spec => ImplementsMutex
<1>1. Init => Mutex!MutexInit
  BY LockAssumption DEF Init, Mutex!MutexInit, holders
<1>2. LockInv /\ [Next]_vars => [Mutex!MutexNext]_(Mutex!mutexVars)
  BY RefineStep
<1>3. QED
  BY <1>1, <1>2, LockInvInit, LockInvStep, PTL DEF Spec, ImplementsMutex, Mutex!MutexSpec
=============================================================================
