---------------------------- MODULE QuotaFlowProofs ----------------------------
(***************************************************************************)
(* Proofs about the quota flow for any number of goroutines, users, plans, *)
(* reservations and limits.                                                *)
(***************************************************************************)
EXTENDS QuotaFlow, FiniteSetTheorems, TLAPS

\* What a goroutine's program counter says of its call's arguments.
Arguments ==
    \A p \in Procs :
        /\ pc[p] # "idle" => user[p] \in Users /\ type[p] \in Types
        /\ pc[p] = "idle" => user[p] = Nobody
        /\ pc[p] \in {"policy", "plan"} => rowPlan[p] \in Plans
        /\ pc[p] \in CompletionSteps =>
              /\ rsv[p] \in Ids
              /\ issued[rsv[p]] # NoRes
              /\ issued[rsv[p]].user = user[p]
              /\ issued[rsv[p]].type = type[p]

TypeInv == TypeOK /\ Arguments

\* A user's lock is held by the goroutines whose call is about that user.
HoldersCall ==
    \A p \in Procs, u \in Users : p \in holders[u] <=> user[p] = u

Locked == HoldersCall /\ Mutex!ExclusiveUnlessRaced

\* Usage is recorded after the release; UUIDs nobody has reserved are uncharged.
ChargeOrder ==
    /\ \A r \in Ids : issued[r] = NoRes => charged[r] = 0
    /\ \A r \in open : charged[r] = 0
    /\ \A p \in Procs : pc[p] = "record" => rsv[p] \notin open

\* A completion that found its reservation is the first to charge it.
FirstCharge ==
    \A p \in Procs :
        pc[p] \in {"release", "record"} /\ ~raced[user[p]] => charged[rsv[p]] = 0

\* History variables include the present and what a check has read.
History ==
    /\ \A u \in Users :
          /\ policy[u] \/ u \in soft
          /\ plan[u] \in onPlans[u]
          /\ \A t \in Types : own[u][t] \in ownSeen[u][t]
    /\ \A l \in Plans, t \in Types : planLimit[l][t] \in planSeen[l][t]
    /\ \A p \in Procs : pc[p] \in {"policy", "plan"} =>
          /\ rowPlan[p] \in onPlans[user[p]]
          /\ \A t \in Types : row[p][t] \in ownSeen[user[p]][t]

\* The limit a check has resolved is one it may have resolved.
Resolved ==
    \A p \in Procs, u \in Users, t \in Types :
        /\ user[p] = u /\ type[p] = t
        /\ pc[p] \in {"usage", "decide"} \/ (pc[p] = "reserve" /\ u \notin soft)
        => limit[p] \in LimitsSeen(u, t)

\* n more bytes fit under a limit that u has had.
Fits(u, t, n) ==
    \E m \in LimitsSeen(u, t) : m = 0 \/ covered[u][t] + pending[u][t] + n <= m

\* n is what p is about to reserve, or to record after it was released.
Due(p, n) ==
    \/ pc[p] = "reserve" /\ size[p] = n
    \/ pc[p] \in {"release", "record"} /\ rsv[p] \notin open /\ issued[rsv[p]].bytes = n

\* A check has seen what is covered, and there is room for what is due.
RoomAt(p, u, t) ==
    user[p] = u /\ type[p] = t /\ ~raced[u] =>
        /\ pc[p] = "decide" => covered[u][t] <= seen[p]
        /\ u \notin soft => \A n \in Sizes \cup {0} : Due(p, n) => Fits(u, t, n)

Room == \A p \in Procs, u \in Users, t \in Types : RoomAt(p, u, t)

CoveredIsUsage == \A u \in Users, t \in Types : covered[u][t] <= usage[u][t]

\* The n bytes of reservation r.
Block(r, n) == {r} \X (1..n)

\* The bytes held for u and t, each with its reservation.
HeldBytes(u, t) ==
    UNION {Block(r, issued[r].bytes) :
             r \in {q \in open : issued[q].user = u /\ issued[q].type = t}}

\* The bytes that are held can be counted, and pending is their number.
HeldCounted ==
    \A u \in Users, t \in Types :
        /\ IsFiniteSet(HeldBytes(u, t))
        /\ pending[u][t] = Cardinality(HeldBytes(u, t))

FlowInv ==
    /\ TypeInv
    /\ HeldCounted
    /\ Locked
    /\ ChargeOrder
    /\ FirstCharge
    /\ ChargedOnce
    /\ History
    /\ Resolved
    /\ CoveredIsUsage
    /\ Room
    /\ WithinLimit

-----------------------------------------------------------------------------
(* Type correctness.                                                       *)

LEMMA SizesType == \A n \in Sizes \cup {0} : n \in Nat
  BY FlowAssumption

\* What is reserved is what was asked for, as long as int64 leaves it positive.
LEMMA ReserveAsked ==
  ASSUME NEW p \in Procs, NEW r, size[p] \in Sizes \cup {0}, Reserve(p, r)
  PROVE  IF 0 < size[p] /\ size[p] <= MaxInt
         THEN Ledger!Reserve(r, user[p], type[p], size[p])
         ELSE UNCHANGED ledgerVars
<1>1. size[p] \in Nat /\ MaxInt \in Nat
  BY SizesType, FlowAssumption
<1>2. CASE size[p] <= MaxInt
  <2>1. Int64(size[p]) = size[p]
    BY <1>2 DEF Int64
  <2>2. QED
    BY <1>2, <2>1 DEF Reserve
<1>3. CASE ~(size[p] <= MaxInt)
  <2>1. Int64(size[p]) = size[p] - 2 * MaxInt - 2
    BY <1>3 DEF Int64
  <2>2. size[p] <= 2 * MaxInt + 1
    BY <1>1, FlowAssumption
  <2>3. ~(0 < Int64(size[p]))
    BY <1>1, <2>1, <2>2
  <2>4. QED
    BY <1>3, <2>3 DEF Reserve
<1>4. QED
  BY <1>2, <1>3

LEMMA LimitsNat == \A n \in Limits : n \in Nat
  BY FlowAssumption

LEMMA LimitsType ==
  ASSUME TypeInv, NEW p \in Procs, NEW t \in Types, rowPlan[p] \in Plans
  PROVE  /\ Effective(p, t) \in Limits
         /\ Effective(p, t) \in Nat
<1>1. row[p][t] \in Limits /\ planLimit[rowPlan[p]][t] \in Limits
  BY DEF TypeInv, TypeOK
<1>2. Effective(p, t) \in Limits
  BY <1>1 DEF Effective
<1>3. QED
  BY <1>2, FlowAssumption

LEMMA TypeInvInit == Init => TypeInv
<1> SUFFICES ASSUME Init PROVE TypeInv
  OBVIOUS
<1> USE FlowAssumption DEF Init, NoLimits
<1>1. Mutex!MutexTypeOK
  BY DEF Mutex!MutexTypeOK, Mutex!MutexInit
<1>2. Ledger!LedgerTypeOK
  BY DEF Ledger!LedgerTypeOK, Ledger!LedgerInit
<1>3. policy \in [Users -> BOOLEAN]
  OBVIOUS
<1>4. TypeOK
  BY <1>1, <1>2, <1>3 DEF TypeOK, LockedSteps
<1>5. QED
  BY <1>4 DEF TypeInv, Arguments, CompletionSteps

\* A table of tables, updated in one place.
LEMMA UpdateType ==
  ASSUME NEW S, NEW T, NEW V, NEW f \in [S -> [T -> V]],
         NEW s \in S, NEW t \in T, NEW v \in V
  PROVE  [f EXCEPT ![s][t] = v] \in [S -> [T -> V]]
  OBVIOUS

LEMMA ReservationType ==
  ASSUME Ledger!LedgerTypeOK, NEW r \in Ids, issued[r] # NoRes
  PROVE  /\ issued[r].user \in Users
         /\ issued[r].type \in Types
         /\ issued[r].bytes \in Nat \ {0}
<1>1. issued[r] \in Ledger!Reservation
  BY DEF Ledger!LedgerTypeOK
<1>2. /\ issued[r].user \in Users
      /\ issued[r].type \in Types
      /\ issued[r].bytes \in Sizes
      /\ 0 < issued[r].bytes
  BY <1>1 DEF Ledger!Reservation
<1>3. issued[r].bytes \in Nat
  BY <1>2, SizesType
<1>4. QED
  BY <1>2, <1>3

LEMMA LedgerReserveType ==
  ASSUME Ledger!LedgerTypeOK, NEW r \in Ids, NEW u \in Users, NEW t \in Types,
         NEW n \in {m \in Sizes : 0 < m /\ m <= MaxInt}, Ledger!Reserve(r, u, t, n)
  PROVE  /\ Ledger!LedgerTypeOK'
         /\ issued'[r] = [user |-> u, type |-> t, bytes |-> n]
         /\ issued'[r] # NoRes
         /\ \A q \in Ids \ {r} : issued'[q] = issued[q]
<1>1. n \in Nat /\ pending \in [Users -> [Types -> Int]]
  BY FlowAssumption DEF Ledger!LedgerTypeOK
<1>2. pending' \in [Users -> [Types -> Int]]
  <2>1. pending[u][t] + n \in Int
    BY <1>1
  <2>2. pending' = [pending EXCEPT ![u][t] = pending[u][t] + n]
    BY DEF Ledger!Reserve
  <2>3. QED
    BY <1>1, <2>1, <2>2, UpdateType
<1>3. [user |-> u, type |-> t, bytes |-> n] \in Ledger!Reservation
  BY DEF Ledger!Reservation
<1>4. [user |-> u, type |-> t, bytes |-> n] # NoRes
  BY <1>1, FlowAssumption
<1>5. /\ issued' \in [Ids -> Ledger!Reservation \cup {NoRes}]
      /\ issued'[r] = [user |-> u, type |-> t, bytes |-> n]
      /\ \A q \in Ids \ {r} : issued'[q] = issued[q]
  BY <1>3 DEF Ledger!LedgerTypeOK, Ledger!Reserve
<1>6. open' \subseteq {q \in Ids : issued'[q] # NoRes}
  BY <1>4, <1>5 DEF Ledger!LedgerTypeOK, Ledger!Reserve
<1>7. QED
  BY <1>2, <1>4, <1>5, <1>6 DEF Ledger!LedgerTypeOK, Ledger!Reservation

LEMMA LedgerReleaseType ==
  ASSUME Ledger!LedgerTypeOK, NEW r \in Ids, Ledger!Release(r)
  PROVE  Ledger!LedgerTypeOK'
<1>1. issued' = issued /\ open' = open \ {r} /\ issued[r] # NoRes
  BY DEF Ledger!Release
<1>2. pending' \in [Users -> [Types -> Int]]
  <2>1. CASE r \in open
    <3>1. PICK u \in Users, t \in Types, n \in Nat :
             u = issued[r].user /\ t = issued[r].type /\ n = issued[r].bytes
      BY <1>1, ReservationType
    <3>2. pending' = [pending EXCEPT ![u][t] = pending[u][t] - n]
      BY <2>1, <3>1 DEF Ledger!Release
    <3>3. pending \in [Users -> [Types -> Int]] /\ pending[u][t] - n \in Int
      BY DEF Ledger!LedgerTypeOK
    <3>4. QED
      BY <3>2, <3>3, UpdateType
  <2>2. CASE r \notin open
    BY <2>2 DEF Ledger!Release, Ledger!LedgerTypeOK
  <2>3. QED
    BY <2>1, <2>2
<1>3. QED
  BY <1>1, <1>2 DEF Ledger!LedgerTypeOK, Ledger!Reservation

LEMMA TypeInvStep == TypeInv /\ [Next]_vars => TypeInv'
<1> SUFFICES ASSUME TypeInv, [Next]_vars PROVE TypeInv'
  OBVIOUS
<1> USE FlowAssumption
    DEF TypeInv, TypeOK, Arguments, Goto, LockedSteps, CheckSteps, CompletionSteps,
        lockVars, ledgerVars, configVars, usageVars, callVars,
        Mutex!MutexTypeOK, Ledger!LedgerTypeOK
<1>1. ASSUME NEW p \in Procs, Unlock(p) PROVE TypeInv'
  BY <1>1 DEF Unlock, Mutex!Release, NoLimits
<1>2. ASSUME NEW p \in Procs, NEW u \in Users, NEW t \in Types, NEW n \in Sizes,
             BeginCheck(p, u, t, n)
      PROVE  TypeInv'
  BY <1>2 DEF BeginCheck, Mutex!Acquire
<1>3. ASSUME NEW p \in Procs, ReadConfig(p) PROVE TypeInv'
  BY <1>3 DEF ReadConfig
<1>4. ASSUME NEW p \in Procs, ReadPolicy(p) PROVE TypeInv'
  <2>1. PICK step \in {"plan", "reserve", "unlock"} : pc' = [pc EXCEPT ![p] = step]
    BY <1>4 DEF ReadPolicy
  <2>2. QED
    BY <1>4, <2>1 DEF ReadPolicy
<1>5. ASSUME NEW p \in Procs, ReadPlan(p) PROVE TypeInv'
  <2>1. PICK step \in {"usage", "reserve", "unlock"} : pc' = [pc EXCEPT ![p] = step]
    BY <1>5 DEF ReadPlan
  <2>2. limit' \in [Procs -> Nat]
    <3>1. type[p] \in Types /\ rowPlan[p] \in Plans
      BY <1>5 DEF ReadPlan
    <3>2. Effective(p, type[p]) \in Nat
      BY <3>1, LimitsType
    <3>3. limit' = limit \/ limit' = [limit EXCEPT ![p] = Effective(p, type[p])]
      BY <1>5 DEF ReadPlan
    <3>4. limit \in [Procs -> Nat]
      OBVIOUS
    <3>5. HIDE DEF TypeInv, TypeOK, Arguments
    <3>6. QED
      BY <3>2, <3>3, <3>4
  <2>3. QED
    BY ZenonT(60), <1>5, <2>1, <2>2 DEF ReadPlan
<1>6. ASSUME NEW p \in Procs, ReadUsage(p) PROVE TypeInv'
  BY <1>6 DEF ReadUsage
<1>7. ASSUME NEW p \in Procs, Decide(p) \/ CheckFails(p) \/ Lookup(p) \/ RecordFails(p)
      PROVE  TypeInv'
  <2>1. PICK step \in {"reserve", "release", "unlock"} :
           /\ pc' = [pc EXCEPT ![p] = step]
           /\ step = "release" => pc[p] = "lookup"
    BY <1>7 DEF Decide, CheckFails, Lookup, RecordFails
  <2>2. UNCHANGED <<user, type, size, row, rowPlan, limit, seen, rsv,
                    lockVars, ledgerVars, configVars, usageVars>>
    BY <1>7 DEF Decide, CheckFails, Lookup, RecordFails
  <2>3. pc[p] # "idle"
    BY <1>7 DEF Decide, CheckFails, Lookup, RecordFails
  <2>4. QED
    BY <2>1, <2>2, <2>3
<1>8. ASSUME NEW p \in Procs, NEW r \in Ids, Reserve(p, r) PROVE TypeInv'
  <2>0. size[p] \in Sizes \cup {0}
    BY DEF TypeInv, TypeOK
  <2>1. Ledger!LedgerTypeOK'
    <3>1. CASE 0 < size[p] /\ size[p] <= MaxInt
      <4>1. size[p] \in {m \in Sizes : 0 < m /\ m <= MaxInt}
            /\ user[p] \in Users /\ type[p] \in Types
        BY <1>8, <3>1 DEF Reserve
      <4>2. QED
        BY <1>8, <2>0, <3>1, <4>1, LedgerReserveType, ReserveAsked
    <3>2. CASE ~(0 < size[p] /\ size[p] <= MaxInt)
      BY <1>8, <2>0, <3>2, ReserveAsked
    <3>3. QED
      BY <3>1, <3>2
  <2>2. \A q \in Ids : issued[q] # NoRes => issued'[q] = issued[q]
    BY <1>8 DEF Reserve, Ledger!Reserve
  <2>3. QED
    BY <1>8, <2>1, <2>2 DEF Reserve
<1>9. ASSUME NEW p \in Procs, NEW r \in Ids, NEW n \in Sizes, BeginCompletion(p, r, n)
      PROVE  TypeInv'
  BY <1>9 DEF BeginCompletion, Mutex!Acquire, Ledger!Reservation
<1>10. ASSUME NEW p \in Procs, ReleaseReservation(p) PROVE TypeInv'
  <2>1. Ledger!LedgerTypeOK' /\ issued' = issued
    BY <1>10, LedgerReleaseType DEF ReleaseReservation, Ledger!Release
  <2>2. PICK step \in {"record", "unlock"} : pc' = [pc EXCEPT ![p] = step]
    BY <1>10 DEF ReleaseReservation
  <2>3. QED
    BY <1>10, <2>1, <2>2 DEF ReleaseReservation
<1>11. ASSUME NEW p \in Procs, RecordUsage(p) PROVE TypeInv'
  <2>1. user[p] \in Users /\ type[p] \in Types /\ rsv[p] \in Ids /\ size[p] \in Nat
        /\ issued[rsv[p]].bytes \in Nat
    <3>1. user[p] \in Users /\ type[p] \in Types /\ rsv[p] \in Ids
          /\ issued[rsv[p]] # NoRes
      BY <1>11 DEF RecordUsage
    <3>2. issued[rsv[p]].bytes \in Nat
      BY <3>1, ReservationType
    <3>3. size[p] \in Nat
      <4>1. size[p] \in Sizes \cup {0}
        OBVIOUS
      <4>2. QED
        BY <4>1, SizesType
    <3>4. QED
      BY <3>1, <3>2, <3>3
  <2>2. usage' \in [Users -> [Types -> Nat]]
    <3>1. usage[user[p]][type[p]] + size[p] \in Nat
      BY <2>1
    <3>2. QED
      BY <1>11, <2>1, <3>1, UpdateType DEF RecordUsage
  <2>3. covered' \in [Users -> [Types -> Nat]]
    <3>1. Least(size[p], issued[rsv[p]].bytes) \in Nat
      BY <2>1 DEF Least
    <3>2. covered[user[p]][type[p]] + Least(size[p], issued[rsv[p]].bytes) \in Nat
      BY <2>1, <3>1
    <3>3. QED
      BY <1>11, <2>1, <3>2, UpdateType DEF RecordUsage
  <2>4. charged' \in [Ids -> Nat]
    BY <1>11, <2>1 DEF RecordUsage
  <2>5. QED
    BY <1>11, <2>2, <2>3, <2>4 DEF RecordUsage
<1>12. ASSUME NEW u \in Users, NEW t \in Types, NEW n \in Sizes, RecordDirectly(u, t, n)
       PROVE  TypeInv'
  BY <1>12 DEF RecordDirectly
<1>13. ASSUME NEW r \in Ids, CallerReleases(r) PROVE TypeInv'
  <2>1. Ledger!LedgerTypeOK' /\ issued' = issued
    BY <1>13, LedgerReleaseType DEF CallerReleases, Ledger!Release
  <2>2. QED
    BY <1>13, <2>1 DEF CallerReleases
<1>14. ASSUME ConfigStep PROVE TypeInv'
  <2>1. ASSUME NEW u \in Users, NEW hard \in Policies, SetPolicy(u, hard) PROVE TypeInv'
    BY <2>1 DEF SetPolicy
  <2>2. ASSUME NEW u \in Users, NEW t \in Types, NEW n \in Limits, SetOwnLimit(u, t, n)
        PROVE  TypeInv'
    <3>1. ownSeen[u][t] \cup {n} \in SUBSET Limits
      OBVIOUS
    <3>2. own' \in [Users -> [Types -> Limits]]
      BY <2>2, UpdateType DEF SetOwnLimit
    <3>3. ownSeen' \in [Users -> [Types -> SUBSET Limits]]
      BY <2>2, <3>1, UpdateType DEF SetOwnLimit
    <3>4. QED
      BY <2>2, <3>2, <3>3 DEF SetOwnLimit
  <2>3. ASSUME NEW u \in Users, NEW l \in Plans, SetPlan(u, l) PROVE TypeInv'
    BY <2>3 DEF SetPlan
  <2>4. ASSUME NEW l \in Plans, NEW t \in Types, NEW n \in Limits, SetPlanLimit(l, t, n)
        PROVE  TypeInv'
    <3>1. planSeen[l][t] \cup {n} \in SUBSET Limits
      OBVIOUS
    <3>2. planLimit' \in [Plans -> [Types -> Limits]]
      BY <2>4, UpdateType DEF SetPlanLimit
    <3>3. planSeen' \in [Plans -> [Types -> SUBSET Limits]]
      BY <2>4, <3>1, UpdateType DEF SetPlanLimit
    <3>4. QED
      BY <2>4, <3>2, <3>3 DEF SetPlanLimit
  <2>5. QED
    BY <1>14, <2>1, <2>2, <2>3, <2>4 DEF ConfigStep
<1>15. ASSUME NEW u \in Users, NEW t \in Types, Expire(u, t) PROVE TypeInv'
  BY <1>15 DEF Expire
<1>16. ASSUME NEW u \in Racy, LockRaces(u) PROVE TypeInv'
  BY <1>16 DEF LockRaces, Mutex!Race
<1>17. ASSUME Restart PROVE TypeInv'
  BY <1>17 DEF Restart, Ledger!Forget, NoLimits
<1>18. CASE UNCHANGED vars
  BY <1>18 DEF vars
<1>19. QED
  BY <1>1, <1>2, <1>3, <1>4, <1>5, <1>6, <1>7, <1>8, <1>9, <1>10, <1>11, <1>12, <1>13,
     <1>14, <1>15, <1>16, <1>17, <1>18 DEF Next, CallStep

-----------------------------------------------------------------------------
(* Counting what is held.                                                  *)


LEMMA BlockSize ==
  ASSUME NEW r, NEW n \in Nat
  PROVE  IsFiniteSet(Block(r, n)) /\ Cardinality(Block(r, n)) = n
<1>1. IsFiniteSet({r}) /\ Cardinality({r}) = 1
  BY FS_Singleton
<1>2. IsFiniteSet(1..n) /\ Cardinality(1..n) = n
  <2>1. /\ IsFiniteSet(1..n)
        /\ Cardinality(1..n) = IF 1 > n THEN 0 ELSE n - 1 + 1
    BY FS_Interval
  <2>2. QED
    BY <2>1
<1> DEFINE I == 1..n
<1> HIDE DEF I
<1>3. /\ IsFiniteSet({r} \X I)
      /\ Cardinality({r} \X I) = Cardinality({r}) * Cardinality(I)
  BY <1>1, <1>2, FS_Product DEF I
<1>4. QED
  BY <1>1, <1>2, <1>3 DEF I, Block

LEMMA AddBlock ==
  ASSUME NEW S, IsFiniteSet(S), NEW r, NEW n \in Nat, S \cap Block(r, n) = {}
  PROVE  /\ IsFiniteSet(S \cup Block(r, n))
         /\ Cardinality(S \cup Block(r, n)) = Cardinality(S) + n
<1>1. /\ IsFiniteSet(Block(r, n)) /\ Cardinality(Block(r, n)) = n
      /\ Cardinality(S) \in Nat
      /\ Cardinality(S \cap Block(r, n)) = 0
  BY BlockSize, FS_CardinalityType, FS_EmptySet
<1>2. /\ IsFiniteSet(S \cup Block(r, n))
      /\ Cardinality(S \cup Block(r, n)) = Cardinality(S) + n - Cardinality(S \cap Block(r, n))
  BY <1>1, FS_Union
<1>3. QED
  BY <1>1, <1>2

LEMMA RemoveBlock ==
  ASSUME NEW S, IsFiniteSet(S), NEW r, NEW n \in Nat, Block(r, n) \subseteq S
  PROVE  /\ IsFiniteSet(S \ Block(r, n))
         /\ Cardinality(S \ Block(r, n)) = Cardinality(S) - n
<1>1. S \cap Block(r, n) = Block(r, n)
  OBVIOUS
<1>2. Cardinality(Block(r, n)) = n
  BY BlockSize
<1>3. /\ IsFiniteSet(S \ Block(r, n))
      /\ Cardinality(S \ Block(r, n)) = Cardinality(S) - Cardinality(S \cap Block(r, n))
  BY FS_Difference
<1>4. QED
  BY <1>1, <1>2, <1>3

\* A byte belongs to one reservation.
LEMMA BlocksDisjoint ==
  ASSUME NEW q, NEW r, NEW m, NEW n, NEW b, b \in Block(q, m), b \in Block(r, n)
  PROVE  q = r
  BY DEF Block

LEMMA HeldByte ==
  ASSUME NEW u, NEW t, NEW b
  PROVE  b \in HeldBytes(u, t) <=>
            \E q \in open : /\ issued[q].user = u
                           /\ issued[q].type = t
                           /\ b \in Block(q, issued[q].bytes)
  BY DEF HeldBytes, Block

\* Reserving and releasing move exactly the bytes of one reservation.
LEMMA HeldAfterReserve ==
  ASSUME Ledger!LedgerTypeOK, HeldCounted, NEW r \in Ids, NEW u \in Users, NEW t \in Types,
         NEW n \in {m \in Sizes : 0 < m /\ m <= MaxInt}, Ledger!Reserve(r, u, t, n)
  PROVE  HeldCounted'
<1>1. /\ issued'[r] = [user |-> u, type |-> t, bytes |-> n]
      /\ \A q \in Ids \ {r} : issued'[q] = issued[q]
      /\ open' = open \cup {r} /\ r \notin open /\ open \subseteq Ids
      /\ n \in Nat
  BY LedgerReserveType, SizesType DEF Ledger!Reserve, Ledger!LedgerTypeOK
<1>2. \A v \in Users, w \in Types : pending'[v][w] =
         IF v = u /\ w = t THEN pending[v][w] + n ELSE pending[v][w]
  BY DEF Ledger!Reserve, Ledger!LedgerTypeOK
<1>3. SUFFICES ASSUME NEW v \in Users, NEW w \in Types
               PROVE  /\ IsFiniteSet(HeldBytes(v, w)')
                      /\ pending'[v][w] = Cardinality(HeldBytes(v, w)')
  BY DEF HeldCounted
<1>4. IsFiniteSet(HeldBytes(v, w)) /\ pending[v][w] = Cardinality(HeldBytes(v, w))
  BY DEF HeldCounted
<1> DEFINE In(q, b) == /\ issued[q].user = v /\ issued[q].type = w
                       /\ b \in Block(q, issued[q].bytes)
<1>5. \A b : b \in HeldBytes(v, w)' <=>
              \E q \in open' : /\ issued'[q].user = v /\ issued'[q].type = w
                              /\ b \in Block(q, issued'[q].bytes)
  BY DEF HeldBytes, Block
<1>6. \A b : b \in HeldBytes(v, w)' <=>
                \/ \E q \in open : In(q, b)
                \/ v = u /\ w = t /\ b \in Block(r, n)
  <2>1. \A b : (issued'[r].user = v /\ issued'[r].type = w /\ b \in Block(r, issued'[r].bytes)) <=>
                 (v = u /\ w = t /\ b \in Block(r, n))
    BY <1>1
  <2>2. \A q \in open : issued'[q] = issued[q]
    BY <1>1
  <2>3. QED
    BY <1>1, <1>5, <2>1, <2>2, Zenon
<1>7. \A b : b \in HeldBytes(v, w) <=> \E q \in open : In(q, b)
  BY HeldByte
<1>8. CASE v = u /\ w = t
  <2>1. HeldBytes(v, w)' = HeldBytes(v, w) \cup Block(r, n)
    BY <1>6, <1>7, <1>8, Zenon DEF In
  <2>2. HeldBytes(v, w) \cap Block(r, n) = {}
    BY <1>1, <1>7, BlocksDisjoint
  <2>3. /\ IsFiniteSet(HeldBytes(v, w) \cup Block(r, n))
        /\ Cardinality(HeldBytes(v, w) \cup Block(r, n)) = Cardinality(HeldBytes(v, w)) + n
    BY <1>1, <1>4, <2>2, AddBlock
  <2>4. QED
    BY <1>2, <1>4, <1>8, <2>1, <2>3
<1>9. CASE ~(v = u /\ w = t)
  <2>1. HeldBytes(v, w)' = HeldBytes(v, w)
    BY <1>6, <1>7, <1>9, Zenon DEF In
  <2>2. QED
    BY <1>2, <1>4, <1>9, <2>1
<1>10. QED
  BY <1>8, <1>9

LEMMA HeldAfterRelease ==
  ASSUME Ledger!LedgerTypeOK, HeldCounted, NEW r \in Ids, Ledger!Release(r)
  PROVE  HeldCounted'
<1>1. CASE r \notin open
  <2>1. UNCHANGED ledgerVars
    BY <1>1 DEF Ledger!Release, ledgerVars
  <2>2. QED
    BY <2>1 DEF HeldCounted, HeldBytes, ledgerVars
<1>2. CASE r \in open
  <2>1. PICK u \in Users, t \in Types, n \in Nat : issued[r] = [user |-> u, type |-> t, bytes |-> n]
    BY <1>2, SizesType DEF Ledger!LedgerTypeOK, Ledger!Reservation
  <2>2. issued' = issued /\ open' = open \ {r} /\ open \subseteq Ids
    BY DEF Ledger!Release, Ledger!LedgerTypeOK
  <2>3. \A v \in Users, w \in Types : pending'[v][w] =
           IF v = u /\ w = t THEN pending[v][w] - n ELSE pending[v][w]
    BY <1>2, <2>1 DEF Ledger!Release, Ledger!LedgerTypeOK
  <2>4. SUFFICES ASSUME NEW v \in Users, NEW w \in Types
                 PROVE  /\ IsFiniteSet(HeldBytes(v, w)')
                        /\ pending'[v][w] = Cardinality(HeldBytes(v, w)')
    BY DEF HeldCounted
  <2>5. IsFiniteSet(HeldBytes(v, w)) /\ pending[v][w] = Cardinality(HeldBytes(v, w))
    BY DEF HeldCounted
  <2> DEFINE In(q, b) == /\ issued[q].user = v /\ issued[q].type = w
                         /\ b \in Block(q, issued[q].bytes)
  <2>6. \A b : b \in HeldBytes(v, w)' <=> \E q \in open \ {r} : In(q, b)
    BY <2>2 DEF HeldBytes, Block
  <2>7. \A b : b \in HeldBytes(v, w) <=> \E q \in open : In(q, b)
    BY HeldByte
  <2>8. \A b : In(r, b) <=> v = u /\ w = t /\ b \in Block(r, n)
    BY <2>1
  <2>9. \A q, b : In(q, b) /\ b \in Block(r, n) => q = r
    BY BlocksDisjoint
  <2> HIDE DEF In
  <2>10. CASE v = u /\ w = t
    <3>1. Block(r, n) \subseteq HeldBytes(v, w)
      BY <1>2, <2>7, <2>8, <2>10
    <3>2. HeldBytes(v, w)' = HeldBytes(v, w) \ Block(r, n)
      BY <1>2, <2>6, <2>7, <2>8, <2>9, <2>10, Zenon
    <3>3. /\ IsFiniteSet(HeldBytes(v, w) \ Block(r, n))
          /\ Cardinality(HeldBytes(v, w) \ Block(r, n)) = Cardinality(HeldBytes(v, w)) - n
      BY <2>1, <2>5, <3>1, RemoveBlock
    <3>4. QED
      BY <2>3, <2>5, <2>10, <3>2, <3>3
  <2>11. CASE ~(v = u /\ w = t)
    <3>1. HeldBytes(v, w)' = HeldBytes(v, w)
      BY <2>6, <2>7, <2>8, <2>11, Zenon
    <3>2. QED
      BY <2>3, <2>5, <2>11, <3>1
  <2>12. QED
    BY <2>10, <2>11
<1>3. QED
  BY <1>1, <1>2

LEMMA HeldStep == TypeInv /\ HeldCounted /\ [Next]_vars => HeldCounted'
<1> SUFFICES ASSUME TypeInv, HeldCounted, [Next]_vars PROVE HeldCounted'
  OBVIOUS
<1>0. Ledger!LedgerTypeOK
  BY DEF TypeInv, TypeOK
<1>1. CASE UNCHANGED ledgerVars
  BY <1>1 DEF HeldCounted, HeldBytes, ledgerVars
<1>2. ASSUME NEW p \in Procs, NEW r \in Ids, Reserve(p, r) PROVE HeldCounted'
  <2>0. size[p] \in Sizes \cup {0}
    BY DEF TypeInv, TypeOK
  <2>1. CASE 0 < size[p] /\ size[p] <= MaxInt
    <3>1. user[p] \in Users /\ type[p] \in Types
      BY <1>2 DEF TypeInv, Arguments, Reserve
    <3>2. size[p] \in {n \in Sizes : 0 < n /\ n <= MaxInt}
      BY <2>1 DEF TypeInv, TypeOK
    <3>3. Ledger!Reserve(r, user[p], type[p], size[p])
      BY <1>2, <2>0, <2>1, ReserveAsked
    <3>4. QED
      BY <1>0, <3>1, <3>2, <3>3, HeldAfterReserve
  <2>2. CASE ~(0 < size[p] /\ size[p] <= MaxInt)
    BY <1>1, <1>2, <2>0, <2>2, ReserveAsked
  <2>3. QED
    BY <2>1, <2>2
<1>3. ASSUME NEW p \in Procs, ReleaseReservation(p) PROVE HeldCounted'
  <2>1. rsv[p] \in Ids /\ Ledger!Release(rsv[p])
    BY <1>3 DEF TypeInv, Arguments, ReleaseReservation, CompletionSteps
  <2>2. QED
    BY <1>0, <2>1, HeldAfterRelease
<1>4. ASSUME NEW r \in Ids, CallerReleases(r) PROVE HeldCounted'
  BY <1>0, <1>4, HeldAfterRelease DEF CallerReleases
<1>5. CASE Restart
  <2>1. open' = {} /\ pending' = [u \in Users |-> [t \in Types |-> 0]]
    BY <1>5 DEF Restart, Ledger!Forget
  <2>2. \A u \in Users, t \in Types : HeldBytes(u, t)' = {}
    BY <2>1 DEF HeldBytes
  <2>3. QED
    BY <2>1, <2>2, FS_EmptySet DEF HeldCounted
<1>6. CASE UNCHANGED vars
  BY <1>1, <1>6 DEF vars
<1>7. QED
  BY ZenonT(60), <1>1, <1>2, <1>3, <1>4, <1>5, <1>6
     DEF Next, CallStep, ConfigStep, Unlock, BeginCheck, ReadConfig, ReadPolicy, ReadPlan, ReadUsage,
         Decide, CheckFails, BeginCompletion, Lookup, RecordUsage, RecordFails, RecordDirectly,
         SetPolicy, SetOwnLimit, SetPlan, SetPlanLimit, Expire, LockRaces

-----------------------------------------------------------------------------
(* The user's lock.                                                        *)

LEMMA Alone ==
  ASSUME TypeInv, Locked, NEW p \in Procs, NEW q \in Procs,
         user[p] \in Users, user[p] = user[q], ~raced[user[p]]
  PROVE  p = q
BY DEF Locked, HoldersCall, Mutex!ExclusiveUnlessRaced

LEMMA AcquireLocked ==
  ASSUME TypeInv, Locked, NEW p \in Procs, NEW u \in Users,
         pc[p] = "idle", Mutex!Acquire(p, u), user' = [user EXCEPT ![p] = u]
  PROVE  Locked'
<1>1. /\ holders \in [Users -> SUBSET Procs] /\ user \in [Procs -> Users \cup {Nobody}]
      /\ user[p] = Nobody /\ Nobody \notin Users
  BY FlowAssumption DEF TypeInv, TypeOK, Arguments, Mutex!MutexTypeOK
<1>2. HoldersCall'
  BY <1>1 DEF Locked, HoldersCall, Mutex!Acquire
<1>3. Mutex!ExclusiveUnlessRaced'
  BY <1>1 DEF Locked, Mutex!ExclusiveUnlessRaced, Mutex!Acquire
<1>4. QED
  BY <1>2, <1>3 DEF Locked

LEMMA LockedStep == TypeInv /\ Locked /\ [Next]_vars => Locked'
<1> SUFFICES ASSUME TypeInv, Locked, [Next]_vars PROVE Locked'
  OBVIOUS
<1>1. CASE UNCHANGED <<holders, raced, user>>
  BY <1>1 DEF Locked, HoldersCall, Mutex!ExclusiveUnlessRaced
<1>2. ASSUME NEW p \in Procs, Unlock(p) PROVE Locked'
  <2>1. /\ holders \in [Users -> SUBSET Procs] /\ user \in [Procs -> Users \cup {Nobody}]
        /\ user[p] \in Users /\ Nobody \notin Users
    BY <1>2, FlowAssumption DEF TypeInv, TypeOK, Arguments, Mutex!MutexTypeOK, Unlock
  <2>2. /\ holders' = [holders EXCEPT ![user[p]] = @ \ {p}]
        /\ user' = [user EXCEPT ![p] = Nobody]
        /\ raced' = raced
    BY <1>2 DEF Unlock, Mutex!Release
  <2>3. HoldersCall'
    BY <2>1, <2>2 DEF Locked, HoldersCall
  <2>4. Mutex!ExclusiveUnlessRaced'
    BY <2>1, <2>2 DEF Locked, Mutex!ExclusiveUnlessRaced
  <2>5. QED
    BY <2>3, <2>4 DEF Locked
<1>3. ASSUME NEW p \in Procs, NEW u \in Users, NEW t \in Types, NEW n \in Sizes,
             BeginCheck(p, u, t, n)
      PROVE  Locked'
  BY <1>3, AcquireLocked DEF BeginCheck
<1>4. ASSUME NEW p \in Procs, NEW r \in Ids, NEW n \in Sizes, BeginCompletion(p, r, n)
      PROVE  Locked'
  <2>1. issued[r].user \in Users
    BY <1>4, ReservationType DEF TypeInv, TypeOK, BeginCompletion
  <2>2. QED
    BY <1>4, <2>1, AcquireLocked DEF BeginCompletion
<1>5. ASSUME NEW u \in Racy, LockRaces(u) PROVE Locked'
  <2>1. user' = user /\ holders' = holders /\ raced' = [raced EXCEPT ![u] = TRUE]
    BY <1>5 DEF LockRaces, Mutex!Race, callVars
  <2>2. HoldersCall'
    BY <2>1 DEF Locked, HoldersCall
  <2>3. Mutex!ExclusiveUnlessRaced'
    BY <2>1 DEF Locked, Mutex!ExclusiveUnlessRaced, TypeInv, TypeOK, Mutex!MutexTypeOK
  <2>4. QED
    BY <2>2, <2>3 DEF Locked
<1>6. CASE Restart
  <2>1. /\ holders' = [u \in Users |-> {}] /\ user' = [p \in Procs |-> Nobody]
        /\ Nobody \notin Users
    BY <1>6, FlowAssumption DEF Restart
  <2>2. QED
    BY <2>1 DEF Locked, HoldersCall, Mutex!ExclusiveUnlessRaced
<1>7. CASE UNCHANGED vars
  BY <1>1, <1>7 DEF vars, lockVars, callVars
<1>8. QED
  BY <1>1, <1>2, <1>3, <1>4, <1>5, <1>6, <1>7
     DEF Next, CallStep, ConfigStep, ReadConfig, ReadPolicy, ReadPlan, ReadUsage, Decide, Reserve,
         CheckFails, Lookup, ReleaseReservation, RecordUsage, RecordFails, RecordDirectly,
         CallerReleases, SetPolicy, SetOwnLimit, SetPlan, SetPlanLimit, Expire, lockVars, callVars

-----------------------------------------------------------------------------
(* Charging.                                                               *)

ChargeInv == ChargeOrder /\ FirstCharge /\ ChargedOnce

\* Steps that charge nobody and neither open a reservation nor move a
\* completion on.
LEMMA ChargeKept ==
  ASSUME TypeInv, TypeInv', ChargeInv,
         UNCHANGED <<issued, charged, raced>>, open' \subseteq open,
         \A p \in Procs : pc'[p] \in {"release", "record"} =>
             pc'[p] = pc[p] /\ rsv'[p] = rsv[p] /\ user'[p] = user[p]
  PROVE  ChargeInv'
BY DEF ChargeInv, ChargeOrder, FirstCharge, ChargedOnce, TypeInv, Arguments, CompletionSteps

LEMMA ChargeStep == TypeInv /\ TypeInv' /\ Locked /\ ChargeInv /\ [Next]_vars => ChargeInv'
<1> SUFFICES ASSUME TypeInv, TypeInv', Locked, ChargeInv, [Next]_vars PROVE ChargeInv'
  OBVIOUS
<1> USE DEF Goto, lockVars, ledgerVars, configVars, usageVars, callVars
<1>0. pc \in [Procs -> LockedSteps \cup {"idle"}] /\ rsv \in [Procs -> Ids \cup {NoRes}]
      /\ user \in [Procs -> Users \cup {Nobody}]
  BY DEF TypeInv, TypeOK
<1>1. CASE UNCHANGED <<pc, rsv, user, issued, open, charged, raced>>
  BY <1>1, ChargeKept
<1>2. ASSUME NEW p \in Procs, Unlock(p) PROVE ChargeInv'
  BY <1>0, <1>2, ChargeKept DEF Unlock, Mutex!Release
<1>3. ASSUME NEW p \in Procs, NEW u \in Users, NEW t \in Types, NEW n \in Sizes,
             BeginCheck(p, u, t, n)
      PROVE  ChargeInv'
  BY <1>0, <1>3, ChargeKept DEF BeginCheck, Mutex!Acquire
<1>4. ASSUME NEW p \in Procs, NEW r \in Ids, NEW n \in Sizes, BeginCompletion(p, r, n)
      PROVE  ChargeInv'
  BY <1>0, <1>4, ChargeKept DEF BeginCompletion, Mutex!Acquire
<1>5. ASSUME NEW p \in Procs,
             ReadConfig(p) \/ ReadPolicy(p) \/ ReadPlan(p) \/ ReadUsage(p) \/ Decide(p)
                \/ CheckFails(p) \/ RecordFails(p)
      PROVE  ChargeInv'
  <2>1. UNCHANGED <<rsv, user, issued, open, charged, raced>>
    BY <1>5 DEF ReadConfig, ReadPolicy, ReadPlan, ReadUsage, Decide, CheckFails, RecordFails
  <2>2. PICK step \in {"policy", "plan", "usage", "decide", "reserve", "unlock"} :
           pc' = [pc EXCEPT ![p] = step]
    BY <1>5 DEF ReadConfig, ReadPolicy, ReadPlan, ReadUsage, Decide, CheckFails, RecordFails
  <2>3. QED
    BY <1>0, <2>1, <2>2, ChargeKept
<1>6. ASSUME NEW p \in Procs, NEW r \in Ids, Reserve(p, r) PROVE ChargeInv'
  <2>0. size[p] \in Sizes \cup {0}
    BY DEF TypeInv, TypeOK
  <2>1. /\ UNCHANGED <<rsv, user, charged, raced>>
        /\ pc' = [pc EXCEPT ![p] = "unlock"]
    BY <1>6 DEF Reserve
  <2>2. CASE 0 < size[p] /\ size[p] <= MaxInt
    <3>1. /\ issued[r] = NoRes
          /\ open' = open \cup {r}
          /\ \A q \in Ids \ {r} : issued'[q] = issued[q]
          /\ issued'[r] # NoRes
      <4>1. /\ user[p] \in Users /\ type[p] \in Types
            /\ size[p] \in {n \in Sizes : 0 < n /\ n <= MaxInt}
        BY <1>6, <2>2 DEF Reserve, TypeInv, TypeOK, Arguments
      <4>2. Ledger!Reserve(r, user[p], type[p], size[p])
        BY <1>6, <2>0, <2>2, ReserveAsked
      <4>3. QED
        BY <4>1, <4>2, LedgerReserveType DEF Ledger!Reserve, TypeInv, TypeOK
    <3>2. charged[r] = 0 /\ charged \in [Ids -> Nat] /\ open \subseteq Ids
      BY <3>1 DEF ChargeInv, ChargeOrder, TypeInv, TypeOK, Ledger!LedgerTypeOK
    <3>3. \A q \in Procs : pc'[q] \in {"release", "record"} =>
             pc'[q] = pc[q] /\ q # p /\ rsv[q] # r /\ rsv[q] \in Ids
      BY <1>0, <2>1, <3>1 DEF TypeInv, Arguments, CompletionSteps
    <3>4. ChargeOrder'
      BY <2>1, <3>1, <3>2, <3>3 DEF ChargeInv, ChargeOrder
    <3>5. FirstCharge'
      BY <2>1, <3>3 DEF ChargeInv, FirstCharge
    <3>6. ChargedOnce'
      <4> SUFFICES ASSUME NEW q \in Ids, issued'[q] # NoRes, ~raced[issued'[q].user]
                   PROVE  charged[q] <= 1
        BY <2>1 DEF ChargedOnce
      <4>1. CASE q = r
        BY <3>2, <4>1
      <4>2. CASE q # r
        BY <3>1, <4>2 DEF ChargeInv, ChargedOnce
      <4>3. QED
        BY <4>1, <4>2
    <3>7. QED
      BY <3>4, <3>5, <3>6 DEF ChargeInv
  <2>3. CASE ~(0 < size[p] /\ size[p] <= MaxInt)
    <3>1. UNCHANGED ledgerVars
      BY <1>6, <2>0, <2>3, ReserveAsked
    <3>2. QED
      BY <1>0, <2>1, <3>1, ChargeKept
  <2>4. QED
    BY <2>2, <2>3
<1>7. ASSUME NEW p \in Procs, Lookup(p) PROVE ChargeInv'
  <2>1. /\ UNCHANGED <<rsv, user, issued, open, charged, raced>>
        /\ pc[p] = "lookup"
        /\ pc' = [pc EXCEPT ![p] = IF rsv[p] \in open THEN "release" ELSE "unlock"]
    BY <1>7 DEF Lookup
  <2>2. ChargeOrder'
    BY <1>0, <2>1 DEF ChargeInv, ChargeOrder
  <2>3. FirstCharge'
    BY <1>0, <2>1 DEF ChargeInv, ChargeOrder, FirstCharge
  <2>4. ChargedOnce'
    BY <2>1 DEF ChargeInv, ChargedOnce
  <2>5. QED
    BY <2>2, <2>3, <2>4 DEF ChargeInv
<1>8. ASSUME NEW p \in Procs, ReleaseReservation(p) PROVE ChargeInv'
  <2>1. /\ UNCHANGED <<rsv, user, issued, charged, raced>>
        /\ open' = open \ {rsv[p]}
        /\ pc[p] = "release"
    BY <1>8 DEF ReleaseReservation, Ledger!Release
  <2>2. PICK step \in {"record", "unlock"} : pc' = [pc EXCEPT ![p] = step]
    BY <1>8 DEF ReleaseReservation
  <2>3. ChargeOrder'
    BY <1>0, <2>1, <2>2 DEF ChargeInv, ChargeOrder
  <2>4. FirstCharge'
    BY <1>0, <2>1, <2>2 DEF ChargeInv, FirstCharge
  <2>5. ChargedOnce'
    BY <2>1 DEF ChargeInv, ChargedOnce
  <2>6. QED
    BY <2>3, <2>4, <2>5 DEF ChargeInv
<1>9. ASSUME NEW p \in Procs, RecordUsage(p) PROVE ChargeInv'
  <2>1. /\ UNCHANGED <<rsv, user, issued, open, raced>>
        /\ pc[p] = "record"
        /\ pc' = [pc EXCEPT ![p] = "unlock"]
        /\ charged' = [charged EXCEPT ![rsv[p]] = @ + 1]
    BY <1>9 DEF RecordUsage
  <2>2. /\ rsv[p] \in Ids \ open /\ issued[rsv[p]] # NoRes
        /\ issued[rsv[p]].user = user[p] /\ user[p] \in Users
        /\ charged \in [Ids -> Nat] /\ open \subseteq Ids
    BY <2>1 DEF ChargeInv, ChargeOrder, TypeInv, TypeOK, Arguments, CompletionSteps,
                Ledger!LedgerTypeOK
  <2>3. ~raced[user[p]] => charged[rsv[p]] = 0
    BY <2>1 DEF ChargeInv, FirstCharge
  <2>4. ChargeOrder'
    BY <1>0, <2>1, <2>2 DEF ChargeInv, ChargeOrder
  <2>5. FirstCharge'
    <3> SUFFICES ASSUME NEW q \in Procs, pc'[q] \in {"release", "record"}, ~raced[user[q]]
                 PROVE  charged'[rsv[q]] = 0
      BY <2>1 DEF FirstCharge
    <3>1. q # p /\ pc[q] \in {"release", "record"}
      BY <1>0, <2>1
    <3>2. rsv[q] \in Ids /\ issued[rsv[q]].user = user[q] /\ charged[rsv[q]] = 0
      BY <3>1 DEF TypeInv, Arguments, CompletionSteps, ChargeInv, FirstCharge
    <3>3. rsv[q] # rsv[p]
      BY <2>2, <3>1, <3>2, Alone
    <3>4. QED
      BY <2>1, <2>2, <3>2, <3>3
  <2>6. ChargedOnce'
    BY <2>1, <2>2, <2>3 DEF ChargeInv, ChargedOnce
  <2>7. QED
    BY <2>4, <2>5, <2>6 DEF ChargeInv
<1>10. ASSUME NEW r \in Ids, CallerReleases(r) PROVE ChargeInv'
  BY <1>1, <1>10, ChargeKept DEF CallerReleases, Ledger!Release
<1>11. ASSUME NEW u \in Racy, LockRaces(u) PROVE ChargeInv'
  <2>1. /\ UNCHANGED <<pc, rsv, user, issued, open, charged>>
        /\ \A v \in Users : raced[v] => raced'[v]
    BY <1>11 DEF LockRaces, Mutex!Race, TypeInv, TypeOK, Mutex!MutexTypeOK
  <2>2. ChargeOrder'
    BY <2>1 DEF ChargeInv, ChargeOrder
  <2>3. FirstCharge'
    BY <2>1 DEF ChargeInv, FirstCharge, TypeInv, Arguments
  <2>4. ChargedOnce'
    BY <2>1, ReservationType DEF ChargeInv, ChargedOnce, TypeInv, TypeOK
  <2>5. QED
    BY <2>2, <2>3, <2>4 DEF ChargeInv
<1>12. CASE Restart
  <2>1. UNCHANGED <<issued, charged, raced>> /\ open' = {} /\ pc' = [p \in Procs |-> "idle"]
    BY <1>12 DEF Restart, Ledger!Forget
  <2>2. QED
    BY <2>1, ChargeKept
<1>13. CASE UNCHANGED vars
  BY <1>1, <1>13 DEF vars
<1>14. QED
  BY <1>1, <1>2, <1>3, <1>4, <1>5, <1>6, <1>7, <1>8, <1>9, <1>10, <1>11, <1>12, <1>13
     DEF Next, CallStep, ConfigStep, RecordDirectly, SetPolicy, SetOwnLimit, SetPlan,
         SetPlanLimit, Expire

-----------------------------------------------------------------------------
(* The limits a check can have resolved.                                   *)

\* The history of the configuration only grows.
Grows ==
    /\ soft \subseteq soft'
    /\ \A u \in Users : raced[u] => raced'[u]
    /\ \A u \in Users : onPlans[u] \subseteq onPlans'[u]
    /\ \A u \in Users, t \in Types : ownSeen[u][t] \subseteq ownSeen'[u][t]
    /\ \A l \in Plans, t \in Types : planSeen[l][t] \subseteq planSeen'[l][t]

LEMMA GrowsStep == TypeInv /\ [Next]_vars => Grows
<1> SUFFICES ASSUME TypeInv, [Next]_vars PROVE Grows
  OBVIOUS
<1>1. CASE UNCHANGED <<configVars, raced>>
  BY <1>1 DEF Grows, configVars
<1>2. ASSUME NEW u \in Users, NEW hard \in Policies, SetPolicy(u, hard) PROVE Grows
  BY <1>2 DEF SetPolicy, Grows, lockVars
<1>3. ASSUME NEW u \in Users, NEW t \in Types, NEW n \in Limits, SetOwnLimit(u, t, n) PROVE Grows
  BY <1>3 DEF SetOwnLimit, Grows, lockVars, TypeInv, TypeOK
<1>4. ASSUME NEW u \in Users, NEW l \in Plans, SetPlan(u, l) PROVE Grows
  BY <1>4 DEF SetPlan, Grows, lockVars, TypeInv, TypeOK
<1>5. ASSUME NEW l \in Plans, NEW t \in Types, NEW n \in Limits, SetPlanLimit(l, t, n) PROVE Grows
  BY <1>5 DEF SetPlanLimit, Grows, lockVars, TypeInv, TypeOK
<1>6. ASSUME NEW u \in Racy, LockRaces(u) PROVE Grows
  BY <1>6 DEF LockRaces, Mutex!Race, Grows, configVars, TypeInv, TypeOK, Mutex!MutexTypeOK
<1>7. CASE UNCHANGED vars
  BY <1>1, <1>7 DEF vars, lockVars
<1>8. ASSUME NEW p \in Procs, CallStep(p) PROVE Grows
  <2>1. UNCHANGED configVars
    BY <1>8 DEF CallStep, Unlock, BeginCheck, ReadConfig, ReadPolicy, ReadPlan, ReadUsage, Decide,
         Reserve, CheckFails, BeginCompletion, Lookup, ReleaseReservation, RecordUsage, RecordFails
  <2>2. UNCHANGED raced
    BY <1>8 DEF CallStep, Unlock, BeginCheck, ReadConfig, ReadPolicy, ReadPlan, ReadUsage, Decide,
         Reserve, CheckFails, BeginCompletion, Lookup, ReleaseReservation, RecordUsage, RecordFails,
         Mutex!Acquire, Mutex!Release, lockVars
  <2>3. QED
    BY <1>1, <2>1, <2>2
<1>9. QED
  BY <1>1, <1>2, <1>3, <1>4, <1>5, <1>6, <1>7, <1>8
     DEF Next, ConfigStep, RecordDirectly, CallerReleases, Expire, Restart, lockVars

LEMMA LimitsSeenGrow ==
  ASSUME TypeInv, Grows, NEW u \in Users, NEW t \in Types
  PROVE  LimitsSeen(u, t) \subseteq LimitsSeen(u, t)'
<1>1. SUFFICES ASSUME NEW n \in LimitsSeen(u, t) PROVE n \in LimitsSeen(u, t)'
  OBVIOUS
<1>2. CASE n \in ownSeen[u][t] \ {0}
  BY <1>2 DEF LimitsSeen, Grows
<1>3. CASE n \in Limits /\ 0 \in ownSeen[u][t] /\ \E l \in onPlans[u] \cap Plans : n \in planSeen[l][t]
  BY <1>3 DEF LimitsSeen, Grows
<1>4. onPlans[u] \subseteq Plans
  BY DEF TypeInv, TypeOK
<1>5. QED
  BY <1>2, <1>3, <1>4 DEF LimitsSeen

\* q's call does not move.
Kept(q) ==
    /\ pc'[q] = pc[q] /\ user'[q] = user[q] /\ type'[q] = type[q] /\ size'[q] = size[q]
    /\ row'[q] = row[q] /\ rowPlan'[q] = rowPlan[q] /\ limit'[q] = limit[q]
    /\ seen'[q] = seen[q] /\ rsv'[q] = rsv[q]

\* Nothing of a call but its program counter changes.
ArgumentsKept == UNCHANGED <<user, type, size, row, rowPlan, limit, seen, rsv>>

LEMMA OthersKept ==
  ASSUME TypeInv, NEW p \in Procs, CallStep(p), NEW q \in Procs, q # p
  PROVE  Kept(q)
<1> USE DEF Goto, Kept, TypeInv, TypeOK
<1>1. CASE Unlock(p)
  BY <1>1 DEF Unlock
<1>2. ASSUME NEW u \in Users, NEW t \in Types, NEW n \in Sizes, BeginCheck(p, u, t, n) PROVE Kept(q)
  BY <1>2 DEF BeginCheck
<1>3. ASSUME NEW r \in Ids, NEW n \in Sizes, BeginCompletion(p, r, n) PROVE Kept(q)
  BY <1>3 DEF BeginCompletion
<1>4. CASE ReadConfig(p)
  BY <1>4 DEF ReadConfig
<1>5. CASE ReadPlan(p)
  <2>1. PICK step \in {"usage", "reserve", "unlock"} : pc' = [pc EXCEPT ![p] = step]
    BY <1>5 DEF ReadPlan
  <2>2. limit'[q] = limit[q]
    BY <1>5 DEF ReadPlan
  <2>3. QED
    BY <1>5, <2>1, <2>2 DEF ReadPlan
<1>6. CASE ReadUsage(p)
  BY <1>6 DEF ReadUsage
<1>7. CASE ReadPolicy(p) \/ Decide(p) \/ CheckFails(p) \/ Lookup(p) \/ ReleaseReservation(p)
              \/ RecordUsage(p) \/ RecordFails(p) \/ \E r \in Ids : Reserve(p, r)
  <2>1. ArgumentsKept
    BY <1>7 DEF ReadPolicy, Decide, CheckFails, Lookup, ReleaseReservation, RecordUsage, RecordFails,
                Reserve, ArgumentsKept
  <2>2. PICK step : pc' = [pc EXCEPT ![p] = step]
    BY <1>7 DEF ReadPolicy, Decide, CheckFails, Lookup, ReleaseReservation, RecordUsage, RecordFails,
                Reserve
  <2>3. QED
    BY <2>1, <2>2 DEF ArgumentsKept
<1>8. QED
  BY <1>1, <1>2, <1>3, <1>4, <1>5, <1>6, <1>7 DEF CallStep

\* What a step is to the goroutines whose call it does not move.
LEMMA KeptOrMoved ==
  ASSUME TypeInv, [Next]_vars, NEW q \in Procs
  PROVE  Kept(q) \/ CallStep(q) \/ Restart
<1>1. ASSUME NEW p \in Procs, CallStep(p) PROVE Kept(q) \/ CallStep(q)
  BY <1>1, OthersKept
<1>2. CASE UNCHANGED callVars
  BY <1>2 DEF callVars, Kept
<1>3. QED
  BY <1>1, <1>2
     DEF Next, ConfigStep, RecordDirectly, CallerReleases, SetPolicy, SetOwnLimit, SetPlan,
         SetPlanLimit, Expire, LockRaces, vars

LEMMA HistoryStep == TypeInv /\ TypeInv' /\ History /\ [Next]_vars => History'
<1> SUFFICES ASSUME TypeInv, TypeInv', History, [Next]_vars PROVE History'
  OBVIOUS
<1>0. Grows
  BY GrowsStep
<1> DEFINE Now == /\ \A u \in Users :
                        /\ policy[u] \/ u \in soft
                        /\ plan[u] \in onPlans[u]
                        /\ \A t \in Types : own[u][t] \in ownSeen[u][t]
                  /\ \A l \in Plans, t \in Types : planLimit[l][t] \in planSeen[l][t]
           Read(p) == pc[p] \in {"policy", "plan"} =>
                        /\ rowPlan[p] \in onPlans[user[p]]
                        /\ \A t \in Types : row[p][t] \in ownSeen[user[p]][t]
<1>1. Now'
  <2>1. Now
    BY DEF History
  <2>2. CASE UNCHANGED configVars
    BY <2>1, <2>2 DEF configVars
  <2>3. ASSUME NEW u \in Users, NEW hard \in Policies, SetPolicy(u, hard) PROVE Now'
    BY <2>1, <2>3, FlowAssumption DEF SetPolicy, TypeInv, TypeOK
  <2>4. ASSUME NEW u \in Users, NEW t \in Types, NEW n \in Limits, SetOwnLimit(u, t, n) PROVE Now'
    BY <2>1, <2>4 DEF SetOwnLimit, TypeInv, TypeOK
  <2>5. ASSUME NEW u \in Users, NEW l \in Plans, SetPlan(u, l) PROVE Now'
    BY <2>1, <2>5 DEF SetPlan, TypeInv, TypeOK
  <2>6. ASSUME NEW l \in Plans, NEW t \in Types, NEW n \in Limits, SetPlanLimit(l, t, n) PROVE Now'
    BY <2>1, <2>6 DEF SetPlanLimit, TypeInv, TypeOK
  <2>7. CASE ConfigStep
    BY <2>3, <2>4, <2>5, <2>6, <2>7 DEF ConfigStep
  <2>8. ASSUME NEW p \in Procs, CallStep(p) PROVE UNCHANGED configVars
    BY <2>8 DEF CallStep, Unlock, BeginCheck, ReadConfig, ReadPolicy, ReadPlan, ReadUsage, Decide,
         Reserve, CheckFails, BeginCompletion, Lookup, ReleaseReservation, RecordUsage, RecordFails
  <2>9. QED
    BY <2>2, <2>7, <2>8 DEF Next, RecordDirectly, CallerReleases, Expire, LockRaces, Restart, vars
<1>2. ASSUME NEW p \in Procs PROVE Read(p)'
  <2>1. SUFFICES ASSUME pc'[p] \in {"policy", "plan"}
                 PROVE  /\ rowPlan'[p] \in onPlans'[user'[p]]
                        /\ \A t \in Types : row'[p][t] \in ownSeen'[user'[p]][t]
    OBVIOUS
  <2>2. CASE Kept(p)
    <3>1. /\ pc[p] \in {"policy", "plan"} /\ user[p] \in Users
          /\ user'[p] = user[p] /\ row'[p] = row[p] /\ rowPlan'[p] = rowPlan[p]
      BY <2>1, <2>2 DEF Kept, TypeInv, Arguments
    <3>2. QED
      BY <1>0, <3>1 DEF History, Grows
  <2>3. CASE ReadConfig(p)
    <3>1. /\ user[p] \in Users /\ user'[p] = user[p]
          /\ row'[p] = own[user[p]] /\ rowPlan'[p] = plan[user[p]]
      BY <2>3 DEF ReadConfig, TypeInv, TypeOK, Arguments
    <3>2. QED
      BY <1>0, <3>1 DEF History, Grows
  <2>4. CASE ReadPolicy(p)
    <3>1. /\ pc[p] = "policy" /\ user[p] \in Users
          /\ user' = user /\ row' = row /\ rowPlan' = rowPlan
      BY <2>4 DEF ReadPolicy, TypeInv, Arguments
    <3>2. QED
      BY <1>0, <3>1 DEF History, Grows
  <2>5. CASE CallStep(p) /\ ~ReadConfig(p) /\ ~ReadPolicy(p)
    <3> DEFINE Elsewhere == pc'[p] \notin {"policy", "plan"}
    <3> USE DEF Goto
    <3>0. pc \in [Procs -> LockedSteps \cup {"idle"}]
      BY DEF TypeInv, TypeOK
    <3>1. ASSUME Unlock(p) \/ RecordUsage(p) \/ RecordFails(p) PROVE Elsewhere
      BY <3>0, <3>1 DEF Unlock, RecordUsage, RecordFails
    <3>2. ASSUME ReadPlan(p) \/ ReadUsage(p) \/ CheckFails(p) PROVE Elsewhere
      BY <3>0, <3>2 DEF ReadPlan, ReadUsage, CheckFails
    <3>3. ASSUME Decide(p) PROVE Elsewhere
      BY <3>0, <3>3 DEF Decide
    <3>4. ASSUME NEW v \in Users, NEW w \in Types, NEW n \in Sizes, BeginCheck(p, v, w, n)
          PROVE  Elsewhere
      BY <3>0, <3>4 DEF BeginCheck
    <3>5. ASSUME NEW r \in Ids, NEW n \in Sizes, BeginCompletion(p, r, n) PROVE Elsewhere
      BY <3>0, <3>5 DEF BeginCompletion
    <3>6. ASSUME NEW r \in Ids, Reserve(p, r) PROVE Elsewhere
      BY <3>0, <3>6 DEF Reserve
    <3>7. ASSUME Lookup(p) \/ ReleaseReservation(p) PROVE Elsewhere
      BY <3>0, <3>7 DEF Lookup, ReleaseReservation
    <3>8. Elsewhere
      BY <2>5, <3>1, <3>2, <3>3, <3>4, <3>5, <3>6, <3>7 DEF CallStep
    <3>9. QED
      BY <2>1, <3>8
  <2>6. CASE Restart
    BY <2>1, <2>6 DEF Restart
  <2>7. QED
    BY <2>2, <2>3, <2>4, <2>5, <2>6, KeptOrMoved
<1>3. QED
  BY <1>1, <1>2 DEF History

LEMMA EffectiveSeen ==
  ASSUME TypeInv, History, NEW p \in Procs, pc[p] = "plan"
  PROVE  Effective(p, type[p]) \in LimitsSeen(user[p], type[p])
<1>1. /\ user[p] \in Users /\ type[p] \in Types /\ rowPlan[p] \in Plans
  BY DEF TypeInv, Arguments
<1>2. row[p][type[p]] \in Limits /\ planLimit[rowPlan[p]][type[p]] \in Limits
  BY <1>1 DEF TypeInv, TypeOK
<1>3. /\ row[p][type[p]] \in ownSeen[user[p]][type[p]]
      /\ rowPlan[p] \in onPlans[user[p]]
      /\ planLimit[rowPlan[p]][type[p]] \in planSeen[rowPlan[p]][type[p]]
  BY <1>1 DEF History
<1>4. CASE row[p][type[p]] > 0
  BY <1>3, <1>4 DEF Effective, LimitsSeen
<1>5. CASE ~(row[p][type[p]] > 0)
  <2>1. row[p][type[p]] = 0
    <3>1. row[p][type[p]] \in Nat
      BY <1>2, LimitsNat
    <3>2. QED
      BY <1>5, <3>1
  <2>2. QED
    BY <1>2, <1>3, <2>1 DEF Effective, LimitsSeen
<1>6. QED
  BY <1>4, <1>5

LEMMA ResolvedStep == TypeInv /\ TypeInv' /\ History /\ Resolved /\ [Next]_vars => Resolved'
<1> SUFFICES ASSUME TypeInv, TypeInv', History, Resolved, [Next]_vars,
                    NEW p \in Procs, NEW u \in Users, NEW t \in Types,
                    user'[p] = u, type'[p] = t,
                    pc'[p] \in {"usage", "decide"} \/ (pc'[p] = "reserve" /\ u \notin soft')
             PROVE  limit'[p] \in LimitsSeen(u, t)'
  BY DEF Resolved
<1>0. Grows
  BY GrowsStep
<1>a. LimitsSeen(u, t) \subseteq LimitsSeen(u, t)'
  BY <1>0, LimitsSeenGrow
<1>1. CASE Kept(p)
  <2>1. /\ user[p] = u /\ type[p] = t /\ limit'[p] = limit[p]
        /\ pc[p] \in {"usage", "decide"} \/ (pc[p] = "reserve" /\ u \notin soft)
    BY <1>0, <1>1 DEF Kept, Grows
  <2>2. QED
    BY <1>a, <2>1 DEF Resolved
<1>2. CASE ReadPlan(p)
  <2>1. /\ pc[p] = "plan" /\ user[p] = u /\ type[p] = t
    BY <1>2 DEF ReadPlan
  <2>2. limit' = [limit EXCEPT ![p] = Effective(p, type[p])]
    <3>1. pc' # [pc EXCEPT ![p] = "unlock"]
      BY DEF TypeInv, TypeOK
    <3>2. QED
      BY <1>2, <3>1 DEF ReadPlan, Goto
  <2>3. limit'[p] = Effective(p, type[p])
    BY <2>2 DEF TypeInv, TypeOK
  <2>4. Effective(p, type[p]) \in LimitsSeen(u, t)
    BY <2>1, EffectiveSeen
  <2>5. QED
    BY <1>a, <2>3, <2>4
<1>3. CASE ReadPolicy(p)
  <2>1. /\ user[p] \in Users /\ user' = user /\ soft' = soft
        /\ pc'[p] \in {"plan", "reserve", "unlock"}
        /\ pc'[p] = "reserve" => ~policy[user[p]]
    <3>1. /\ pc[p] = "policy" /\ user' = user /\ soft' = soft
      BY <1>3 DEF ReadPolicy, configVars
    <3>2. PICK step : /\ pc' = [pc EXCEPT ![p] = step]
                      /\ step \in {"plan", "reserve", "unlock"}
                      /\ step = "reserve" => ~policy[user[p]]
      BY <1>3 DEF ReadPolicy, Goto
    <3>3. pc'[p] = step
      BY <3>2 DEF TypeInv, TypeOK
    <3>4. QED
      BY <3>1, <3>2, <3>3 DEF TypeInv, Arguments
  <2>2. QED
    BY <2>1 DEF History
<1>4. CASE ReadUsage(p) \/ Decide(p)
  <2>1. pc[p] \in {"usage", "decide"} /\ user[p] = u /\ type[p] = t /\ limit' = limit
    BY <1>4 DEF ReadUsage, Decide
  <2>2. QED
    BY <1>a, <2>1 DEF Resolved
<1>5. CASE CallStep(p) /\ ~ReadPlan(p) /\ ~ReadPolicy(p) /\ ~ReadUsage(p) /\ ~Decide(p)
  <2>1. PICK step : pc' = [pc EXCEPT ![p] = step] /\ step \notin {"usage", "decide", "reserve"}
    BY <1>5 DEF CallStep, Unlock, BeginCheck, ReadConfig, Reserve, CheckFails, BeginCompletion,
         Lookup, ReleaseReservation, RecordUsage, RecordFails, Goto
  <2>2. pc'[p] = step
    BY <2>1 DEF TypeInv, TypeOK
  <2>3. QED
    BY <2>1, <2>2
<1>6. CASE Restart
  BY <1>6 DEF Restart
<1>7. QED
  BY <1>1, <1>2, <1>3, <1>4, <1>5, <1>6, KeptOrMoved

-----------------------------------------------------------------------------
(* Usage.                                                                  *)

LEMMA LeastType == \A m, n \in Nat : /\ Least(m, n) \in Nat
                                     /\ Least(m, n) <= m
                                     /\ Least(m, n) <= n
  BY DEF Least

\* What RecordUsage writes, with the state it writes it to.
LEMMA RecordUsageEffect ==
  ASSUME TypeInv, NEW p \in Procs, RecordUsage(p)
  PROVE  /\ user[p] \in Users /\ type[p] \in Types /\ rsv[p] \in Ids /\ size[p] \in Nat
         /\ issued[rsv[p]].bytes \in Nat /\ issued[rsv[p]].bytes \in Sizes
         /\ \A u \in Users, t \in Types :
               IF u = user[p] /\ t = type[p]
               THEN /\ usage'[u][t] = usage[u][t] + size[p]
                    /\ covered'[u][t] = covered[u][t] + Least(size[p], issued[rsv[p]].bytes)
               ELSE usage'[u][t] = usage[u][t] /\ covered'[u][t] = covered[u][t]
<1>1. user[p] \in Users /\ type[p] \in Types /\ rsv[p] \in Ids /\ issued[rsv[p]] # NoRes
  BY DEF TypeInv, Arguments, RecordUsage, CompletionSteps
<1>2. size[p] \in Nat
  <2>1. size[p] \in Sizes \cup {0}
    BY DEF TypeInv, TypeOK
  <2>2. QED
    BY <2>1, SizesType
<1>3. issued[rsv[p]].bytes \in Nat /\ issued[rsv[p]].bytes \in Sizes
  <2>1. issued[rsv[p]] \in Ledger!Reservation
    BY <1>1 DEF TypeInv, TypeOK, Ledger!LedgerTypeOK
  <2>2. issued[rsv[p]].bytes \in Sizes
    BY <2>1 DEF Ledger!Reservation
  <2>3. QED
    BY <2>2, SizesType
<1>4. /\ usage' = [usage EXCEPT ![user[p]][type[p]] = @ + size[p]]
      /\ covered' = [covered EXCEPT ![user[p]][type[p]] = @ + Least(size[p], issued[rsv[p]].bytes)]
      /\ usage \in [Users -> [Types -> Nat]] /\ covered \in [Users -> [Types -> Nat]]
  BY DEF RecordUsage, TypeInv, TypeOK
<1>5. QED
  BY <1>1, <1>2, <1>3, <1>4

LEMMA ExpireEffect ==
  ASSUME TypeInv, NEW v \in Users, NEW w \in Types, Expire(v, w)
  PROVE  \A u \in Users, t \in Types :
            /\ covered'[u][t] <= covered[u][t]
            /\ covered[u][t] <= usage[u][t] => covered'[u][t] <= usage'[u][t]
<1>1. usage \in [Users -> [Types -> Nat]] /\ covered \in [Users -> [Types -> Nat]]
  BY DEF TypeInv, TypeOK
<1>2. PICK c \in 0..covered[v][w], e \in 0..(usage[v][w] - covered[v][w]) :
         /\ covered' = [covered EXCEPT ![v][w] = c]
         /\ usage' = [usage EXCEPT ![v][w] = c + e]
  BY DEF Expire
<1>3. SUFFICES ASSUME NEW u \in Users, NEW t \in Types
               PROVE  /\ covered'[u][t] <= covered[u][t]
                      /\ covered[u][t] <= usage[u][t] => covered'[u][t] <= usage'[u][t]
  OBVIOUS
<1>4. CASE u = v /\ t = w
  <2>1. covered'[u][t] = c /\ usage'[u][t] = c + e
    BY <1>1, <1>2, <1>4
  <2>2. covered[u][t] \in Nat /\ usage[u][t] \in Nat
    BY <1>1
  <2>3. QED
    BY <1>2, <1>4, <2>1, <2>2
<1>5. CASE ~(u = v /\ t = w)
  <2>1. covered'[u][t] = covered[u][t] /\ usage'[u][t] = usage[u][t]
    BY <1>1, <1>2, <1>5
  <2>2. covered[u][t] \in Nat
    BY <1>1
  <2>3. QED
    BY <2>1, <2>2
<1>6. QED
  BY <1>4, <1>5

LEMMA CoveredStep == TypeInv /\ CoveredIsUsage /\ [Next]_vars => CoveredIsUsage'
<1> SUFFICES ASSUME TypeInv, CoveredIsUsage, [Next]_vars PROVE CoveredIsUsage'
  OBVIOUS
<1>0. usage \in [Users -> [Types -> Nat]] /\ covered \in [Users -> [Types -> Nat]]
  BY DEF TypeInv, TypeOK
<1>1. CASE UNCHANGED <<usage, covered>>
  BY <1>1 DEF CoveredIsUsage
<1>2. ASSUME NEW p \in Procs, RecordUsage(p) PROVE CoveredIsUsage'
  <2>1. SUFFICES ASSUME NEW u \in Users, NEW t \in Types PROVE covered'[u][t] <= usage'[u][t]
    BY DEF CoveredIsUsage
  <2>2. /\ covered[u][t] \in Nat /\ usage[u][t] \in Nat /\ covered[u][t] <= usage[u][t]
    BY <1>0 DEF CoveredIsUsage
  <2>3. /\ Least(size[p], issued[rsv[p]].bytes) \in Nat
        /\ Least(size[p], issued[rsv[p]].bytes) <= size[p]
        /\ size[p] \in Nat
    BY <1>2, RecordUsageEffect, LeastType
  <2>4. \/ /\ usage'[u][t] = usage[u][t] + size[p]
           /\ covered'[u][t] = covered[u][t] + Least(size[p], issued[rsv[p]].bytes)
        \/ usage'[u][t] = usage[u][t] /\ covered'[u][t] = covered[u][t]
    BY <1>2, RecordUsageEffect
  <2>5. QED
    BY <2>2, <2>3, <2>4
<1>3. ASSUME NEW u \in Users, NEW t \in Types, NEW n \in Sizes, RecordDirectly(u, t, n)
      PROVE  CoveredIsUsage'
  <2>1. n \in Nat
    BY SizesType
  <2>2. QED
    BY <1>0, <1>3, <2>1 DEF RecordDirectly, CoveredIsUsage
<1>4. ASSUME NEW u \in Users, NEW t \in Types, Expire(u, t) PROVE CoveredIsUsage'
  BY <1>4, ExpireEffect DEF CoveredIsUsage
<1>5. CASE UNCHANGED vars
  BY <1>1, <1>5 DEF vars, usageVars
<1>6. QED
  BY <1>1, <1>2, <1>3, <1>4, <1>5
     DEF Next, CallStep, ConfigStep, Unlock, BeginCheck, ReadConfig, ReadPolicy, ReadPlan, ReadUsage,
         Decide, Reserve, CheckFails, BeginCompletion, Lookup, ReleaseReservation, RecordFails,
         CallerReleases, SetPolicy, SetOwnLimit, SetPlan, SetPlanLimit, LockRaces, Restart, usageVars

-----------------------------------------------------------------------------
(* Room under the limit.                                                   *)

\* What is let through and held does not get more.
LEMMA FitsStill ==
  ASSUME TypeInv, TypeInv', Grows, NEW u \in Users, NEW t \in Types,
         NEW m \in Nat, NEW n \in Nat, Fits(u, t, m),
         covered'[u][t] + pending'[u][t] + n <= covered[u][t] + pending[u][t] + m
  PROVE  Fits(u, t, n)'
<1>1. PICK k \in LimitsSeen(u, t) : k = 0 \/ covered[u][t] + pending[u][t] + m <= k
  BY DEF Fits
<1>2. k \in LimitsSeen(u, t)'
  BY LimitsSeenGrow
<1>3. k \in Nat
  BY <1>1, FlowAssumption DEF LimitsSeen, TypeInv, TypeOK
<1>4. /\ covered[u][t] + pending[u][t] + m \in Int
      /\ covered'[u][t] + pending'[u][t] + n \in Int
  BY DEF TypeInv, TypeOK, Ledger!LedgerTypeOK
<1>5. k = 0 \/ covered'[u][t] + pending'[u][t] + n <= k
  BY <1>1, <1>3, <1>4
<1>6. QED
  BY <1>2, <1>5 DEF Fits

LEMMA WithinFits ==
  TypeInv => (WithinLimit <=> \A u \in Users, t \in Types :
                                 ~raced[u] /\ u \notin soft => Fits(u, t, 0))
<1> SUFFICES ASSUME TypeInv
             PROVE  WithinLimit <=> \A u \in Users, t \in Types :
                                       ~raced[u] /\ u \notin soft => Fits(u, t, 0)
  OBVIOUS
<1>1. \A u \in Users, t \in Types :
         covered[u][t] + pending[u][t] + 0 = covered[u][t] + pending[u][t]
  <2>1. \A u \in Users, t \in Types : covered[u][t] \in Nat /\ pending[u][t] \in Int
    BY DEF TypeInv, TypeOK, Ledger!LedgerTypeOK
  <2>2. QED
    BY <2>1
<1>2. \A u \in Users, t \in Types :
         Fits(u, t, 0) <=> \E n \in LimitsSeen(u, t) :
                              n = 0 \/ covered[u][t] + pending[u][t] <= n
  BY <1>1 DEF Fits
<1>3. QED
  BY <1>2 DEF WithinLimit

\* A release gives bytes back to the user whose reservation it is.
LEMMA ReleaseEffect ==
  ASSUME Ledger!LedgerTypeOK, NEW r \in Ids, Ledger!Release(r)
  PROVE  /\ issued' = issued /\ open' = open \ {r} /\ issued[r] # NoRes
         /\ \A u \in Users, t \in Types :
               IF r \in open /\ issued[r].user = u /\ issued[r].type = t
               THEN pending'[u][t] = pending[u][t] - issued[r].bytes
               ELSE pending'[u][t] = pending[u][t]
<1>1. issued' = issued /\ open' = open \ {r} /\ issued[r] # NoRes
  BY DEF Ledger!Release
<1>2. /\ issued[r].user \in Users /\ issued[r].type \in Types
      /\ pending \in [Users -> [Types -> Int]]
  BY <1>1, ReservationType DEF Ledger!LedgerTypeOK
<1>3. pending' = IF r \in open
                 THEN [pending EXCEPT ![issued[r].user][issued[r].type] = @ - issued[r].bytes]
                 ELSE pending
  BY DEF Ledger!Release
<1>4. QED
  BY <1>1, <1>2, <1>3

LEMMA RoomKept ==
  ASSUME TypeInv, TypeInv', Grows, Room,
         NEW p \in Procs, NEW u \in Users, NEW t \in Types, Kept(p),
         covered'[u][t] <= covered[u][t], pending'[u][t] <= pending[u][t],
         \A n \in Sizes \cup {0} :
             user[p] = u /\ type[p] = t /\ ~raced'[u] /\ u \notin soft' /\ Due(p, n)' =>
                Due(p, n) \/ Fits(u, t, n)'
  PROVE  RoomAt(p, u, t)'
<1> SUFFICES ASSUME user'[p] = u, type'[p] = t, ~raced'[u]
             PROVE  /\ pc'[p] = "decide" => covered'[u][t] <= seen'[p]
                    /\ u \notin soft' => \A n \in Sizes \cup {0} : Due(p, n)' => Fits(u, t, n)'
  BY DEF RoomAt
<1>1. /\ user[p] = u /\ type[p] = t /\ ~raced[u]
      /\ pc'[p] = pc[p] /\ seen'[p] = seen[p]
  BY DEF Kept, Grows
<1>2. /\ covered[u][t] \in Nat /\ covered'[u][t] \in Nat /\ seen[p] \in Nat
      /\ pending[u][t] \in Int /\ pending'[u][t] \in Int
  BY DEF TypeInv, TypeOK, Ledger!LedgerTypeOK
<1>3. pc'[p] = "decide" => covered'[u][t] <= seen'[p]
  <2>1. pc[p] = "decide" => covered[u][t] <= seen[p]
    BY <1>1 DEF Room, RoomAt
  <2>2. QED
    BY <1>1, <1>2, <2>1
<1>4. ASSUME u \notin soft', NEW n \in Sizes \cup {0}, Due(p, n)' PROVE Fits(u, t, n)'
  <2>1. CASE Due(p, n)
    <3>1. u \notin soft
      BY <1>4 DEF Grows
    <3>2. Fits(u, t, n)
      BY <1>1, <2>1, <3>1 DEF Room, RoomAt
    <3>3. n \in Nat
      BY SizesType
    <3>4. covered'[u][t] + pending'[u][t] + n <= covered[u][t] + pending[u][t] + n
      BY <1>2, <3>3
    <3>5. QED
      BY <3>2, <3>3, <3>4, FitsStill
  <2>2. QED
    BY <1>1, <1>4, <2>1
<1>5. QED
  BY <1>3, <1>4

\* A reservation due for recording was made long ago.
LEMMA DueOld ==
  ASSUME TypeInv, NEW p \in Procs, Kept(p), NEW n, Due(p, n)',
         \A r \in Ids : issued[r] # NoRes => issued'[r] = issued[r],
         pc[p] \in {"release", "record"} /\ rsv[p] \in open => rsv[p] \in open'
  PROVE  Due(p, n)
BY DEF Due, Kept, TypeInv, Arguments, CompletionSteps

\* Steps of p that leave the reservations and what is covered alone.
LEMMA RoomQuiet ==
  ASSUME TypeInv, TypeInv', Grows, Room, History, Resolved, CoveredIsUsage,
         NEW p \in Procs, NEW u \in Users, NEW t \in Types, CallStep(p),
         ~ReleaseReservation(p), UNCHANGED <<ledgerVars, covered>>
  PROVE  RoomAt(p, u, t)'
<1> SUFFICES ASSUME user'[p] = u, type'[p] = t, ~raced'[u]
             PROVE  /\ pc'[p] = "decide" => covered'[u][t] <= seen'[p]
                    /\ u \notin soft' => \A n \in Sizes \cup {0} : Due(p, n)' => Fits(u, t, n)'
  BY DEF RoomAt
<1> USE DEF Goto
<1>0. /\ covered[u][t] \in Nat /\ pending[u][t] \in Int /\ covered' = covered /\ pending' = pending
      /\ issued' = issued /\ open' = open
      /\ pc \in [Procs -> LockedSteps \cup {"idle"}] /\ user \in [Procs -> Users \cup {Nobody}]
      /\ u # Nobody
  BY FlowAssumption DEF TypeInv, TypeOK, Ledger!LedgerTypeOK, ledgerVars
<1>1. CASE pc'[p] \notin {"decide", "reserve", "release", "record"}
  BY <1>1 DEF Due
<1>2. CASE ReadPolicy(p)
  <2>1. user[p] = u /\ soft' = soft
    BY <1>2 DEF ReadPolicy, configVars
  <2>2. CASE policy[u]
    <3>1. pc'[p] = "plan"
      BY <1>0, <1>2, <2>1, <2>2 DEF ReadPolicy
    <3>2. QED
      BY <1>1, <3>1
  <2>3. CASE ~policy[u]
    <3>1. u \in soft'
      BY <2>1, <2>3 DEF History
    <3>2. pc'[p] # "decide"
      <4>1. PICK step \in {"plan", "reserve", "unlock"} : pc' = [pc EXCEPT ![p] = step]
        BY <1>2 DEF ReadPolicy
      <4>2. QED
        BY <1>0, <4>1
    <3>3. QED
      BY <3>1, <3>2
  <2>4. QED
    BY <2>2, <2>3
<1>3. CASE ReadPlan(p)
  <2>1. pc[p] = "plan" /\ user[p] = u /\ type[p] = t
    BY <1>3 DEF ReadPlan
  <2>2. PICK step \in {"usage", "reserve", "unlock"} :
           /\ pc' = [pc EXCEPT ![p] = step]
           /\ step = "reserve" => Effective(p, type[p]) = 0
    BY <1>3 DEF ReadPlan
  <2>3. CASE step = "reserve"
    <3>1. 0 \in LimitsSeen(u, t)
      BY <2>1, <2>2, <2>3, EffectiveSeen
    <3>2. 0 \in LimitsSeen(u, t)'
      BY <3>1, LimitsSeenGrow
    <3>3. \A n : Fits(u, t, n)'
      BY <3>2 DEF Fits
    <3>4. QED
      BY <1>0, <2>2, <2>3, <3>3
  <2>4. CASE step # "reserve"
    BY <1>0, <1>1, <2>2, <2>4
  <2>5. QED
    BY <2>3, <2>4
<1>4. CASE ReadUsage(p)
  <2>1. /\ user[p] = u /\ type[p] = t
        /\ pc' = [pc EXCEPT ![p] = "decide"] /\ seen' = [seen EXCEPT ![p] = usage[u][t]]
    BY <1>4 DEF ReadUsage
  <2>2. pc'[p] = "decide" /\ seen'[p] = usage[u][t]
    BY <1>0, <2>1 DEF TypeInv, TypeOK
  <2>3. covered[u][t] <= usage[u][t]
    BY DEF CoveredIsUsage
  <2>4. QED
    BY <1>0, <2>2, <2>3 DEF Due
<1>5. CASE Decide(p)
  <2>1. /\ pc[p] = "decide" /\ user[p] = u /\ type[p] = t /\ ~raced[u]
        /\ size' = size
    BY <1>5 DEF Decide, Grows
  <2>2. CASE limit[p] < seen[p] + pending[u][t] \/ size[p] > Minus(limit[p], seen[p] + pending[u][t])
    <3>1. pc'[p] = "unlock"
      BY <1>0, <1>5, <2>1, <2>2 DEF Decide
    <3>2. QED
      BY <1>1, <3>1
  <2>3. CASE ~(limit[p] < seen[p] + pending[u][t] \/ size[p] > Minus(limit[p], seen[p] + pending[u][t]))
    <3>1. size[p] \in Nat /\ seen[p] \in Nat /\ limit[p] \in Nat
      <4>1. size[p] \in Sizes \cup {0} /\ seen[p] \in Nat /\ limit[p] \in Nat
        BY DEF TypeInv, TypeOK
      <4>2. QED
        BY <4>1, SizesType
    <3>2. covered[u][t] <= seen[p]
      BY <2>1 DEF Room, RoomAt
    <3>3. covered[u][t] + pending[u][t] + size[p] <= limit[p]
      <4>1. covered[u][t] \in Nat /\ pending[u][t] \in Int
        BY DEF TypeInv, TypeOK, Ledger!LedgerTypeOK
      <4>2. ~(limit[p] < seen[p] + pending[u][t])
        BY <2>3
      <4>3. Minus(limit[p], seen[p] + pending[u][t]) = limit[p] - (seen[p] + pending[u][t])
        BY <3>1, <4>1, <4>2 DEF Minus
      <4>4. QED
        BY <2>3, <3>1, <3>2, <4>1, <4>2, <4>3
    <3>4. limit[p] \in LimitsSeen(u, t)'
      BY <2>1, LimitsSeenGrow DEF Resolved
    <3>5. ASSUME NEW n, n = size[p] PROVE Fits(u, t, n)'
      <4>1. covered'[u][t] + pending'[u][t] + n <= limit[p]
        BY <1>0, <3>3, <3>5
      <4>2. QED
        BY <3>4, <4>1 DEF Fits
    <3>6. pc'[p] \in {"reserve", "unlock"}
      BY <1>0, <1>5, <2>1, <2>3 DEF Decide
    <3>7. \A n : Due(p, n)' => n = size[p]
      BY <2>1, <3>6 DEF Due
    <3>8. \A n : Due(p, n)' => Fits(u, t, n)'
      BY <3>5, <3>7
    <3>9. QED
      BY <3>6, <3>8
  <2>4. QED
    BY <2>2, <2>3
<1>6. CASE Lookup(p)
  <2>1. rsv' = rsv /\ pc'[p] \in {"release", "unlock"} /\ (pc'[p] = "release" => rsv[p] \in open)
    BY <1>0, <1>6 DEF Lookup
  <2>2. QED
    BY <1>0, <2>1 DEF Due
<1>7. CASE ~ReadPolicy(p) /\ ~ReadPlan(p) /\ ~ReadUsage(p) /\ ~Decide(p) /\ ~Lookup(p)
  <2> DEFINE Elsewhere == pc'[p] \notin {"decide", "reserve", "release", "record"}
  <2>1. ASSUME Unlock(p) \/ ReadConfig(p) PROVE Elsewhere
    BY <1>0, <2>1 DEF Unlock, ReadConfig
  <2>2. ASSUME NEW v \in Users, NEW w \in Types, NEW n \in Sizes, BeginCheck(p, v, w, n)
        PROVE  Elsewhere
    BY <1>0, <2>2 DEF BeginCheck
  <2>3. ASSUME NEW r \in Ids, NEW n \in Sizes, BeginCompletion(p, r, n) PROVE Elsewhere
    BY <1>0, <2>3 DEF BeginCompletion
  <2>4. ASSUME NEW r \in Ids, Reserve(p, r) PROVE Elsewhere
    BY <1>0, <2>4 DEF Reserve
  <2>5. ASSUME CheckFails(p) \/ RecordUsage(p) \/ RecordFails(p) PROVE Elsewhere
    BY <1>0, <2>5 DEF CheckFails, RecordUsage, RecordFails
  <2>6. Elsewhere
    BY <1>7, <2>1, <2>2, <2>3, <2>4, <2>5 DEF CallStep
  <2>7. QED
    BY <1>1, <2>6
<1>8. QED
  BY <1>2, <1>3, <1>4, <1>5, <1>6, <1>7

\* Once a reservation that is held is released, there is room for its bytes.
LEMMA RoomAfterRelease ==
  ASSUME TypeInv, TypeInv', Grows, WithinLimit,
         NEW r \in open, Ledger!Release(r), UNCHANGED covered,
         NEW u \in Users, NEW t \in Types, NEW n,
         issued[r].user = u, issued[r].type = t, issued[r].bytes = n,
         ~raced[u], u \notin soft
  PROVE  Fits(u, t, n)'
<1>1. r \in Ids /\ issued[r] # NoRes /\ Ledger!LedgerTypeOK
  BY DEF TypeInv, TypeOK, Ledger!LedgerTypeOK
<1>2. n \in Nat /\ pending'[u][t] = pending[u][t] - n
  BY <1>1, ReservationType, ReleaseEffect
<1>3. covered[u][t] \in Nat /\ pending[u][t] \in Int
  BY DEF TypeInv, TypeOK, Ledger!LedgerTypeOK
<1>4. covered'[u][t] + pending'[u][t] + n <= covered[u][t] + pending[u][t] + 0
  BY <1>2, <1>3
<1>5. Fits(u, t, 0)
  BY WithinFits
<1>6. QED
  BY <1>2, <1>4, <1>5, FitsStill

\* p's own release: what it records next was held, or there was room already.
LEMMA RoomOwnRelease ==
  ASSUME TypeInv, TypeInv', Grows, Room, WithinLimit,
         NEW p \in Procs, NEW u \in Users, NEW t \in Types, ReleaseReservation(p)
  PROVE  RoomAt(p, u, t)'
<1>1. /\ pc[p] = "release" /\ Ledger!Release(rsv[p])
      /\ UNCHANGED <<user, type, rsv, covered, soft, raced>>
      /\ rsv[p] \in Ids /\ issued[rsv[p]].user = user[p] /\ issued[rsv[p]].type = type[p]
  BY DEF ReleaseReservation, configVars, lockVars, TypeInv, Arguments, CompletionSteps
<1>2. pc'[p] \in {"record", "unlock"}
  <2>1. PICK step \in {"record", "unlock"} : pc' = [pc EXCEPT ![p] = step]
    BY DEF ReleaseReservation, Goto
  <2>2. QED
    BY <2>1 DEF TypeInv, TypeOK
<1>3. SUFFICES ASSUME user[p] = u, type[p] = t, ~raced[u], u \notin soft,
                      NEW n \in Sizes \cup {0}, Due(p, n)'
               PROVE  Fits(u, t, n)'
  BY <1>1, <1>2 DEF RoomAt
<1>4. issued' = issued /\ issued[rsv[p]].bytes = n
  BY <1>1, <1>2, <1>3 DEF Due, Ledger!Release
<1>5. CASE rsv[p] \in open
  BY <1>1, <1>3, <1>4, <1>5, RoomAfterRelease
<1>6. CASE rsv[p] \notin open
  <2>1. Fits(u, t, n)
    BY <1>1, <1>3, <1>4, <1>6 DEF Room, RoomAt, Due
  <2>2. pending' = pending /\ n \in Nat
    BY <1>1, <1>6, SizesType DEF Ledger!Release
  <2>3. covered[u][t] \in Nat /\ pending[u][t] \in Int
    BY DEF TypeInv, TypeOK, Ledger!LedgerTypeOK
  <2>4. covered'[u][t] + pending'[u][t] + n <= covered[u][t] + pending[u][t] + n
    BY <1>1, <2>2, <2>3
  <2>5. QED
    BY <2>1, <2>2, <2>4, FitsStill
<1>7. QED
  BY <1>5, <1>6

LEMMA RoomStep ==
  ASSUME TypeInv, TypeInv', Locked, History, Resolved, CoveredIsUsage, Room, WithinLimit, [Next]_vars
  PROVE  Room'
<1>0. Grows
  BY GrowsStep
<1> SUFFICES ASSUME NEW p \in Procs, NEW u \in Users, NEW t \in Types, user'[p] = u, ~raced'[u]
             PROVE  RoomAt(p, u, t)'
  BY DEF Room, RoomAt
<1>a. covered[u][t] \in Nat /\ pending[u][t] \in Int
  BY DEF TypeInv, TypeOK, Ledger!LedgerTypeOK
<1>b. Ledger!LedgerTypeOK
  BY DEF TypeInv, TypeOK
<1>1. ASSUME Kept(p), covered'[u][t] <= covered[u][t], UNCHANGED ledgerVars PROVE RoomAt(p, u, t)'
  <2>1. \A n : Due(p, n)' => Due(p, n)
    BY <1>1, DueOld DEF ledgerVars
  <2>2. pending'[u][t] <= pending[u][t]
    BY <1>1, <1>a DEF ledgerVars
  <2>3. QED
    BY <1>0, <1>1, <2>1, <2>2, RoomKept
<1>2. CASE UNCHANGED vars
  <2>1. Kept(p) /\ covered'[u][t] <= covered[u][t] /\ UNCHANGED ledgerVars
    BY <1>2, <1>a DEF vars, callVars, usageVars, Kept
  <2>2. QED
    BY <1>1, <2>1
<1>3. CASE CallStep(p)
  <2>1. CASE ReleaseReservation(p)
    BY <1>0, <2>1, RoomOwnRelease
  <2>2. CASE RecordUsage(p) \/ \E r \in Ids : Reserve(p, r)
    <3>1. pc' = [pc EXCEPT ![p] = "unlock"]
      BY <2>2 DEF RecordUsage, Reserve, Goto
    <3>2. pc'[p] = "unlock"
      BY <3>1 DEF TypeInv, TypeOK
    <3>3. QED
      BY <3>2 DEF RoomAt, Due
  <2>3. CASE ~ReleaseReservation(p) /\ ~RecordUsage(p) /\ ~\E r \in Ids : Reserve(p, r)
    <3>1. UNCHANGED <<ledgerVars, covered>>
      BY <1>3, <2>3 DEF CallStep, Unlock, BeginCheck, ReadConfig, ReadPolicy, ReadPlan, ReadUsage,
           Decide, CheckFails, BeginCompletion, Lookup, RecordFails, usageVars
    <3>2. QED
      BY <1>0, <1>3, <2>3, <3>1, RoomQuiet
  <2>4. QED
    BY <2>1, <2>2, <2>3
<1>4. ASSUME NEW q \in Procs, q # p, CallStep(q) PROVE RoomAt(p, u, t)'
  <2>1. Kept(p) /\ user[p] = u /\ ~raced[u]
    BY <1>0, <1>4, OthersKept DEF Kept, Grows
  <2>2. user[q] # u
    BY <1>4, <2>1, Alone
  <2>3. ASSUME NEW r \in Ids, Reserve(q, r) PROVE RoomAt(p, u, t)'
    <3>0. size[q] \in Sizes \cup {0}
      BY DEF TypeInv, TypeOK
    <3>1. covered' = covered
      BY <2>3 DEF Reserve, usageVars
    <3>2. CASE UNCHANGED ledgerVars
      BY <1>1, <1>a, <2>1, <3>1, <3>2
    <3>3. CASE Ledger!Reserve(r, user[q], type[q], size[q])
      <4>1. pending'[u][t] = pending[u][t]
        BY <2>2, <3>3 DEF Ledger!Reserve, TypeInv, TypeOK, Ledger!LedgerTypeOK
      <4>2. /\ \A i \in Ids : issued[i] # NoRes => issued'[i] = issued[i]
            /\ open \subseteq open'
        BY <3>3 DEF Ledger!Reserve, TypeInv, TypeOK, Ledger!LedgerTypeOK
      <4>3. \A n : Due(p, n)' => Due(p, n)
        BY <2>1, <4>2, DueOld
      <4>4. QED
        BY <1>0, <1>a, <2>1, <3>1, <4>1, <4>3, RoomKept
    <3>4. QED
      BY <2>3, <3>0, <3>2, <3>3, ReserveAsked
  <2>4. CASE ReleaseReservation(q)
    <3>1. /\ rsv[q] \in Ids /\ issued[rsv[q]].user # u /\ Ledger!Release(rsv[q])
          /\ covered' = covered
      BY <2>2, <2>4 DEF ReleaseReservation, TypeInv, Arguments, CompletionSteps
    <3>2. pending'[u][t] = pending[u][t] /\ issued' = issued /\ open' = open \ {rsv[q]}
      BY <1>b, <3>1, ReleaseEffect
    <3>3. pc[p] \in {"release", "record"} => rsv[p] # rsv[q]
      BY <2>1, <3>1 DEF TypeInv, Arguments, CompletionSteps
    <3>4. \A n : Due(p, n)' => Due(p, n)
      BY <2>1, <3>2, <3>3, DueOld
    <3>5. QED
      BY <1>0, <1>a, <2>1, <3>1, <3>2, <3>4, RoomKept
  <2>5. CASE RecordUsage(q)
    <3>1. covered'[u][t] = covered[u][t]
      BY <2>2, <2>5, RecordUsageEffect
    <3>2. UNCHANGED ledgerVars
      BY <2>5 DEF RecordUsage
    <3>3. QED
      BY <1>1, <1>a, <2>1, <3>1, <3>2
  <2>6. CASE UNCHANGED <<ledgerVars, covered>>
    BY <1>1, <1>a, <2>1, <2>6
  <2>7. QED
    BY <1>4, <2>3, <2>4, <2>5, <2>6
       DEF CallStep, Unlock, BeginCheck, ReadConfig, ReadPolicy, ReadPlan, ReadUsage,
           Decide, CheckFails, BeginCompletion, Lookup, RecordFails, usageVars
<1>5. ASSUME NEW v \in Users, NEW w \in Types, Expire(v, w) PROVE RoomAt(p, u, t)'
  <2>1. Kept(p) /\ UNCHANGED ledgerVars
    BY <1>5 DEF Expire, callVars, Kept
  <2>2. covered'[u][t] <= covered[u][t]
    BY <1>5, ExpireEffect
  <2>3. QED
    BY <1>1, <2>1, <2>2
<1>6. ASSUME NEW r \in Ids, CallerReleases(r) PROVE RoomAt(p, u, t)'
  <2>1. /\ Kept(p) /\ r \in open /\ Ledger!Release(r) /\ covered' = covered
        /\ soft' = soft /\ raced' = raced
    BY <1>6 DEF CallerReleases, callVars, usageVars, configVars, lockVars, Kept
  <2>2. /\ issued' = issued /\ open' = open \ {r} /\ issued[r] # NoRes
        /\ IF issued[r].user = u /\ issued[r].type = t
           THEN pending'[u][t] = pending[u][t] - issued[r].bytes
           ELSE pending'[u][t] = pending[u][t]
    BY <1>b, <2>1, ReleaseEffect
  <2>3. pending'[u][t] <= pending[u][t]
    <3>1. issued[r].bytes \in Nat
      BY <1>b, <2>2, ReservationType
    <3>2. QED
      BY <1>a, <2>2, <3>1
  <2>4. ASSUME NEW n \in Sizes \cup {0}, type[p] = t, u \notin soft', Due(p, n)'
        PROVE  Due(p, n) \/ Fits(u, t, n)'
    <3>1. CASE pc[p] \in {"release", "record"} /\ rsv[p] = r
      <4>1. issued[r].user = u /\ issued[r].type = t /\ issued[r].bytes = n
        BY <2>1, <2>2, <2>4, <3>1 DEF Due, Kept, TypeInv, Arguments, CompletionSteps
      <4>2. QED
        BY <1>0, <2>1, <2>4, <4>1, RoomAfterRelease
    <3>2. CASE ~(pc[p] \in {"release", "record"} /\ rsv[p] = r)
      BY <2>1, <2>2, <2>4, <3>2, DueOld
    <3>3. QED
      BY <3>1, <3>2
  <2>5. QED
    BY <1>0, <1>a, <2>1, <2>3, <2>4, RoomKept
<1>7. ASSUME ConfigStep \/ (\E v \in Racy : LockRaces(v))
             \/ (\E v \in Users, w \in Types, n \in Sizes : RecordDirectly(v, w, n))
      PROVE  RoomAt(p, u, t)'
  <2>1. UNCHANGED <<callVars, ledgerVars, covered>>
    BY <1>7 DEF ConfigStep, SetPolicy, SetOwnLimit, SetPlan, SetPlanLimit, LockRaces, RecordDirectly,
                usageVars
  <2>2. Kept(p)
    BY <2>1 DEF callVars, Kept
  <2>3. QED
    BY <1>1, <1>a, <2>1, <2>2
<1>8. CASE Restart
  BY <1>8, FlowAssumption DEF Restart
<1>9. QED
  BY <1>2, <1>3, <1>4, <1>5, <1>6, <1>7, <1>8 DEF Next

LEMMA WithinStep ==
  ASSUME TypeInv, TypeInv', HeldCounted, ChargeOrder, Room, WithinLimit, [Next]_vars
  PROVE  WithinLimit'
<1>0. Grows
  BY GrowsStep
<1>1. (\A u \in Users, t \in Types : ~raced'[u] /\ u \notin soft' => Fits(u, t, 0)') => WithinLimit'
  <2>1. \A u \in Users, t \in Types : covered'[u][t] \in Nat /\ pending'[u][t] \in Int
    BY DEF TypeInv, TypeOK, Ledger!LedgerTypeOK
  <2>2. \A u \in Users, t \in Types :
           covered'[u][t] + pending'[u][t] + 0 = covered'[u][t] + pending'[u][t]
    BY <2>1
  <2>3. \A u \in Users, t \in Types :
           Fits(u, t, 0)' <=> \E n \in LimitsSeen(u, t)' :
                                n = 0 \/ covered'[u][t] + pending'[u][t] <= n
    BY <2>2 DEF Fits
  <2>4. QED
    BY <2>3 DEF WithinLimit
<1>2. SUFFICES ASSUME NEW u \in Users, NEW t \in Types, ~raced'[u], u \notin soft'
               PROVE  Fits(u, t, 0)'
  BY <1>1
<1>3. ~raced[u] /\ u \notin soft /\ Fits(u, t, 0)
  BY <1>0, <1>2, WithinFits DEF Grows
<1>4. /\ covered[u][t] \in Nat /\ pending[u][t] \in Int
      /\ covered'[u][t] \in Nat /\ pending'[u][t] \in Int
  BY DEF TypeInv, TypeOK, Ledger!LedgerTypeOK
<1>b. Ledger!LedgerTypeOK
  BY DEF TypeInv, TypeOK
<1>5. ASSUME covered'[u][t] <= covered[u][t], pending'[u][t] <= pending[u][t]
      PROVE  Fits(u, t, 0)'
  <2>1. covered'[u][t] + pending'[u][t] + 0 <= covered[u][t] + pending[u][t] + 0
    BY <1>4, <1>5
  <2>2. QED
    BY <1>0, <1>3, <2>1, FitsStill
<1>6. ASSUME UNCHANGED <<covered, pending>> PROVE Fits(u, t, 0)'
  BY <1>4, <1>5, <1>6
<1>7. ASSUME NEW r \in Ids, Ledger!Release(r), covered' = covered PROVE Fits(u, t, 0)'
  <2>1. issued[r].bytes \in Nat
    BY <1>b, <1>7, ReservationType DEF Ledger!Release
  <2>2. pending'[u][t] = pending[u][t] - issued[r].bytes \/ pending'[u][t] = pending[u][t]
    BY <1>b, <1>7, ReleaseEffect
  <2>3. pending'[u][t] <= pending[u][t]
    BY <1>4, <2>1, <2>2
  <2>4. covered'[u][t] <= covered[u][t]
    BY <1>4, <1>7
  <2>5. QED
    BY <1>5, <2>3, <2>4
<1>8. ASSUME NEW p \in Procs, NEW r \in Ids, Reserve(p, r) PROVE Fits(u, t, 0)'
  <2>0. size[p] \in Sizes \cup {0}
    BY DEF TypeInv, TypeOK
  <2>1. covered' = covered /\ pc[p] = "reserve"
    BY <1>8 DEF Reserve, usageVars
  <2>2. CASE UNCHANGED ledgerVars
    BY <1>6, <2>1, <2>2 DEF ledgerVars
  <2>3. CASE Ledger!Reserve(r, user[p], type[p], size[p])
    <3>1. user[p] \in Users /\ type[p] \in Types /\ size[p] \in Sizes \cup {0}
      BY <2>1 DEF TypeInv, TypeOK, Arguments
    <3>2. CASE user[p] = u /\ type[p] = t
      <4>1. PICK n \in Sizes \cup {0} : n = size[p]
        BY <3>1
      <4>2. Due(p, n)
        BY <2>1, <4>1 DEF Due
      <4>3. Fits(u, t, n) /\ n \in Nat
        BY <1>3, <3>2, <4>2, SizesType DEF Room, RoomAt
      <4>4. pending'[u][t] = pending[u][t] + n
        BY <1>b, <2>3, <3>2, <4>1 DEF Ledger!Reserve, Ledger!LedgerTypeOK
      <4>5. covered'[u][t] + pending'[u][t] + 0 <= covered[u][t] + pending[u][t] + n
        BY <1>4, <2>1, <4>3, <4>4
      <4>6. QED
        BY <1>0, <4>3, <4>5, FitsStill
    <3>3. CASE ~(user[p] = u /\ type[p] = t)
      <4>1. pending'[u][t] = pending[u][t]
        BY <1>b, <2>3, <3>1, <3>3 DEF Ledger!Reserve, Ledger!LedgerTypeOK
      <4>2. QED
        BY <1>4, <1>5, <2>1, <4>1
    <3>4. QED
      BY <3>2, <3>3
  <2>4. QED
    BY <1>8, <2>0, <2>2, <2>3, ReserveAsked
<1>9. ASSUME NEW p \in Procs, RecordUsage(p) PROVE Fits(u, t, 0)'
  <2>1. pc[p] = "record" /\ pending' = pending
    BY <1>9 DEF RecordUsage, ledgerVars
  <2>2. PICK n \in Sizes \cup {0} : n = issued[rsv[p]].bytes
    BY <1>9, RecordUsageEffect
  <2>3. n \in Nat /\ Least(size[p], n) \in Nat /\ Least(size[p], n) <= n
    <3>1. n \in Nat /\ size[p] \in Nat
      BY <1>9, SizesType, RecordUsageEffect
    <3>2. QED
      BY <3>1, LeastType
  <2>4. CASE user[p] = u /\ type[p] = t
    <3>1. Due(p, n)
      BY <2>1, <2>2 DEF Due, ChargeOrder
    <3>2. Fits(u, t, n)
      BY <1>3, <2>4, <3>1 DEF Room, RoomAt
    <3>3. covered'[u][t] = covered[u][t] + Least(size[p], n)
      BY <1>9, <2>2, <2>4, RecordUsageEffect
    <3>4. covered'[u][t] + pending'[u][t] + 0 <= covered[u][t] + pending[u][t] + n
      BY <1>4, <2>1, <2>3, <3>3
    <3>5. QED
      BY <1>0, <2>3, <3>2, <3>4, FitsStill
  <2>5. CASE ~(user[p] = u /\ type[p] = t)
    <3>1. covered'[u][t] = covered[u][t]
      BY <1>9, <2>5, RecordUsageEffect
    <3>2. QED
      BY <1>4, <1>5, <2>1, <3>1
  <2>6. QED
    BY <2>4, <2>5
<1>10. ASSUME NEW p \in Procs, ReleaseReservation(p) PROVE Fits(u, t, 0)'
  BY <1>7, <1>10 DEF ReleaseReservation, TypeInv, Arguments, CompletionSteps
<1>11. ASSUME NEW r \in Ids, CallerReleases(r) PROVE Fits(u, t, 0)'
  BY <1>7, <1>11 DEF CallerReleases, usageVars
<1>12. ASSUME NEW v \in Users, NEW w \in Types, Expire(v, w) PROVE Fits(u, t, 0)'
  <2>1. covered'[u][t] <= covered[u][t] /\ pending' = pending
    BY <1>12, ExpireEffect DEF Expire, ledgerVars
  <2>2. QED
    BY <1>4, <1>5, <2>1
<1>13. CASE Restart
  <2>1. covered' = covered /\ pending'[u][t] = 0
    BY <1>13 DEF Restart, Ledger!Forget, usageVars
  <2>2. pending[u][t] >= 0
    <3>1. IsFiniteSet(HeldBytes(u, t)) /\ pending[u][t] = Cardinality(HeldBytes(u, t))
      BY DEF HeldCounted
    <3>2. pending[u][t] \in Nat
      BY <3>1, FS_CardinalityType
    <3>3. QED
      BY <3>2
  <2>3. QED
    BY <1>4, <1>5, <2>1, <2>2
<1>14. CASE UNCHANGED vars
  BY <1>6, <1>14 DEF vars, ledgerVars, usageVars
<1>15. QED
  BY <1>6, <1>8, <1>9, <1>10, <1>11, <1>12, <1>13, <1>14
     DEF Next, CallStep, ConfigStep, Unlock, BeginCheck, ReadConfig, ReadPolicy, ReadPlan, ReadUsage,
         Decide, CheckFails, BeginCompletion, Lookup, RecordFails, RecordDirectly, SetPolicy,
         SetOwnLimit, SetPlan, SetPlanLimit, LockRaces, ledgerVars, usageVars

-----------------------------------------------------------------------------
(* The inductive invariant, and what follows.                              *)

LEMMA FlowInvInit == Init => FlowInv
<1> SUFFICES ASSUME Init PROVE FlowInv
  OBVIOUS
<1>1. TypeInv
  BY TypeInvInit
<1> USE DEF Init
<1>2. HeldCounted
  <2>1. open = {} /\ pending = [u \in Users |-> [t \in Types |-> 0]]
    BY DEF Ledger!LedgerInit
  <2>2. \A u \in Users, t \in Types : HeldBytes(u, t) = {}
    BY <2>1, HeldByte
  <2>3. QED
    BY <2>1, <2>2, FS_EmptySet DEF HeldCounted
<1>3. Locked
  BY FlowAssumption DEF Mutex!MutexInit, Locked, HoldersCall, Mutex!ExclusiveUnlessRaced
<1>4. ChargeOrder /\ FirstCharge /\ ChargedOnce
  BY DEF Ledger!LedgerInit, ChargeOrder, FirstCharge, ChargedOnce
<1>5. History
  BY DEF History
<1>6. Resolved /\ Room
  BY DEF Resolved, Room, RoomAt, Due
<1>7. CoveredIsUsage
  BY DEF CoveredIsUsage
<1>8. WithinLimit
  <2>1. SUFFICES ASSUME NEW u \in Users, NEW t \in Types
                 PROVE  \E n \in LimitsSeen(u, t) : n = 0 \/ covered[u][t] + pending[u][t] <= n
    BY DEF WithinLimit
  <2>2. own[u][t] \in Nat /\ planLimit[plan[u]][t] \in Limits /\ plan[u] \in Plans
    BY LimitsNat DEF TypeInv, TypeOK
  <2>3. covered[u][t] + pending[u][t] = 0
    BY DEF Ledger!LedgerInit
  <2>4. CASE own[u][t] = 0
    <3>1. planLimit[plan[u]][t] \in LimitsSeen(u, t)
      BY <2>2, <2>4 DEF LimitsSeen
    <3>2. planLimit[plan[u]][t] \in Nat
      BY <2>2, LimitsNat
    <3>3. QED
      BY <2>3, <3>1, <3>2
  <2>5. CASE own[u][t] # 0
    <3>1. own[u][t] \in LimitsSeen(u, t)
      BY <2>5 DEF LimitsSeen
    <3>2. QED
      BY <2>2, <2>3, <3>1
  <2>6. QED
    BY <2>4, <2>5
<1>9. QED
  BY <1>1, <1>2, <1>3, <1>4, <1>5, <1>6, <1>7, <1>8 DEF FlowInv

LEMMA FlowInvStep == FlowInv /\ [Next]_vars => FlowInv'
<1> SUFFICES ASSUME FlowInv, [Next]_vars PROVE FlowInv'
  OBVIOUS
<1> USE DEF FlowInv
<1>1. TypeInv'
  BY TypeInvStep
<1>2. HeldCounted' /\ Locked'
  BY HeldStep, LockedStep
<1>3. ChargeOrder' /\ FirstCharge' /\ ChargedOnce'
  BY <1>1, ChargeStep DEF ChargeInv
<1>4. History' /\ Resolved' /\ CoveredIsUsage'
  BY <1>1, HistoryStep, ResolvedStep, CoveredStep
<1>5. Room' /\ WithinLimit'
  BY <1>1, RoomStep, WithinStep
<1>6. QED
  BY <1>1, <1>2, <1>3, <1>4, <1>5

LEMMA FlowInvariant == Spec => []FlowInv
<1>1. FlowInv /\ [Next]_vars => FlowInv'
  BY FlowInvStep
<1>2. QED
  BY FlowInvInit, <1>1, PTL DEF Spec

\* The specification is type-correct.
THEOREM TypeCorrect == Spec => []TypeOK
<1>1. FlowInv => TypeOK
  BY DEF FlowInv, TypeInv
<1>2. QED
  BY <1>1, FlowInvariant, PTL

\* However many checks, completions, callers, changes of configuration and
\* restarts interleave, what a user's reservations have let through and still
\* hold stays within a hard limit the user has had (checkQuotaWithLock,
\* handleReservationWithUsage).
THEOREM LimitHolds == Spec => []WithinLimit
<1>1. FlowInv => WithinLimit
  BY DEF FlowInv
<1>2. QED
  BY <1>1, FlowInvariant, PTL

\* However often a completion is delivered, to whatever number of goroutines,
\* usage is recorded at most once for its reservation while the user's lock
\* excludes (handleReservationWithUsage).
THEOREM CompletionCharges == Spec => []ChargedOnce
<1>1. FlowInv => ChargedOnce
  BY DEF FlowInv
<1>2. QED
  BY <1>1, FlowInvariant, PTL

\* Even if the lock fails, nothing is counted as held and as used at once:
\* the completion handler releases before it records.
THEOREM CountedOnce == Spec => []NeverCountedTwice
<1>1. FlowInv => NeverCountedTwice
  <2>1. SUFFICES ASSUME TypeInv, ChargeOrder PROVE NeverCountedTwice
    BY DEF FlowInv
  <2>2. QED
    BY <2>1 DEF ChargeOrder, NeverCountedTwice
<1>2. QED
  BY <1>1, FlowInvariant, PTL
=============================================================================
