-------------------------- MODULE ReservationsProofs --------------------------
(***************************************************************************)
(* Proofs about the reservation manager, for any number of reservations    *)
(* and users: the maps agree, a sum that is under way stays between what   *)
(* is held and what was held, and the manager implements the ledger.       *)
(***************************************************************************)
EXTENDS Reservations, SumTheorems, TLAPS

\* An index is a map from users to sets of reservations.
Indexed(index) ==
    /\ index = [u \in DOMAIN index |-> index[u]]
    /\ DOMAIN index \subseteq Users
    /\ \A u \in DOMAIN index : index[u] \subseteq Ids

\* What IndexAgrees says, reservation by reservation.
IndexFits(index, rs, obj) ==
    /\ \A u \in DOMAIN index : index[u] # {}
    /\ \A u \in DOMAIN index : \A r \in index[u] : r \in rs /\ obj[r].user = u
    /\ \A r \in rs : obj[r].user \in DOMAIN index /\ r \in index[obj[r].user]

ResInv ==
    /\ TypeOK
    /\ Indexed(userReservations)
    /\ IndexFits(userReservations, reservations, object)
    /\ HeldIsFound

LEMMA ResInvInit == Init => ResInv
  BY DEF Init, ResInv, TypeOK, Indexed, IndexFits, HeldIsFound

\* Taking reservations out of the main map and out of the index leaves the two in
\* agreement.
LEMMA UnindexFits ==
  ASSUME NEW index, NEW rs, NEW obj, NEW gone, Indexed(index), IndexFits(index, rs, obj)
  PROVE  Indexed(Unindex(index, gone)) /\ IndexFits(Unindex(index, gone), rs \ gone, obj)
<1> DEFINE new == Unindex(index, gone)
<1>1. /\ DOMAIN new = {v \in DOMAIN index : ~(index[v] \subseteq gone)}
      /\ \A u \in DOMAIN new : new[u] = index[u] \ gone
      /\ new = [u \in DOMAIN new |-> new[u]]
  BY DEF Unindex
<1> HIDE DEF new
<1>2. Indexed(new)
  BY <1>1 DEF Indexed
<1>3. \A u \in DOMAIN new : new[u] # {}
  BY <1>1
<1>4. \A u \in DOMAIN new : \A r \in new[u] : r \in rs \ gone /\ obj[r].user = u
  BY <1>1 DEF IndexFits
<1>5. ASSUME NEW r \in rs \ gone PROVE obj[r].user \in DOMAIN new /\ r \in new[obj[r].user]
  <2>1. obj[r].user \in DOMAIN index /\ r \in index[obj[r].user]
    BY <1>5 DEF IndexFits
  <2>2. QED
    BY <1>1, <1>5, <2>1
<1>6. QED
  BY <1>2, <1>3, <1>4, <1>5 DEF IndexFits, new

LEMMA ReserveStep ==
  ASSUME ResInv, NEW r \in Ids, NEW u \in Users, NEW t \in Types, NEW n \in Sizes,
         Reserve(r, u, t, n)
  PROVE  ResInv'
<1> DEFINE new == [user |-> u, type |-> t, bytes |-> n, released |-> FALSE]
<1>1. new \in UserReservation /\ new # NoRes
  <2>1. n \in Int /\ n <= MaxInt /\ MaxInt \in Int
    BY ReservationsAssumption
  <2>2. n >= 1
    BY <2>1 DEF Reserve
  <2>3. n \in 1..MaxInt
    BY <2>1, <2>2
  <2>4. new \in UserReservation
    BY <2>3 DEF UserReservation
  <2>5. QED
    BY <2>4, NoResAssumption
<1>2. /\ object \in [Ids -> UserReservation \cup {NoRes}] /\ object[r] = NoRes
      /\ object' = [object EXCEPT ![r] = new]
      /\ reservations' = reservations \cup {r}
      /\ wanted' = wanted \cup {r} /\ UNCHANGED <<cleaning, aged, scan>>
  BY DEF Reserve, Made, ResInv, TypeOK
<1>3. new.user = u /\ ~new.released
  OBVIOUS
<1> HIDE DEF new
<1>4. /\ object' \in [Ids -> UserReservation \cup {NoRes}]
      /\ \A q \in Ids : object'[q] = IF q = r THEN new ELSE object[q]
  BY <1>1, <1>2
<1>5. r \notin reservations /\ r \notin wanted /\ r \notin cleaning
  BY <1>2 DEF ResInv, TypeOK, Made
<1> DEFINE index == userReservations'
<1>6. /\ DOMAIN index = DOMAIN userReservations \cup {u}
      /\ \A v \in DOMAIN index : v # u => index[v] = userReservations[v]
      /\ index[u] = (IF u \in DOMAIN userReservations THEN userReservations[u] ELSE {}) \cup {r}
      /\ index = [v \in DOMAIN index |-> index[v]]
  BY DEF Reserve
<1> HIDE DEF index
<1>7. Indexed(index)
  BY <1>6 DEF ResInv, Indexed
<1>8. IndexFits(index, reservations', object')
  <2>1. \A v \in DOMAIN index : index[v] # {}
    BY <1>6 DEF ResInv, IndexFits
  <2>2. ASSUME NEW v \in DOMAIN index, NEW q \in index[v]
        PROVE  q \in reservations' /\ object'[q].user = v
    <3>1. CASE q = r
      <4>1. v = u
        BY <1>5, <1>6, <2>2, <3>1 DEF ResInv, IndexFits
      <4>2. QED
        BY <1>2, <1>3, <1>4, <3>1, <4>1
    <3>2. CASE q # r
      <4>1. v \in DOMAIN userReservations /\ q \in userReservations[v]
        BY <1>6, <2>2, <3>2
      <4>2. q \in reservations /\ object[q].user = v /\ q \in Ids
        BY <4>1 DEF ResInv, IndexFits, Indexed
      <4>3. QED
        BY <1>2, <1>4, <3>2, <4>2
    <3>3. QED
      BY <3>1, <3>2
  <2>3. ASSUME NEW q \in reservations' PROVE object'[q].user \in DOMAIN index /\ q \in index[object'[q].user]
    <3>1. CASE q = r
      BY <1>3, <1>4, <1>6, <3>1
    <3>2. CASE q # r
      <4>1. q \in reservations /\ q \in Ids
        BY <1>2, <2>3, <3>2 DEF ResInv, TypeOK
      <4>2. object[q].user \in DOMAIN userReservations /\ q \in userReservations[object[q].user]
        BY <4>1 DEF ResInv, IndexFits
      <4>3. object'[q] = object[q]
        BY <1>4, <3>2, <4>1
      <4>4. QED
        BY <1>6, <4>2, <4>3
    <3>3. QED
      BY <3>1, <3>2
  <2>4. QED
    BY <2>1, <2>2, <2>3 DEF IndexFits
<1>9. TypeOK'
  <2>1. DOMAIN userReservations' \subseteq Users
        /\ \A v \in DOMAIN userReservations' : userReservations'[v] \subseteq Ids
    BY <1>7 DEF Indexed, index
  <2>2. \A q \in Ids : Made(q) => object'[q] = object[q] /\ object'[q] # NoRes
    BY <1>2, <1>4 DEF Made
  <2>3. object'[r] # NoRes
    BY <1>1, <1>4
  <2>4. QED
    BY <1>2, <1>4, <2>1, <2>2, <2>3 DEF ResInv, TypeOK, Made
<1>10. HeldIsFound'
  <2>1. SUFFICES ASSUME NEW q \in wanted', ~object'[q].released
                 PROVE  q \in reservations'
    BY DEF HeldIsFound, GetReservation
  <2>2. CASE q = r
    BY <1>2, <2>2
  <2>3. CASE q # r
    <3>1. q \in wanted /\ object'[q] = object[q]
      BY <1>2, <1>4, <2>3 DEF ResInv, TypeOK
    <3>2. QED
      BY <1>2, <2>1, <3>1 DEF ResInv, HeldIsFound, GetReservation
  <2>4. QED
    BY <2>2, <2>3
<1>11. QED
  BY <1>7, <1>8, <1>9, <1>10 DEF ResInv, index

LEMMA ReleaseStep ==
  ASSUME ResInv, NEW r \in Ids, Release(r)
  PROVE  ResInv'
<1>1. /\ object \in [Ids -> UserReservation \cup {NoRes}] /\ object[r] \in UserReservation
      /\ object' = [object EXCEPT ![r].released = TRUE]
      /\ cleaning' = cleaning \cup {r}
      /\ UNCHANGED <<reservations, userReservations, aged, wanted, scan>>
  BY DEF Release, Made, ResInv, TypeOK
<1>2. /\ object'[r] = [object[r] EXCEPT !.released = TRUE]
      /\ \A q \in Ids : q # r => object'[q] = object[q]
  BY <1>1
<1>3. /\ object'[r] \in UserReservation /\ object'[r] # NoRes /\ object'[r].released
      /\ object'[r].user = object[r].user
  BY <1>1, <1>2, NoResAssumption DEF UserReservation
<1>4. \A q \in Ids : /\ object'[q].user = object[q].user
                     /\ object[q] # NoRes => object'[q] # NoRes
                     /\ ~object'[q].released => q # r /\ object'[q] = object[q]
  BY <1>2, <1>3
<1>5. object' \in [Ids -> UserReservation \cup {NoRes}]
  BY <1>1, <1>3
<1>6. TypeOK'
  BY <1>1, <1>2, <1>3, <1>4, <1>5 DEF ResInv, TypeOK, Made
<1>7. Indexed(userReservations') /\ IndexFits(userReservations', reservations', object')
  <2>1. reservations \subseteq Ids /\ \A u \in DOMAIN userReservations : userReservations[u] \subseteq Ids
    BY DEF ResInv, TypeOK
  <2>2. QED
    BY <1>1, <1>4, <2>1 DEF ResInv, Indexed, IndexFits
<1>8. HeldIsFound'
  <2>1. wanted \subseteq Ids
    BY DEF ResInv, TypeOK
  <2>2. QED
    BY <1>1, <1>4, <2>1 DEF ResInv, HeldIsFound, GetReservation
<1>9. QED
  BY <1>6, <1>7, <1>8 DEF ResInv

\* Released reservations are taken out of both maps.
LEMMA RemoveStep ==
  ASSUME ResInv, NEW gone, \A r \in gone : object[r].released,
         reservations' = reservations \ gone,
         userReservations' = Unindex(userReservations, gone),
         cleaning' \subseteq cleaning, UNCHANGED <<object, aged, wanted, scan>>
  PROVE  ResInv'
<1>1. Indexed(userReservations') /\ IndexFits(userReservations', reservations', object)
  BY UnindexFits DEF ResInv
<1>2. TypeOK'
  BY <1>1 DEF ResInv, TypeOK, Indexed, Made
<1>3. HeldIsFound'
  BY DEF ResInv, HeldIsFound, GetReservation
<1>4. QED
  BY <1>1, <1>2, <1>3 DEF ResInv

LEMMA ResInvStep == ResInv /\ [Next]_vars => ResInv'
<1> SUFFICES ASSUME ResInv, [Next]_vars PROVE ResInv'
  OBVIOUS
<1>1. ASSUME NEW r \in Ids, NEW u \in Users, NEW t \in Types, NEW n \in Sizes, Reserve(r, u, t, n)
      PROVE  ResInv'
  BY <1>1, ReserveStep
<1>2. ASSUME NEW r \in Ids, Release(r) PROVE ResInv'
  BY <1>2, ReleaseStep
<1>3. ASSUME NEW r \in Ids, CleanupReservation(r) PROVE ResInv'
  <2>1. object[r].released
    BY <1>3 DEF CleanupReservation, ResInv, TypeOK
  <2>2. /\ reservations' = reservations \ {r}
        /\ userReservations' = Unindex(userReservations, {r})
        /\ cleaning' \subseteq cleaning /\ UNCHANGED <<object, aged, wanted, scan>>
    BY <1>3 DEF CleanupReservation
  <2>3. QED
    BY <2>1, <2>2, RemoveStep
<1>4. CASE CleanupStaleReservations
  <2> DEFINE stale == {r \in reservations : object[r].released /\ r \in aged}
  <2>1. /\ reservations' = reservations \ stale
        /\ userReservations' = Unindex(userReservations, stale)
        /\ cleaning' \subseteq cleaning /\ UNCHANGED <<object, aged, wanted, scan>>
    BY <1>4 DEF CleanupStaleReservations
  <2>2. \A r \in stale : object[r].released
    OBVIOUS
  <2> HIDE DEF stale
  <2>3. QED
    BY <2>1, <2>2, RemoveStep
<1>5. ASSUME NEW r \in Ids, ReleaseAgain(r) \/ Age(r) \/ Abandon(r) PROVE ResInv'
  <2>1. /\ UNCHANGED <<object, reservations, userReservations, cleaning, scan>>
        /\ wanted' \subseteq wanted /\ aged' \subseteq aged \cup {r} /\ (aged' # aged => Made(r))
    BY <1>5 DEF ReleaseAgain, Age, Abandon, vars
  <2>2. QED
    BY <2>1 DEF ResInv, TypeOK, Made, HeldIsFound, GetReservation
<1>6. ASSUME NEW r \in Ids, AddToSum(r) PROVE ResInv'
  <2>1. scan'.todo \subseteq Ids
    <3>1. scan.todo \subseteq Ids
      BY <1>6 DEF AddToSum, ResInv, TypeOK
    <3>2. QED
      BY <1>6, <3>1 DEF AddToSum
  <2>2. UNCHANGED <<object, reservations, userReservations, cleaning, aged, wanted>>
    BY <1>6 DEF AddToSum
  <2>3. QED
    BY <2>1, <2>2 DEF ResInv, TypeOK, Made, HeldIsFound, GetReservation
<1>7. ASSUME NEW u \in Users, NEW t \in Types, StartSum(u, t) PROVE ResInv'
  <2>1. scan'.todo = (IF u \in DOMAIN userReservations THEN userReservations[u] ELSE {})
    BY <1>7 DEF StartSum
  <2>2. scan'.todo \subseteq Ids
    BY <2>1 DEF ResInv, TypeOK
  <2>3. UNCHANGED <<object, reservations, userReservations, cleaning, aged, wanted>>
    BY <1>7 DEF StartSum
  <2>4. QED
    BY <2>2, <2>3 DEF ResInv, TypeOK, Made, HeldIsFound, GetReservation
<1>8. CASE EndSum \/ UNCHANGED vars
  BY <1>8 DEF EndSum, vars, ResInv, TypeOK, Made, HeldIsFound, GetReservation
<1>9. CASE Restart
  <2>1. /\ reservations' = {} /\ userReservations' = [u \in {} |-> {}] /\ cleaning' = {}
        /\ wanted' = {} /\ scan' = NoScan /\ UNCHANGED <<object, aged>>
    BY <1>9 DEF Restart
  <2>2. QED
    BY <2>1 DEF ResInv, TypeOK, Made, Indexed, IndexFits, HeldIsFound
<1>10. QED
  BY <1>1, <1>2, <1>3, <1>4, <1>5, <1>6, <1>7, <1>8, <1>9 DEF Next

THEOREM ResInvHolds == Spec => []ResInv
  BY ResInvInit, ResInvStep, PTL DEF Spec

-----------------------------------------------------------------------------
\* The maps, the handles and the sum keep their types; only a released reservation is
\* left to be cleaned up by the goroutine that released it.
THEOREM TypeCorrect == Spec => []TypeOK
<1>1. ResInv => TypeOK
  BY DEF ResInv
<1>2. QED
  BY <1>1, ResInvHolds, PTL

\* The main map and the users' maps name the same reservations, whatever releases,
\* cleanups, ticks and restarts come together.
THEOREM MapsAgree == Spec => []IndexAgrees
<1>1. ResInv => IndexAgrees
  <2> SUFFICES ASSUME ResInv PROVE IndexAgrees
    OBVIOUS
  <2>1. \A r : r \in UNION {userReservations[u] : u \in DOMAIN userReservations} <=> r \in reservations
    BY DEF ResInv, IndexFits
  <2>2. QED
    BY <2>1 DEF ResInv, IndexFits, IndexAgrees
<1>2. QED
  BY <1>1, ResInvHolds, PTL

\* A reservation that somebody may still complete is found until it is released.
THEOREM HeldStaysFound == Spec => []HeldIsFound
<1>1. ResInv => HeldIsFound
  BY DEF ResInv
<1>2. QED
  BY <1>1, ResInvHolds, PTL

Bytes(obj) == [r \in Ids |-> obj[r].bytes]

AddsBytes(h, obj, S) ==
    h = [s \in SUBSET S |-> IF s = {} THEN 0
                            ELSE obj[First(s)].bytes + h[s \ {First(s)}]]

LEMMA BytesAddUp ==
  ASSUME NEW obj, NEW S \in SUBSET Ids, \A r \in S : obj[r].bytes \in Nat
  PROVE  MapThenSumSet(LAMBDA r : obj[r].bytes, S) = SumFunctionOnSet(Bytes(obj), S)
<1> DEFINE h == CHOOSE h : AddsBytes(h, obj, S)
           u == [s \in SUBSET S |-> Cardinality(Units(Bytes(obj), s))]
<1>1. MapThenSumSet(LAMBDA r : obj[r].bytes, S) = h[S]
  BY Zenon DEF MapThenSumSet, MapThenFoldSet, AddsBytes, First
<1>2. IsFiniteSet(S) /\ \A r \in S : Bytes(obj)[r] \in Nat
  BY FiniteAssumption, FS_Subset DEF Bytes
<1>3. \A s \in SUBSET S : s # {} => Bytes(obj)[First(s)] = obj[First(s)].bytes
  BY DEF First, Bytes
<1>4. \A g : Adds(g, Bytes(obj), S) <=> AddsBytes(g, obj, S)
  <2>1. ASSUME NEW g, NEW s \in SUBSET S
        PROVE (IF s = {} THEN 0 ELSE obj[First(s)].bytes + g[s \ {First(s)}])
            = (IF s = {} THEN 0 ELSE Bytes(obj)[First(s)] + g[s \ {First(s)}])
    BY <1>3
  <2>2. QED
    BY <2>1, Zenon DEF Adds, AddsBytes
<1>5. AddsBytes(h, obj, S)
  <2>1. AddsBytes(u, obj, S)
    BY <1>2, <1>4, UnitsAddUp
  <2>2. QED
    BY <2>1, Zenon
<1>6. Adds(h, Bytes(obj), S)
  BY <1>4, <1>5
<1> HIDE DEF h
<1>7. h[S] = Cardinality(Units(Bytes(obj), S))
  BY <1>2, <1>6, AddingUpCounts
<1>8. QED
  BY <1>1, <1>2, <1>7, SumCountsUnits

MapsFit(obj, rs) ==
    /\ obj \in [Ids -> UserReservation \cup {NoRes}]
    /\ rs \in SUBSET Ids
    /\ \A r \in rs : obj[r] # NoRes

\* The pending reservations of u and t, and their bytes, as functions of the maps.
Held(obj, rs, u, t) ==
    {r \in rs : obj[r].user = u /\ obj[r].type = t /\ ~obj[r].released}

HeldSum(obj, rs, u, t) == SumFunctionOnSet(Bytes(obj), Held(obj, rs, u, t))

LEMMA HeldBytes ==
  ASSUME NEW obj, NEW rs, MapsFit(obj, rs), NEW u, NEW t, NEW r \in Held(obj, rs, u, t)
  PROVE  /\ r \in Ids /\ obj[r].bytes \in Nat /\ obj[r].bytes > 0
         /\ Bytes(obj)[r] = obj[r].bytes
<1>1. obj[r] \in UserReservation /\ r \in Ids
  BY DEF MapsFit, Held
<1>2. obj[r].bytes \in 1..MaxInt /\ MaxInt \in Nat
  BY <1>1, ReservationsAssumption DEF UserReservation
<1>3. QED
  BY <1>1, <1>2 DEF Bytes

\* What is added up over some of the pending reservations.
LEMMA PartSum ==
  ASSUME NEW obj, NEW rs, MapsFit(obj, rs), NEW u, NEW t, NEW S \in SUBSET Held(obj, rs, u, t)
  PROVE  /\ S \in SUBSET Ids /\ IsFiniteSet(S)
         /\ \A r \in S : /\ obj[r].bytes \in Nat /\ obj[r].bytes > 0
                         /\ Bytes(obj)[r] = obj[r].bytes
         /\ SumFunctionOnSet(Bytes(obj), S) \in Nat
<1>1. S \in SUBSET Ids /\ IsFiniteSet(S) /\ S \subseteq rs
  <2>1. S \in SUBSET Ids /\ S \subseteq rs
    BY DEF MapsFit, Held
  <2>2. QED
    BY <2>1, FiniteAssumption, FS_Subset
<1>2. \A r \in S : /\ obj[r].bytes \in Nat /\ obj[r].bytes > 0
                  /\ Bytes(obj)[r] = obj[r].bytes
  BY HeldBytes
<1>3. SumFunctionOnSet(Bytes(obj), S) \in Nat
  BY <1>1, <1>2, SumIsNat
<1>4. QED
  BY <1>1, <1>2, <1>3

\* Between two states of the objects: r is reserved, r is released.
Reserved(obj, new, r, u, t, n) ==
    /\ new[r] = [user |-> u, type |-> t, bytes |-> n, released |-> FALSE]
    /\ \A q \in Ids : q # r => new[q] = obj[q]

Released(obj, new, r) ==
    /\ new[r].released
    /\ \A q \in Ids :
          /\ new[q].user = obj[q].user
          /\ new[q].type = obj[q].type
          /\ new[q].bytes = obj[q].bytes
          /\ q # r => new[q].released = obj[q].released

\* A reservation more, of u and t.
LEMMA HeldAfterReserve ==
  ASSUME NEW obj, NEW rs, MapsFit(obj, rs), NEW new, NEW rs2, MapsFit(new, rs2),
         NEW r \in Ids, r \notin rs, rs2 = rs \cup {r},
         NEW u, NEW t, NEW n, Reserved(obj, new, r, u, t, n), NEW v, NEW w
  PROVE  HeldSum(new, rs2, v, w) =
             IF v = u /\ w = t THEN HeldSum(obj, rs, v, w) + n ELSE HeldSum(obj, rs, v, w)
<1> DEFINE H == Held(obj, rs, v, w)
           H2 == Held(new, rs2, v, w)
<1>1. /\ IsFiniteSet(H) /\ \A q \in H : Bytes(obj)[q] = obj[q].bytes /\ obj[q].bytes \in Nat
      /\ SumFunctionOnSet(Bytes(obj), H) \in Nat
  <2>1. H \in SUBSET Held(obj, rs, v, w)
    OBVIOUS
  <2> HIDE DEF H
  <2>2. QED
    BY <2>1, PartSum
<1>2. \A q \in H2 : Bytes(new)[q] = new[q].bytes /\ new[q].bytes \in Nat
  BY HeldBytes
<1>3. rs \subseteq Ids /\ H \subseteq rs
  BY DEF MapsFit, Held
<1>4. H2 = IF v = u /\ w = t THEN H \cup {r} ELSE H
  BY <1>3 DEF Held, Reserved
<1>5. \A q \in H : new[q].bytes = obj[q].bytes /\ q \in H2
  BY <1>3, <1>4 DEF Reserved
<1>6. SumFunctionOnSet(Bytes(new), H) = SumFunctionOnSet(Bytes(obj), H)
  <2>1. \A q \in H : Bytes(obj)[q] \in Nat /\ Bytes(new)[q] = Bytes(obj)[q]
    BY <1>1, <1>2, <1>5
  <2> HIDE DEF H, H2
  <2>2. QED
    BY <1>1, <2>1, SumOfSame
<1>7. CASE v = u /\ w = t
  <2>1. r \notin H /\ H2 = H \cup {r}
    BY <1>3, <1>4, <1>7
  <2>2. \A q \in H \cup {r} : Bytes(new)[q] \in Nat
    BY <1>2, <2>1
  <2>3. Bytes(new)[r] = n
    <3>1. Bytes(new)[r] = new[r].bytes
      BY DEF Bytes
    <3>2. QED
      BY <3>1 DEF Reserved
  <2> HIDE DEF H, H2
  <2>4. SumFunctionOnSet(Bytes(new), H \cup {r}) = Bytes(new)[r] + SumFunctionOnSet(Bytes(new), H)
    BY <1>1, <2>1, <2>2, SumWith
  <2>5. n \in Nat
    BY <2>2, <2>3
  <2>6. SumFunctionOnSet(Bytes(new), H2) = SumFunctionOnSet(Bytes(obj), H) + n
    BY <1>1, <1>6, <2>1, <2>3, <2>4, <2>5
  <2>7. QED
    BY <1>7, <2>6 DEF HeldSum, H, H2
<1>8. CASE ~(v = u /\ w = t)
  BY <1>4, <1>6, <1>8 DEF HeldSum
<1>9. QED
  BY <1>7, <1>8

\* A reservation less: released, or the sum over some of the others.
LEMMA SumAfterRelease ==
  ASSUME NEW obj, NEW rs, MapsFit(obj, rs), NEW new, MapsFit(new, rs),
         NEW r \in Ids, Released(obj, new, r), NEW v, NEW w, NEW T
  PROVE  SumFunctionOnSet(Bytes(new), Held(new, rs, v, w) \cap T) =
             IF r \in Held(obj, rs, v, w) \cap T
             THEN SumFunctionOnSet(Bytes(obj), Held(obj, rs, v, w) \cap T) - obj[r].bytes
             ELSE SumFunctionOnSet(Bytes(obj), Held(obj, rs, v, w) \cap T)
<1> DEFINE H == Held(obj, rs, v, w) \cap T
           H2 == Held(new, rs, v, w) \cap T
<1>1. H2 = H \ {r} /\ \A q \in Ids : new[q].bytes = obj[q].bytes
  BY DEF Held, MapsFit, Released
<1>2. /\ IsFiniteSet(H) /\ \A q \in H : Bytes(obj)[q] = obj[q].bytes /\ obj[q].bytes \in Nat
      /\ H \subseteq Ids
  <2>1. H \in SUBSET Held(obj, rs, v, w)
    OBVIOUS
  <2> HIDE DEF H
  <2>2. QED
    BY <2>1, PartSum
<1>3. /\ IsFiniteSet(H2) /\ \A q \in H2 : Bytes(new)[q] = new[q].bytes
  <2>1. H2 \in SUBSET Held(new, rs, v, w)
    OBVIOUS
  <2> HIDE DEF H2
  <2>2. QED
    BY <2>1, PartSum
<1> HIDE DEF H, H2
<1>4. SumFunctionOnSet(Bytes(new), H2) = SumFunctionOnSet(Bytes(obj), H2)
  <2>1. \A q \in H2 : Bytes(obj)[q] \in Nat /\ Bytes(new)[q] = Bytes(obj)[q]
    BY <1>1, <1>2, <1>3
  <2>2. QED
    BY <1>3, <2>1, SumOfSame
<1>5. CASE r \in H
  <2>1. SumFunctionOnSet(Bytes(obj), H) = Bytes(obj)[r] + SumFunctionOnSet(Bytes(obj), H \ {r})
    BY <1>2, <1>5, SumWithout
  <2>2. SumFunctionOnSet(Bytes(obj), H2) \in Nat
    BY <1>1, <1>2, <1>3, SumIsNat
  <2>3. obj[r].bytes \in Nat /\ Bytes(obj)[r] = obj[r].bytes
    BY <1>2, <1>5
  <2>4. SumFunctionOnSet(Bytes(new), H2) = SumFunctionOnSet(Bytes(obj), H) - obj[r].bytes
    BY <1>1, <1>4, <2>1, <2>2, <2>3
  <2>5. QED
    BY <1>5, <2>4 DEF H, H2
<1>6. CASE r \notin H
  BY <1>1, <1>4, <1>6 DEF H, H2
<1>7. QED
  BY <1>5, <1>6 DEF H

LEMMA TypeOKFits == TypeOK => MapsFit(object, reservations)
  BY DEF TypeOK, MapsFit, Made

LEMMA PendingBytesIs ==
  ASSUME MapsFit(object, reservations), NEW u, NEW t
  PROVE  PendingBytes(u, t) = HeldSum(object, reservations, u, t)
<1> DEFINE H == Held(object, reservations, u, t)
<1>1. Pending(u, t) = H
  BY DEF Held, Pending
<1>2. H \in SUBSET Ids /\ \A r \in H : object[r].bytes \in Nat
  <2>1. H \in SUBSET Held(object, reservations, u, t)
    OBVIOUS
  <2> HIDE DEF H
  <2>2. QED
    BY <2>1, PartSum
<1> HIDE DEF H
<1>3. MapThenSumSet(LAMBDA r : object[r].bytes, H) = SumFunctionOnSet(Bytes(object), H)
  BY <1>2, BytesAddUp
<1>4. PendingBytes(u, t) = MapThenSumSet(LAMBDA r : object[r].bytes, H)
  BY <1>1, Zenon DEF PendingBytes
<1>5. QED
  BY <1>3, <1>4, Zenon DEF HeldSum, H

PendingAddsUp ==
    \A u \in Users, t \in Types : PendingBytes(u, t) = HeldSum(object, reservations, u, t)

LEMMA PendingSums == TypeOK => PendingAddsUp
  BY TypeOKFits, PendingBytesIs, Zenon DEF PendingAddsUp

LEMMA PendingSumsNext == TypeOK' => PendingAddsUp'
  BY PendingSums, PTL

-----------------------------------------------------------------------------
\* Wrap leaves alone what an int64 can hold.
LEMMA WrapOfSmall ==
  ASSUME NEW n \in 0..MaxInt
  PROVE  Wrap(n) = n
<1>1. MaxInt \in Nat
  BY ReservationsAssumption
<1>2. PICK m \in Nat, k \in Nat : m = n + MaxInt + 1 /\ k = 2 * (MaxInt + 1) /\ m < k
  BY <1>1
<1>3. m % k = m
  BY <1>2
<1>4. QED
  BY <1>1, <1>2, <1>3 DEF Wrap

LEMMA WrapIsInt ==
  ASSUME NEW n \in Int
  PROVE  Wrap(n) \in Int
<1>1. MaxInt \in Nat
  BY ReservationsAssumption
<1>2. PICK m \in Int, k \in Nat \ {0} : m = n + MaxInt + 1 /\ k = 2 * (MaxInt + 1)
  BY <1>1
<1>3. m % k \in Int
  BY <1>2
<1>4. QED
  BY <1>1, <1>2, <1>3 DEF Wrap

\* What the sum sc has still to visit.
AheadSum(sc, obj, rs) ==
    SumFunctionOnSet(Bytes(obj), Held(obj, rs, sc.user, sc.type) \cap sc.todo)

ScanRecord ==
    [user : Users, type : Types, total : Int, atStart : Nat, todo : SUBSET Ids]

Bracketed(sc, obj, rs) ==
    /\ sc.total \in Nat
    /\ HeldSum(obj, rs, sc.user, sc.type) <= sc.total + AheadSum(sc, obj, rs)
    /\ sc.total + AheadSum(sc, obj, rs) <= sc.atStart

\* A sum only has its user's reservations to visit, and stays between what is held
\* and what was held when it started.
ScanFits(sc, obj, rs) ==
    sc # NoScan =>
        /\ sc \in ScanRecord
        /\ \A r \in sc.todo \cap rs : obj[r].user = sc.user
        /\ sc.atStart <= MaxInt => Bracketed(sc, obj, rs)

LEMMA AheadIsNat ==
  ASSUME NEW sc, NEW obj, NEW rs, MapsFit(obj, rs)
  PROVE  AheadSum(sc, obj, rs) \in Nat
<1> DEFINE H == Held(obj, rs, sc.user, sc.type) \cap sc.todo
<1>1. H \in SUBSET Held(obj, rs, sc.user, sc.type)
  OBVIOUS
<1> HIDE DEF H
<1>2. SumFunctionOnSet(Bytes(obj), H) \in Nat
  BY <1>1, PartSum
<1>3. QED
  BY <1>2 DEF AheadSum, H

LEMMA HeldSumIsNat ==
  ASSUME NEW obj, NEW rs, MapsFit(obj, rs), NEW u, NEW t
  PROVE  HeldSum(obj, rs, u, t) \in Nat
<1> DEFINE H == Held(obj, rs, u, t)
<1>1. H \in SUBSET Held(obj, rs, u, t)
  OBVIOUS
<1> HIDE DEF H
<1>2. SumFunctionOnSet(Bytes(obj), H) \in Nat
  BY <1>1, PartSum
<1>3. QED
  BY <1>2 DEF HeldSum, H

LEMMA ScanStarts ==
  ASSUME ResInv, NEW u \in Users, NEW t \in Types, StartSum(u, t)
  PROVE  ScanFits(scan', object, reservations)
<1> DEFINE todo == IF u \in DOMAIN userReservations THEN userReservations[u] ELSE {}
           start == HeldSum(object, reservations, u, t)
<1>1. MapsFit(object, reservations)
  BY TypeOKFits DEF ResInv
<1>2. start \in Nat /\ PendingBytes(u, t) = start
  BY <1>1, HeldSumIsNat, PendingBytesIs
<1>3. todo \in SUBSET Ids
  BY DEF ResInv, TypeOK
<1>4. \A r \in todo : object[r].user = u
  BY DEF ResInv, IndexFits
<1>5. Held(object, reservations, u, t) \cap todo = Held(object, reservations, u, t)
  BY DEF ResInv, IndexFits, Held
<1>6. scan' = [user |-> u, type |-> t, total |-> 0, atStart |-> PendingBytes(u, t), todo |-> todo]
  BY Zenon DEF StartSum
<1> HIDE DEF todo, start
<1>7. scan' = [user |-> u, type |-> t, total |-> 0, atStart |-> start, todo |-> todo]
  BY <1>2, <1>6, Zenon
<1>8. AheadSum(scan', object, reservations) = start
  BY <1>5, <1>7 DEF AheadSum, start, HeldSum
<1>9. HeldSum(object, reservations, scan'.user, scan'.type) = start
  BY <1>7 DEF start
<1>10. Bracketed(scan', object, reservations)
  <2>1. scan'.total = 0 /\ scan'.atStart = start
    BY <1>7
  <2>2. QED
    BY <1>2, <1>8, <1>9, <2>1 DEF Bracketed
<1>11. QED
  BY <1>2, <1>3, <1>4, <1>7, <1>10 DEF ScanFits, ScanRecord

\* One iteration.
LEMMA ScanAdds ==
  ASSUME TypeOK, ScanFits(scan, object, reservations), NEW r \in Ids, AddToSum(r)
  PROVE  ScanFits(scan', object, reservations)
<1> DEFINE counted == r \in reservations /\ object[r].type = scan.type /\ ~object[r].released
           H == Held(object, reservations, scan.user, scan.type) \cap scan.todo
           H2 == Held(object, reservations, scan.user, scan.type) \cap (scan.todo \ {r})
           n == object[r].bytes
<1>1. /\ scan # NoScan /\ r \in scan.todo /\ scan \in ScanRecord
      /\ \A q \in scan.todo \cap reservations : object[q].user = scan.user
  BY DEF AddToSum, ScanFits
<1>2. MapsFit(object, reservations)
  BY TypeOKFits
<1>3. /\ scan'.user = scan.user /\ scan'.type = scan.type /\ scan'.atStart = scan.atStart
      /\ scan'.todo = scan.todo \ {r}
      /\ scan'.total = IF counted THEN Wrap(scan.total + n) ELSE scan.total
      /\ scan' = [user |-> scan'.user, type |-> scan'.type, total |-> scan'.total,
                  atStart |-> scan'.atStart, todo |-> scan'.todo]
  BY <1>1 DEF AddToSum, ScanRecord
<1>4. counted <=> r \in H
  BY <1>1 DEF Held
<1>5. H2 = H \ {r}
  OBVIOUS
<1>6. /\ IsFiniteSet(H) /\ SumFunctionOnSet(Bytes(object), H) \in Nat
      /\ \A q \in H : object[q].bytes \in Nat /\ Bytes(object)[q] = object[q].bytes
  <2>1. H \in SUBSET Held(object, reservations, scan.user, scan.type)
    OBVIOUS
  <2> HIDE DEF H
  <2>2. QED
    BY <1>2, <2>1, PartSum
<1>7. SumFunctionOnSet(Bytes(object), H2) \in Nat
  <2>1. H2 \in SUBSET Held(object, reservations, scan.user, scan.type)
    OBVIOUS
  <2> HIDE DEF H2
  <2>2. QED
    BY <1>2, <2>1, PartSum
<1>8. /\ AheadSum(scan, object, reservations) = SumFunctionOnSet(Bytes(object), H)
      /\ AheadSum(scan', object, reservations) = SumFunctionOnSet(Bytes(object), H2)
  BY <1>3 DEF AheadSum
<1>9. HeldSum(object, reservations, scan'.user, scan'.type)
        = HeldSum(object, reservations, scan.user, scan.type)
  BY <1>3
<1>10. HeldSum(object, reservations, scan.user, scan.type) \in Nat
  BY <1>2, HeldSumIsNat
<1> HIDE DEF H, H2, counted
<1>11. counted => n \in Nat /\ SumFunctionOnSet(Bytes(object), H)
                                 = n + SumFunctionOnSet(Bytes(object), H2)
  <2> SUFFICES ASSUME counted PROVE n \in Nat /\ SumFunctionOnSet(Bytes(object), H)
                                      = n + SumFunctionOnSet(Bytes(object), H2)
    OBVIOUS
  <2>1. r \in H
    BY <1>4
  <2>2. \A q \in H : Bytes(object)[q] \in Nat
    BY <1>6
  <2>3. SumFunctionOnSet(Bytes(object), H)
          = Bytes(object)[r] + SumFunctionOnSet(Bytes(object), H \ {r})
    BY <1>6, <2>1, <2>2, SumWithout
  <2>4. QED
    BY <1>5, <1>6, <2>1, <2>3
<1>12. ~counted => H2 = H
  BY <1>4, <1>5
<1> HIDE DEF n
<1>13. scan'.total \in Int
  <2>1. scan.total \in Int
    BY <1>1 DEF ScanRecord
  <2>2. counted => scan.total + n \in Int
    BY <1>11, <2>1
  <2>3. QED
    BY <1>3, <2>1, <2>2, WrapIsInt
<1>14. scan' \in ScanRecord /\ \A q \in scan'.todo \cap reservations : object[q].user = scan'.user
  BY <1>1, <1>3, <1>13 DEF ScanRecord
<1>15. ASSUME scan'.atStart <= MaxInt PROVE Bracketed(scan', object, reservations)
  <2>1. Bracketed(scan, object, reservations)
    BY <1>1, <1>3, <1>15 DEF ScanFits
  <2>2. scan.atStart \in Nat /\ MaxInt \in Nat
    BY <1>1, ReservationsAssumption DEF ScanRecord
  <2>3. CASE counted
    <3>1. n \in Nat /\ AheadSum(scan, object, reservations) = n + AheadSum(scan', object, reservations)
          /\ AheadSum(scan', object, reservations) \in Nat
      BY <1>7, <1>8, <1>11, <2>3
    <3>2. scan.total + n \in 0..MaxInt
      BY <1>3, <1>15, <2>1, <2>2, <3>1 DEF Bracketed
    <3>3. scan'.total = scan.total + n
      BY <1>3, <2>3, <3>2, WrapOfSmall
    <3>4. QED
      BY <1>3, <1>9, <1>10, <2>1, <3>1, <3>3 DEF Bracketed
  <2>4. CASE ~counted
    <3>1. scan'.total = scan.total /\ AheadSum(scan', object, reservations) = AheadSum(scan, object, reservations)
      BY <1>3, <1>8, <1>12, <2>4
    <3>2. QED
      BY <1>3, <1>9, <2>1, <3>1 DEF Bracketed
  <2>5. QED
    BY <2>3, <2>4
<1>16. QED
  BY <1>14, <1>15 DEF ScanFits

\* A release while the sum is under way: what it has still to visit loses no more than
\* what is held does.
LEMMA ScanSurvives ==
  ASSUME NEW sc, NEW obj, NEW rs, MapsFit(obj, rs), ScanFits(sc, obj, rs),
         NEW new, MapsFit(new, rs), NEW r \in Ids, Released(obj, new, r)
  PROVE  ScanFits(sc, new, rs)
<1> SUFFICES ASSUME sc # NoScan
             PROVE  /\ \A q \in sc.todo \cap rs : new[q].user = sc.user
                    /\ sc.atStart <= MaxInt => Bracketed(sc, new, rs)
  BY DEF ScanFits
<1>1. \A q \in sc.todo \cap rs : new[q].user = sc.user
  BY DEF ScanFits, Released, MapsFit
<1>2. ASSUME sc.atStart <= MaxInt PROVE Bracketed(sc, new, rs)
  <2> DEFINE H == Held(obj, rs, sc.user, sc.type)
             n == obj[r].bytes
             held == HeldSum(obj, rs, sc.user, sc.type)
             held2 == HeldSum(new, rs, sc.user, sc.type)
             ahead == AheadSum(sc, obj, rs)
             ahead2 == AheadSum(sc, new, rs)
  <2>1. ahead2 = IF r \in H \cap sc.todo THEN ahead - n ELSE ahead
    BY SumAfterRelease DEF AheadSum
  <2>2. held2 = IF r \in H THEN held - n ELSE held
    <3>1. /\ SumFunctionOnSet(Bytes(new), Held(new, rs, sc.user, sc.type) \cap rs) =
               IF r \in H \cap rs
               THEN SumFunctionOnSet(Bytes(obj), H \cap rs) - n
               ELSE SumFunctionOnSet(Bytes(obj), H \cap rs)
      BY SumAfterRelease
    <3>2. H \cap rs = H /\ Held(new, rs, sc.user, sc.type) \cap rs = Held(new, rs, sc.user, sc.type)
      BY DEF Held
    <3>3. QED
      BY <3>1, <3>2 DEF HeldSum
  <2>3. held \in Nat /\ held2 \in Nat /\ ahead \in Nat /\ ahead2 \in Nat
    BY HeldSumIsNat, AheadIsNat
  <2>4. r \in H => n \in Nat
    BY HeldBytes
  <2>5. sc.total \in Nat /\ held <= sc.total + ahead /\ sc.total + ahead <= sc.atStart
    BY <1>2 DEF ScanFits, Bracketed
  <2>6. sc.atStart \in Nat
    BY DEF ScanFits, ScanRecord
  <2> HIDE DEF H, n, held, held2, ahead, ahead2
  <2>7. held2 <= sc.total + ahead2 /\ sc.total + ahead2 <= sc.atStart
    <3>1. CASE r \in H \cap sc.todo
      BY <2>1, <2>2, <2>3, <2>4, <2>5, <2>6, <3>1
    <3>2. CASE r \notin H \cap sc.todo
      BY <2>1, <2>2, <2>3, <2>4, <2>5, <2>6, <3>2
    <3>3. QED
      BY <3>1, <3>2
  <2>8. QED
    BY <2>5, <2>7 DEF Bracketed, held2, ahead2
<1>3. QED
  BY <1>1, <1>2

SumInv ==
    /\ ResInv
    /\ ScanFits(scan, object, reservations)

LEMMA SumInvInit == Init => SumInv
  BY ResInvInit DEF Init, SumInv, ScanFits

LEMMA SumInvStep == SumInv /\ [Next]_vars => SumInv'
<1> SUFFICES ASSUME SumInv, [Next]_vars PROVE ScanFits(scan', object', reservations')
  BY ResInvStep DEF SumInv
<1>1. ResInv /\ ResInv' /\ TypeOK /\ TypeOK'
  BY ResInvStep DEF SumInv, ResInv
<1>2. MapsFit(object, reservations) /\ MapsFit(object', reservations')
  <2>1. TypeOK' => MapsFit(object', reservations')
    BY DEF TypeOK, MapsFit, Made
  <2>2. QED
    BY <1>1, <2>1, TypeOKFits
<1>3. CASE scan' = NoScan
  BY <1>3 DEF ScanFits
<1>4. ASSUME NEW r \in Ids, Release(r) PROVE ScanFits(scan', object', reservations')
  <2>1. /\ object \in [Ids -> UserReservation \cup {NoRes}] /\ object[r] # NoRes
        /\ object' = [object EXCEPT ![r].released = TRUE]
        /\ UNCHANGED <<reservations, scan>>
    BY <1>1, <1>4 DEF Release, TypeOK, Made
  <2>2. Released(object, object', r)
    <3>1. object'[r] = [object[r] EXCEPT !.released = TRUE]
          /\ \A q \in Ids : q # r => object'[q] = object[q]
      BY <2>1
    <3>2. object[r] \in UserReservation
      BY <2>1
    <3>3. /\ object'[r].released /\ object'[r].user = object[r].user
          /\ object'[r].type = object[r].type /\ object'[r].bytes = object[r].bytes
      BY <3>1, <3>2 DEF UserReservation
    <3>4. QED
      BY <3>1, <3>3 DEF Released
  <2>3. ScanFits(scan, object', reservations)
    BY <1>2, <2>1, <2>2, ScanSurvives DEF SumInv
  <2>4. QED
    BY <2>1, <2>3
<1>5. ASSUME NEW r \in Ids, AddToSum(r) PROVE ScanFits(scan', object', reservations')
  <2>1. ScanFits(scan', object, reservations)
    BY <1>1, <1>5, ScanAdds DEF SumInv
  <2>2. QED
    BY <1>5, <2>1 DEF AddToSum
<1>6. ASSUME NEW u \in Users, NEW t \in Types, StartSum(u, t)
      PROVE  ScanFits(scan', object', reservations')
  <2>1. ScanFits(scan', object, reservations)
    BY <1>1, <1>6, ScanStarts
  <2>2. QED
    BY <1>6, <2>1 DEF StartSum
<1>7. CASE UNCHANGED <<object, reservations, scan>>
  BY <1>7 DEF SumInv
<1>8. ASSUME NEW r \in Ids, NEW u \in Users, NEW t \in Types, NEW n \in Sizes, Reserve(r, u, t, n)
      PROVE  scan' = NoScan
  BY <1>8 DEF Reserve, Writable
<1>9. ASSUME NEW r \in Ids, CleanupReservation(r) PROVE scan' = NoScan
  BY <1>9 DEF CleanupReservation, Writable
<1>10. CleanupStaleReservations \/ EndSum \/ Restart => scan' = NoScan
  BY DEF CleanupStaleReservations, EndSum, Restart, Writable
<1>11. ASSUME NEW r \in Ids, ReleaseAgain(r) \/ Age(r) \/ Abandon(r)
       PROVE  UNCHANGED <<object, reservations, scan>>
  BY <1>11 DEF ReleaseAgain, Age, Abandon, vars
<1>12. UNCHANGED vars => UNCHANGED <<object, reservations, scan>>
  BY DEF vars
<1>13. QED
  BY <1>3, <1>4, <1>5, <1>6, <1>7, <1>8, <1>9, <1>10, <1>11, <1>12 DEF Next

\* A sum stays between what is held and what was held when it started.
THEOREM SumsAreBracketed == Spec => []SumIsBracketed
<1>1. SumInv => SumIsBracketed
  <2> SUFFICES ASSUME SumInv, scan # NoScan, scan.atStart <= MaxInt
               PROVE  LET ahead == MapThenSumSet(LAMBDA r : object[r].bytes,
                                                 Pending(scan.user, scan.type) \cap scan.todo)
                      IN  /\ PendingBytes(scan.user, scan.type) <= scan.total + ahead
                          /\ scan.total + ahead <= scan.atStart
    BY Zenon DEF SumIsBracketed
  <2> DEFINE H == Pending(scan.user, scan.type) \cap scan.todo
  <2>1. MapsFit(object, reservations)
    BY TypeOKFits DEF SumInv, ResInv
  <2>2. H = Held(object, reservations, scan.user, scan.type) \cap scan.todo
    BY DEF Pending, Held
  <2>3. H \in SUBSET Held(object, reservations, scan.user, scan.type)
    BY <2>2
  <2>4. Bracketed(scan, object, reservations)
    BY DEF SumInv, ScanFits
  <2>5. PendingBytes(scan.user, scan.type) = HeldSum(object, reservations, scan.user, scan.type)
    BY <2>1, PendingBytesIs
  <2>6. AheadSum(scan, object, reservations) = SumFunctionOnSet(Bytes(object), H)
    BY <2>2 DEF AheadSum
  <2> HIDE DEF H
  <2>7. H \in SUBSET Ids /\ \A r \in H : object[r].bytes \in Nat
    <3>1. H \in SUBSET Ids
      BY <2>1, <2>3 DEF MapsFit, Held
    <3>2. \A r \in H : object[r].bytes \in Nat
      BY <2>1, <2>3, HeldBytes
    <3>3. QED
      BY <3>1, <3>2
  <2>8. MapThenSumSet(LAMBDA r : object[r].bytes, H) = SumFunctionOnSet(Bytes(object), H)
    BY <2>7, BytesAddUp
  <2>9. /\ PendingBytes(scan.user, scan.type) <= scan.total + SumFunctionOnSet(Bytes(object), H)
        /\ scan.total + SumFunctionOnSet(Bytes(object), H) <= scan.atStart
    BY <2>4, <2>5, <2>6 DEF Bracketed
  <2>10. QED
    BY <2>8, <2>9, Zenon DEF H
<1>2. QED
  BY <1>1, SumInvInit, SumInvStep, PTL DEF Spec

-----------------------------------------------------------------------------
\* What is pending, from one state to the next.
LEMMA PendingMoves ==
  ASSUME TypeOK, TypeOK', NEW f,
         \A v \in Users, w \in Types :
             HeldSum(object', reservations', v, w) = f[v][w],
         f = [v \in Users |-> [w \in Types |-> f[v][w]]]
  PROVE  pending' = f
<1>1. \A v \in Users, w \in Types : PendingBytes(v, w)' = f[v][w]
  BY PendingSumsNext DEF PendingAddsUp
<1>2. pending' = [v \in Users |-> [w \in Types |-> PendingBytes(v, w)']]
  BY DEF pending
<1>3. [v \in Users |-> [w \in Types |-> PendingBytes(v, w)']] = [v \in Users |-> [w \in Types |-> f[v][w]]]
  BY <1>1, Zenon
<1>4. QED
  BY <1>2, <1>3, Zenon

LEMMA PendingIs ==
  ASSUME TypeOK
  PROVE  /\ pending = [v \in Users |-> [w \in Types |-> pending[v][w]]]
         /\ \A v \in Users, w \in Types : pending[v][w] = HeldSum(object, reservations, v, w)
  BY PendingSums DEF PendingAddsUp, pending

LEMMA SameLedger ==
  ASSUME TypeOK, TypeOK', UNCHANGED object,
         reservations' \subseteq reservations,
         \A r \in reservations \ reservations' : object[r].released
  PROVE  UNCHANGED Ledger!ledgerVars
<1>1. UNCHANGED issued
  BY DEF issued, Made
<1>2. UNCHANGED open
  BY DEF open, GetReservation
<1>3. \A v, w : Held(object', reservations', v, w) = Held(object, reservations, v, w)
  BY DEF Held
<1>4. \A v \in Users, w \in Types : HeldSum(object', reservations', v, w) = pending[v][w]
  BY <1>3, PendingIs DEF HeldSum
<1>5. UNCHANGED pending
  BY <1>4, PendingIs, PendingMoves
<1>6. QED
  BY <1>1, <1>2, <1>5 DEF Ledger!ledgerVars

LEMMA LedgerReserve ==
  ASSUME ResInv, ResInv', NEW r \in Ids, NEW u \in Users, NEW t \in Types, NEW n \in Sizes,
         Reserve(r, u, t, n)
  PROVE  n > 0 /\ Ledger!Reserve(r, u, t, n)
<1> DEFINE new == [user |-> u, type |-> t, bytes |-> n, released |-> FALSE]
<1>1. /\ object \in [Ids -> UserReservation \cup {NoRes}] /\ object[r] = NoRes
      /\ object' = [object EXCEPT ![r] = new] /\ n > 0
      /\ reservations' = reservations \cup {r} /\ reservations \subseteq Ids
      /\ TypeOK /\ TypeOK' /\ r \notin reservations
  BY DEF Reserve, Made, ResInv, TypeOK
<1>2. /\ \A q \in Ids : object'[q] = IF q = r THEN new ELSE object[q]
      /\ object' \in [Ids -> UserReservation \cup {NoRes}]
  BY <1>1 DEF TypeOK
<1>3. issued[r] = NoRes
  BY <1>1 DEF issued, Made
<1>4. new \in UserReservation /\ new # NoRes
  <2>1. n \in 1..MaxInt
    BY <1>1, ReservationsAssumption
  <2>2. new \in UserReservation
    BY <2>1 DEF UserReservation
  <2> HIDE DEF new
  <2>3. QED
    BY <2>2, NoResAssumption
<1>5. issued' = [issued EXCEPT ![r] = [user |-> u, type |-> t, bytes |-> n]]
  <2>1. ASSUME NEW q \in Ids
        PROVE  (IF object'[q] # NoRes
                THEN [user |-> object'[q].user, type |-> object'[q].type, bytes |-> object'[q].bytes]
                ELSE NoRes)
             = (IF q = r THEN [user |-> u, type |-> t, bytes |-> n] ELSE issued[q])
    <3>1. CASE q = r
      BY <1>2, <1>4, <3>1
    <3>2. CASE q # r
      BY <1>2, <3>2 DEF issued, Made
    <3>3. QED
      BY <3>1, <3>2
  <2>2. issued' = [q \in Ids |-> IF q = r THEN [user |-> u, type |-> t, bytes |-> n] ELSE issued[q]]
    BY <2>1, Zenon DEF issued, Made
  <2>3. QED
    BY <2>2 DEF issued
<1>6. open' = open \cup {r}
  <2>1. \A q \in Ids : (q \in reservations' /\ ~object'[q].released)
                          <=> (q \in reservations /\ ~object[q].released) \/ q = r
    BY <1>1, <1>2
  <2>2. QED
    BY <2>1 DEF open, GetReservation
<1>7. pending' = [pending EXCEPT ![u][t] = @ + n]
  <2> DEFINE f == [v \in Users |-> [w \in Types |->
                      IF v = u /\ w = t THEN pending[v][w] + n ELSE pending[v][w]]]
  <2>1. MapsFit(object, reservations) /\ MapsFit(object', reservations')
    BY <1>1 DEF TypeOK, MapsFit, Made
  <2>2. Reserved(object, object', r, u, t, n)
    BY <1>2 DEF Reserved
  <2>3. \A v \in Users, w \in Types : HeldSum(object', reservations', v, w) =
             IF v = u /\ w = t THEN HeldSum(object, reservations, v, w) + n
                               ELSE HeldSum(object, reservations, v, w)
    BY <1>1, <2>1, <2>2, HeldAfterReserve
  <2>4. ASSUME NEW v \in Users, NEW w \in Types
        PROVE  HeldSum(object', reservations', v, w) = f[v][w]
    <3>1. pending[v][w] = HeldSum(object, reservations, v, w)
      BY <1>1, PendingIs
    <3>2. f[v][w] = IF v = u /\ w = t THEN pending[v][w] + n ELSE pending[v][w]
      BY Zenon
    <3> HIDE DEF f
    <3>3. QED
      BY <2>3, <3>1, <3>2
  <2>5. f = [v \in Users |-> [w \in Types |-> f[v][w]]]
    BY Zenon
  <2>6. f = [pending EXCEPT ![u][t] = @ + n]
    BY <1>1, PendingIs
  <2> HIDE DEF f
  <2>7. pending' = f
    <3>1. \A v \in Users, w \in Types : HeldSum(object', reservations', v, w) = f[v][w]
      BY <2>4, Zenon
    <3>2. TypeOK /\ TypeOK'
      BY <1>1
    <3>3. QED
      BY <2>5, <3>1, <3>2, PendingMoves, Zenon
  <2>8. QED
    BY <2>6, <2>7
<1>8. QED
  BY <1>1, <1>3, <1>5, <1>6, <1>7 DEF Ledger!Reserve

LEMMA LedgerRelease ==
  ASSUME ResInv, ResInv', NEW r \in Ids, Release(r)
  PROVE  Ledger!Release(r)
<1>1. /\ object \in [Ids -> UserReservation \cup {NoRes}] /\ object[r] # NoRes
      /\ object[r] \in UserReservation /\ ~object[r].released
      /\ object' = [object EXCEPT ![r].released = TRUE]
      /\ UNCHANGED reservations /\ TypeOK /\ TypeOK'
      /\ r \in reservations
  BY DEF Release, ResInv, TypeOK, Made, HeldIsFound, GetReservation
<1>2. /\ object'[r] = [object[r] EXCEPT !.released = TRUE]
      /\ \A q \in Ids : q # r => object'[q] = object[q]
      /\ object'[r] # NoRes
  <2>1. object'[r] = [object[r] EXCEPT !.released = TRUE]
        /\ \A q \in Ids : q # r => object'[q] = object[q]
    BY <1>1
  <2>2. object'[r] \in UserReservation
    BY <1>1, <2>1 DEF UserReservation
  <2>3. QED
    BY <2>1, <2>2, NoResAssumption
<1>3. Released(object, object', r)
  <2>1. /\ object'[r].released /\ object'[r].user = object[r].user
        /\ object'[r].type = object[r].type /\ object'[r].bytes = object[r].bytes
    BY <1>1, <1>2 DEF UserReservation
  <2>2. QED
    BY <1>2, <2>1 DEF Released
<1>4. /\ issued[r] # NoRes /\ issued[r].user = object[r].user
      /\ issued[r].type = object[r].type /\ issued[r].bytes = object[r].bytes
  <2>1. issued[r] = [user |-> object[r].user, type |-> object[r].type, bytes |-> object[r].bytes]
    BY <1>1 DEF issued, Made
  <2>2. issued[r] \in [user : Users, type : Types, bytes : 1..MaxInt]
    BY <1>1, <2>1 DEF UserReservation
  <2>3. QED
    BY <2>1, <2>2, NoResAssumption
<1>5. UNCHANGED issued
  <2>1. ASSUME NEW q \in Ids
        PROVE  (IF object'[q] # NoRes
                THEN [user |-> object'[q].user, type |-> object'[q].type, bytes |-> object'[q].bytes]
                ELSE NoRes)
             = (IF object[q] # NoRes
                THEN [user |-> object[q].user, type |-> object[q].type, bytes |-> object[q].bytes]
                ELSE NoRes)
    <3>1. (object'[q] # NoRes) <=> (object[q] # NoRes)
      BY <1>1, <1>2
    <3>2. QED
      BY <1>3, <3>1 DEF Released
  <2>2. QED
    BY <2>1, Zenon DEF issued, Made
<1>6. open' = open \ {r} /\ r \in open
  <2>1. \A q \in Ids : (q \in reservations' /\ ~object'[q].released)
                          <=> (q \in reservations /\ ~object[q].released) /\ q # r
    BY <1>1, <1>2, <1>3 DEF Released
  <2>2. QED
    BY <1>1, <2>1 DEF open, GetReservation
<1>7. pending' = [pending EXCEPT ![issued[r].user][issued[r].type] = @ - issued[r].bytes]
  <2> DEFINE u == object[r].user
             t == object[r].type
             n == object[r].bytes
             f == [v \in Users |-> [w \in Types |->
                      IF v = u /\ w = t THEN pending[v][w] - n ELSE pending[v][w]]]
  <2>1. MapsFit(object, reservations) /\ MapsFit(object', reservations)
    BY <1>1 DEF TypeOK, MapsFit, Made
  <2>2. \A v \in Users, w \in Types : HeldSum(object', reservations, v, w) =
             IF v = u /\ w = t THEN HeldSum(object, reservations, v, w) - n
                               ELSE HeldSum(object, reservations, v, w)
    <3> TAKE v \in Users, w \in Types
    <3> DEFINE H == Held(object, reservations, v, w)
               H2 == Held(object', reservations, v, w)
    <3>1. SumFunctionOnSet(Bytes(object'), H2 \cap reservations) =
               IF r \in H \cap reservations
               THEN SumFunctionOnSet(Bytes(object), H \cap reservations) - n
               ELSE SumFunctionOnSet(Bytes(object), H \cap reservations)
      BY <1>3, <2>1, SumAfterRelease
    <3>2. H \cap reservations = H /\ H2 \cap reservations = H2
      BY DEF Held
    <3>3. r \in H <=> v = u /\ w = t
      BY <1>1 DEF Held
    <3>4. QED
      BY <3>1, <3>2, <3>3 DEF HeldSum
  <2>3. ASSUME NEW v \in Users, NEW w \in Types
        PROVE  HeldSum(object', reservations', v, w) = f[v][w]
    <3>1. pending[v][w] = HeldSum(object, reservations, v, w)
      BY <1>1, PendingIs
    <3>2. HeldSum(object', reservations', v, w) =
             IF v = u /\ w = t THEN HeldSum(object, reservations, v, w) - n
                               ELSE HeldSum(object, reservations, v, w)
      BY <1>1, <2>2
    <3>3. f[v][w] = IF v = u /\ w = t THEN pending[v][w] - n ELSE pending[v][w]
      BY Zenon
    <3> HIDE DEF f, u, t, n
    <3>4. QED
      BY <3>1, <3>2, <3>3
  <2>4. f = [v \in Users |-> [w \in Types |-> f[v][w]]]
    BY Zenon
  <2>5. f = [pending EXCEPT ![u][t] = @ - n]
    <3>1. pending = [v \in Users |-> [w \in Types |-> pending[v][w]]]
      BY <1>1, PendingIs
    <3> HIDE DEF u, t, n
    <3>2. QED
      BY <3>1
  <2> HIDE DEF f
  <2>6. pending' = f
    <3>1. \A v \in Users, w \in Types : HeldSum(object', reservations', v, w) = f[v][w]
      BY <2>3, Zenon
    <3>2. TypeOK /\ TypeOK'
      BY <1>1
    <3>3. QED
      BY <2>4, <3>1, <3>2, PendingMoves, Zenon
  <2>7. issued[r].user = u /\ issued[r].type = t /\ issued[r].bytes = n
    BY <1>4
  <2> HIDE DEF u, t, n
  <2>8. QED
    BY <2>5, <2>6, <2>7, Zenon
<1>8. QED
  BY <1>4, <1>5, <1>6, <1>7 DEF Ledger!Release

LEMMA LedgerForget ==
  ASSUME ResInv, ResInv', Restart
  PROVE  Ledger!Forget
<1>1. reservations' = {} /\ UNCHANGED object /\ TypeOK /\ TypeOK'
  BY DEF Restart, ResInv
<1>2. UNCHANGED issued
  BY <1>1 DEF issued, Made
<1>3. open' = {}
  BY <1>1 DEF open, GetReservation
<1>4. pending' = [u \in Users |-> [t \in Types |-> 0]]
  <2> DEFINE f == [u \in Users |-> [t \in Types |-> 0]]
  <2>1. \A v, w : Held(object', reservations', v, w) = {}
    BY <1>1 DEF Held
  <2>2. \A v \in Users, w \in Types : HeldSum(object', reservations', v, w) = f[v][w]
    BY <2>1, SumOfNone DEF HeldSum
  <2>3. f = [v \in Users |-> [w \in Types |-> f[v][w]]]
    BY Zenon
  <2> HIDE DEF f
  <2>4. pending' = f
    BY <1>1, <2>2, <2>3, PendingMoves
  <2>5. QED
    BY <2>4 DEF f
<1>5. QED
  BY <1>2, <1>3, <1>4 DEF Ledger!Forget

LEMMA LedgerInitially == Init => Ledger!LedgerInit
<1> SUFFICES ASSUME Init PROVE Ledger!LedgerInit
  OBVIOUS
<1>1. object = [r \in Ids |-> NoRes] /\ reservations = {} /\ TypeOK
  BY ResInvInit DEF Init, ResInv
<1>2. issued = [r \in Ids |-> NoRes]
  BY <1>1 DEF issued, Made
<1>3. open = {}
  BY <1>1 DEF open, GetReservation
<1>4. \A v \in Users, w \in Types : pending[v][w] = 0
  <2>1. \A v, w : Held(object, reservations, v, w) = {}
    BY <1>1 DEF Held
  <2>2. \A v, w : HeldSum(object, reservations, v, w) = 0
    BY <2>1, SumOfNone DEF HeldSum
  <2>3. QED
    BY <1>1, <2>2, PendingIs
<1>5. pending = [u \in Users |-> [t \in Types |-> 0]]
  <2>1. pending = [v \in Users |-> [w \in Types |-> pending[v][w]]]
    BY <1>1, PendingIs
  <2> DEFINE p == pending
  <2>2. p = [v \in Users |-> [w \in Types |-> p[v][w]]] /\ \A v \in Users, w \in Types : p[v][w] = 0
    BY <1>4, <2>1
  <2> HIDE DEF p
  <2>3. p = [u \in Users |-> [t \in Types |-> 0]]
    BY <2>2, Zenon
  <2>4. QED
    BY <2>3 DEF p
<1>6. QED
  BY <1>2, <1>3, <1>5 DEF Ledger!LedgerInit

LEMMA LedgerStep == ResInv /\ ResInv' /\ [Next]_vars => [Ledger!LedgerNext]_(Ledger!ledgerVars)
<1> SUFFICES ASSUME ResInv, ResInv', [Next]_vars
             PROVE  Ledger!LedgerNext \/ UNCHANGED Ledger!ledgerVars
  OBVIOUS
<1>1. TypeOK /\ TypeOK' /\ reservations \subseteq Ids
  BY DEF ResInv, TypeOK
<1>2. ASSUME NEW r \in Ids, NEW u \in Users, NEW t \in Types, NEW n \in Sizes, Reserve(r, u, t, n)
      PROVE  Ledger!LedgerNext
  <2>1. n > 0 /\ Ledger!Reserve(r, u, t, n)
    BY <1>2, LedgerReserve
  <2>2. n \in {k \in Sizes : k > 0}
    BY <2>1
  <2>3. QED
    BY <2>1, <2>2 DEF Ledger!LedgerNext
<1>3. ASSUME NEW r \in Ids, Release(r) PROVE Ledger!LedgerNext
  <2>1. Ledger!Release(r)
    BY <1>3, LedgerRelease
  <2>2. QED
    BY <2>1 DEF Ledger!LedgerNext
<1>4. ASSUME NEW r \in Ids, CleanupReservation(r) PROVE UNCHANGED Ledger!ledgerVars
  <2>1. UNCHANGED object /\ reservations' = reservations \ {r} /\ object[r].released
    BY <1>1, <1>4 DEF CleanupReservation, TypeOK
  <2>2. QED
    BY <1>1, <2>1, SameLedger
<1>5. CASE CleanupStaleReservations
  <2>1. UNCHANGED object /\ reservations' \subseteq reservations
        /\ \A r \in reservations \ reservations' : object[r].released
    BY <1>5 DEF CleanupStaleReservations
  <2>2. QED
    BY <1>1, <2>1, SameLedger
<1>6. CASE UNCHANGED <<object, reservations>>
  BY <1>1, <1>6, SameLedger
<1>7. ASSUME NEW r \in Ids, ReleaseAgain(r) \/ Age(r) \/ Abandon(r) \/ AddToSum(r)
      PROVE  UNCHANGED <<object, reservations>>
  BY <1>7 DEF ReleaseAgain, Age, Abandon, AddToSum, vars
<1>8. ASSUME NEW u \in Users, NEW t \in Types, StartSum(u, t)
      PROVE  UNCHANGED <<object, reservations>>
  BY <1>8 DEF StartSum
<1>9. EndSum \/ UNCHANGED vars => UNCHANGED <<object, reservations>>
  BY DEF EndSum, vars
<1>10. CASE Restart
  <2>1. Ledger!Forget
    BY <1>10, LedgerForget
  <2>2. QED
    BY <2>1 DEF Ledger!LedgerNext
<1>11. QED
  BY <1>2, <1>3, <1>4, <1>5, <1>6, <1>7, <1>8, <1>9, <1>10 DEF Next

\* Every behaviour of the reservation manager is a behaviour of the abstract ledger.
THEOREM LedgerIsImplemented == Spec => ImplementsLedger
  BY LedgerInitially, LedgerStep, ResInvInit, ResInvStep, PTL
     DEF Spec, ImplementsLedger, Ledger!LedgerSpec
===============================================================================
