----------------------------- MODULE GrantsProofs -----------------------------
(***************************************************************************)
(* Proofs about the allowance grants of a user, for any number of          *)
(* goroutines, administrators and grants.                                  *)
(***************************************************************************)
EXTENDS Grants, SumTheorems, TLAPS

\* How far a call has come.
Stage ==
    \A p \in Procs :
        /\ pc[p] \in {"idle", "detail", "select"} => draft[p] = Nothing
        /\ pc[p] # "idle" => asked[p].bytes > 0
        /\ pc[p] = "consume" => left[p] > 0

\* A row is locked by a transaction that has come to consume, and exists, is active and
\* of its type while it is.
LocksHeld ==
    \A p \in Procs, g \in Grants : holder[g] = p =>
        /\ pc[p] \in {"consume", "commit"}
        /\ bytes[g] > 0
        /\ active[g]
        /\ TypeOf[g] = asked[p].type

\* A transaction takes from rows it has locked, and no more than is there.
DraftsCovered ==
    \A p \in Procs, g \in Grants :
        /\ draft[p][g] > 0 => holder[g] = p
        /\ draft[p][g] <= remaining[g]

\* The rows that were read: those to come to are as they were read, and untouched; the
\* others are used up.
RowsAtHand ==
    \A p \in Procs : pc[p] = "consume" =>
        \A g \in Grants :
            /\ g \in chosen[p] =>
                  /\ holder[g] = p
                  /\ copy[p][g] = remaining[g]
                  /\ draft[p][g] = 0
            /\ holder[g] = p /\ g \notin chosen[p] => draft[p][g] = remaining[g]

GrantsInv == TypeOK /\ Stage /\ LocksHeld /\ DraftsCovered /\ RowsAtHand /\ PriorityOrder

LEMMA GrantsInvInit == Init => GrantsInv
<1> SUFFICES ASSUME Init PROVE GrantsInv
  OBVIOUS
<1> USE GrantsAssumption DEF Init, Nothing, NoRequest, Request, Calls
<1>1. TypeOK
  BY DEF TypeOK, GrantTypes
<1>2. Stage /\ LocksHeld /\ DraftsCovered /\ RowsAtHand /\ PriorityOrder
  BY DEF Stage, LocksHeld, DraftsCovered, RowsAtHand, PriorityOrder
<1>3. QED
  BY <1>1, <1>2 DEF GrantsInv

-----------------------------------------------------------------------------
(* Steps that change rows that nobody has locked.                          *)

LEMMA RowsChange ==
  ASSUME GrantsInv, TypeOK', UNCHANGED <<holder, txVars>>,
         \A g \in Grants : bytes[g] > 0 /\ holder[g] # Nobody =>
             remaining'[g] = remaining[g] /\ active'[g] = active[g] /\ bytes'[g] > 0,
         \A g \in Grants : remaining[g] <= remaining'[g]
  PROVE  GrantsInv'
<1> USE GrantsAssumption DEF GrantsInv, TypeOK, txVars
<1>1. \A p \in Procs, g \in Grants : holder[g] = p => holder[g] # Nobody /\ bytes[g] > 0
  BY DEF LocksHeld
<1>2. Stage' /\ LocksHeld'
  BY <1>1 DEF Stage, LocksHeld
<1>3. DraftsCovered'
  BY DEF DraftsCovered
<1>4. RowsAtHand'
  BY <1>1 DEF RowsAtHand
<1>5. PriorityOrder'
  BY <1>1 DEF PriorityOrder
<1>6. QED
  BY <1>2, <1>3, <1>4, <1>5

LEMMA DeactivateStep ==
  ASSUME GrantsInv, NEW g \in Grants, DeactivateGrant(g)
  PROVE  GrantsInv'
<1> USE GrantsAssumption DEF GrantsInv, TypeOK, DeactivateGrant, RowFree, txVars, rowVars
<1>1. TypeOK'
  OBVIOUS
<1>2. UNCHANGED <<holder, txVars>>
  OBVIOUS
<1>3. \A h \in Grants : remaining[h] <= remaining'[h]
  OBVIOUS
<1>4. \A h \in Grants : bytes[h] > 0 /\ holder[h] # Nobody =>
          remaining'[h] = remaining[h] /\ active'[h] = active[h] /\ bytes'[h] > 0
  OBVIOUS
<1> HIDE DEF TypeOK, DeactivateGrant, GrantsInv, txVars
<1>5. QED
  BY <1>1, <1>2, <1>3, <1>4, RowsChange

LEMMA UpdateStep ==
  ASSUME GrantsInv, NEW a \in Admins, NEW n \in Amounts, UpdateGrant(a, n)
  PROVE  GrantsInv'
<1> USE GrantsAssumption DEF GrantsInv, TypeOK, UpdateGrant, RowFree, txVars, rowVars
<1>1. n \in Nat \ {0} /\ fetched[a].id \in Grants
  OBVIOUS
<1>2. TypeOK'
  BY <1>1
<1>3. QED
  BY <1>1, <1>2, RowsChange

LEMMA ExpireStep ==
  ASSUME GrantsInv, NEW g \in Grants, Expire(g)
  PROVE  GrantsInv'
<1> USE GrantsAssumption DEF GrantsInv, TypeOK, Expire, txVars, rowVars
<1>1. TypeOK'
  OBVIOUS
<1>2. QED
  BY <1>1, RowsChange

\* Nobody has drafts for a row that does not exist yet; its remaining bytes may be set.
LEMMA CreateStep ==
  ASSUME GrantsInv, NEW n \in Offers, CreateGrants(n)
  PROVE  GrantsInv'
<1> USE GrantsAssumption DEF GrantsInv, TypeOK, CreateGrants, Exists, txVars, rowVars
<1>1. n \in [Grants -> Amounts \cup {0}] /\ \A g \in Grants : n[g] \in Nat
  <2>1. n \in [Grants -> Amounts \cup {0}]
    OBVIOUS
  <2>2. Amounts \cup {0} \subseteq Nat
    OBVIOUS
  <2>3. QED
    BY <2>1, <2>2
<1>2. \A g \in Grants : BytesRemaining(n[g], 0) = n[g]
  BY <1>1 DEF BytesRemaining
<1>3. TypeOK'
  BY <1>1, <1>2
<1>4. \A g \in Grants : bytes[g] > 0 =>
          bytes'[g] = bytes[g] /\ remaining'[g] = remaining[g] /\ active'[g] = active[g]
  BY <1>1
<1>5. Stage' /\ LocksHeld'
  BY <1>4 DEF Stage, LocksHeld
<1>6. \A p \in Procs, g \in Grants : draft[p][g] > 0 => bytes[g] > 0 /\ holder[g] = p
  BY DEF DraftsCovered, LocksHeld
<1>7. DraftsCovered'
  <2>1. SUFFICES ASSUME NEW p \in Procs, NEW g \in Grants
                 PROVE  draft[p][g] <= remaining'[g]
    BY DEF DraftsCovered
  <2>2. CASE bytes[g] > 0
    BY <1>4, <2>2 DEF DraftsCovered
  <2>3. CASE ~(bytes[g] > 0)
    BY <1>3, <1>6, <2>3
  <2>4. QED
    BY <2>2, <2>3
<1>8. \A p \in Procs, g \in Grants : holder[g] = p => bytes[g] > 0
  BY DEF LocksHeld
<1>9. RowsAtHand'
  BY <1>4, <1>8 DEF RowsAtHand
<1>10. PriorityOrder'
  BY <1>4, <1>8 DEF PriorityOrder
<1>11. QED
  BY <1>3, <1>5, <1>7, <1>9, <1>10

LEMMA HandlerStep ==
  ASSUME GrantsInv, NEW a \in Admins,
         RefuseUpdate(a) \/ \E g \in Grants : FetchGrant(a, g)
  PROVE  GrantsInv'
<1> USE GrantsAssumption DEF GrantsInv, TypeOK, RefuseUpdate, FetchGrant, Exists, txVars, rowVars
<1>1. TypeOK'
  <2>1. CASE RefuseUpdate(a)
    BY <2>1
  <2>2. ASSUME NEW g \in Grants, FetchGrant(a, g) PROVE TypeOK'
    <3>1. bytes[g] \in Amounts
      BY <2>2
    <3>2. [id |-> g, bytes |-> bytes[g]] \in [id : Grants, bytes : Amounts]
      BY <3>1
    <3>3. QED
      BY <2>2, <3>2
  <2>3. QED
    BY <2>1, <2>2
<1>2. UNCHANGED <<bytes, used, remaining, active, expired, holder>> /\ UNCHANGED txVars
  OBVIOUS
<1>3. QED
  BY <1>1, <1>2, RowsChange

-----------------------------------------------------------------------------
(* Steps of a transaction.                                                 *)

LEMMA BeginStep ==
  ASSUME GrantsInv, NEW p \in Procs, NEW c \in Calls, NEW n \in Asks, Begin(p, c, n)
  PROVE  GrantsInv'
<1> USE GrantsAssumption DEF GrantsInv, TypeOK, Begin, rowVars
<1>1. n \in Request /\ n.bytes > 0
  BY DEF Request
<1>2. TypeOK'
  BY <1>1
<1>3. \A g \in Grants : holder[g] # p
  BY DEF LocksHeld
<1>4. Stage'
  BY <1>1 DEF Stage
<1>5. LocksHeld'
  BY <1>3 DEF LocksHeld
<1>6. DraftsCovered' /\ PriorityOrder'
  BY DEF DraftsCovered, PriorityOrder
<1>7. RowsAtHand'
  BY DEF RowsAtHand
<1>8. QED
  BY <1>2, <1>4, <1>5, <1>6, <1>7

LEMMA WriteDetailStep ==
  ASSUME GrantsInv, NEW p \in Procs, WriteDetail(p)
  PROVE  GrantsInv'
<1> USE GrantsAssumption DEF GrantsInv, TypeOK, WriteDetail, rowVars
<1>1. TypeOK'
  OBVIOUS
<1>2. Stage' /\ LocksHeld'
  BY DEF Stage, LocksHeld
<1>3. DraftsCovered' /\ PriorityOrder'
  BY DEF DraftsCovered, PriorityOrder
<1>4. RowsAtHand'
  BY DEF RowsAtHand
<1>5. QED
  BY <1>1, <1>2, <1>3, <1>4

\* Whatever a transaction has changed in the rows it had locked is committed or gone.
LEMMA FinishStep ==
  ASSUME GrantsInv, NEW p \in Procs, Finish(p), UNCHANGED <<bytes, active, expired, fetched>>,
         used' \in [Grants -> Nat], remaining' \in [Grants -> Nat],
         \A g \in Grants : holder[g] # p => remaining'[g] = remaining[g]
  PROVE  GrantsInv'
<1> USE GrantsAssumption DEF GrantsInv, TypeOK
<1>1. TypeOK'
  BY DEF Finish, Nothing, Calls, NoRequest, Request, GrantTypes
<1>2. /\ \A q \in Procs : q # p =>
            /\ pc'[q] = pc[q] /\ asked'[q] = asked[q] /\ left'[q] = left[q]
            /\ chosen'[q] = chosen[q] /\ copy'[q] = copy[q] /\ draft'[q] = draft[q]
      /\ pc'[p] = "idle" /\ draft'[p] = Nothing
  BY DEF Finish
<1>3. \A q \in Procs, g \in Grants : holder'[g] = q <=> q # p /\ holder[g] = q
  BY DEF Finish
<1>4. Stage'
  BY <1>2 DEF Stage
<1>5. LocksHeld'
  BY <1>2, <1>3 DEF LocksHeld
<1>6. DraftsCovered'
  <2>1. SUFFICES ASSUME NEW q \in Procs, NEW g \in Grants
                 PROVE  /\ draft'[q][g] > 0 => holder'[g] = q
                        /\ draft'[q][g] <= remaining'[g]
    BY DEF DraftsCovered
  <2>2. remaining'[g] \in Nat /\ draft[q][g] \in Nat
    OBVIOUS
  <2>3. CASE q = p
    BY <1>2, <2>2, <2>3 DEF Nothing
  <2>4. CASE q # p
    BY <1>2, <1>3, <2>2, <2>4 DEF DraftsCovered
  <2>5. QED
    BY <2>3, <2>4
<1>7. RowsAtHand'
  <2>1. SUFFICES ASSUME NEW q \in Procs, NEW g \in Grants, pc'[q] = "consume"
                 PROVE
                   /\ g \in chosen'[q] =>
                         /\ holder'[g] = q
                         /\ copy'[q][g] = remaining'[g]
                         /\ draft'[q][g] = 0
                   /\ holder'[g] = q /\ g \notin chosen'[q] => draft'[q][g] = remaining'[g]
    BY DEF RowsAtHand
  <2>2. q # p /\ pc[q] = "consume"
    BY <1>2, <2>1
  <2>3. chosen'[q] = chosen[q] /\ copy'[q] = copy[q] /\ draft'[q] = draft[q]
    BY <1>2, <2>2
  <2>4. (holder'[g] = q <=> holder[g] = q) /\ (holder[g] = q => remaining'[g] = remaining[g])
    BY <1>3, <2>2
  <2>5. QED
    BY <2>2, <2>3, <2>4 DEF RowsAtHand
<1>8. PriorityOrder'
  <2>1. SUFFICES ASSUME NEW q \in Procs, NEW g \in Grants, NEW h \in Grants,
                        draft'[q][g] > 0, holder'[h] = q, ~NoLater(g, h)
                 PROVE  draft'[q][h] = remaining'[h]
    BY DEF PriorityOrder, NoLater
  <2>2. q # p /\ holder[h] = q
    BY <1>3, <2>1
  <2>3. draft[q][g] > 0 /\ draft[q][h] = draft'[q][h] /\ remaining'[h] = remaining[h]
    BY <1>2, <2>1, <2>2
  <2>4. QED
    BY <2>1, <2>2, <2>3 DEF PriorityOrder
<1>9. QED
  BY <1>1, <1>4, <1>5, <1>6, <1>7, <1>8

LEMMA RollbackStep ==
  ASSUME GrantsInv, NEW p \in Procs, Finish(p), UNCHANGED <<rowVars, fetched>>
  PROVE  GrantsInv'
<1>1. used \in [Grants -> Nat] /\ remaining \in [Grants -> Nat]
  BY DEF GrantsInv, TypeOK
<1>2. UNCHANGED <<bytes, used, remaining, active, expired, fetched>>
  BY DEF rowVars
<1>3. QED
  BY <1>1, <1>2, FinishStep

LEMMA CommitStep ==
  ASSUME GrantsInv, NEW p \in Procs, Commit(p)
  PROVE  GrantsInv'
<1>1. \A g \in Grants :
         /\ used[g] \in Nat /\ remaining[g] \in Nat /\ draft[p][g] \in Nat
         /\ draft[p][g] <= remaining[g]
         /\ holder[g] # p => draft[p][g] = 0
  BY DEF GrantsInv, TypeOK, DraftsCovered
<1>2. /\ used' = [g \in Grants |-> used[g] + draft[p][g]]
      /\ remaining' = [g \in Grants |-> remaining[g] - draft[p][g]]
      /\ Finish(p) /\ UNCHANGED <<bytes, active, expired, fetched>>
  BY DEF Commit
<1>3. used' \in [Grants -> Nat] /\ remaining' \in [Grants -> Nat]
  BY <1>1, <1>2
<1>4. \A g \in Grants : holder[g] # p => remaining'[g] = remaining[g]
  BY <1>1, <1>2
<1>5. QED
  BY <1>2, <1>3, <1>4, FinishStep

LEMMA LockStep ==
  ASSUME GrantsInv, NEW p \in Procs, SelectGrants(p), pc'[p] = "consume"
  PROVE  GrantsInv'
<1> DEFINE t == asked[p].type
           rows == ActiveGrants(t)
<1> USE GrantsAssumption DEF GrantsInv, TypeOK
<1>1. pc[p] = "select" /\ UNCHANGED <<rowVars, fetched>>
  BY DEF SelectGrants
<1>2. ~ConsumeFails(p)
  BY DEF ConsumeFails, Finish
<1>3. /\ pc' = [pc EXCEPT ![p] = "consume"]
      /\ holder' = [g \in Grants |-> IF g \in rows THEN p ELSE holder[g]]
      /\ copy' = [copy EXCEPT ![p] = [g \in Grants |-> IF g \in rows THEN remaining[g] ELSE 0]]
      /\ chosen' = [chosen EXCEPT ![p] = rows]
      /\ left' = [left EXCEPT ![p] = asked[p].bytes]
      /\ UNCHANGED <<call, asked, draft>>
  BY <1>2 DEF SelectGrants, LockRows
<1>4. \A g \in rows : holder[g] = Nobody
  BY DEF SelectGrants, RowFree
<1>5. asked[p].bytes \in Nat /\ asked[p].bytes > 0 /\ draft[p] = Nothing
  BY <1>1 DEF Stage, Request
<1>6. rows \subseteq Grants /\ \A g \in rows : bytes[g] > 0 /\ active[g] /\ TypeOf[g] = t
  BY DEF ActiveGrants, Exists
<1>7. [g \in Grants |-> IF g \in rows THEN remaining[g] ELSE 0] \in [Grants -> Nat]
  OBVIOUS
<1> HIDE DEF t, rows
<1>8. TypeOK'
  BY <1>1, <1>3, <1>5, <1>6, <1>7 DEF rowVars
<1>9. Stage'
  BY <1>1, <1>3, <1>5 DEF Stage
<1>10. /\ \A g \in Grants : holder[g] # p /\ draft[p][g] = 0
       /\ \A q \in Procs, g \in Grants :
             holder'[g] = q <=> holder[g] = q \/ (q = p /\ g \in rows)
  <2>1. \A g \in Grants : holder[g] # p
    BY <1>1 DEF LocksHeld
  <2>2. \A g \in Grants : draft[p][g] = 0
    BY <1>5 DEF Nothing
  <2>3. ASSUME NEW q \in Procs, NEW g \in Grants
        PROVE  holder'[g] = q <=> holder[g] = q \/ (q = p /\ g \in rows)
    <3>1. holder'[g] = IF g \in rows THEN p ELSE holder[g]
      BY <1>3
    <3>2. g \in rows => holder[g] # q
      BY <1>4
    <3>3. QED
      BY <3>1, <3>2
  <2>4. QED
    BY <2>1, <2>2, <2>3
<1>11. LocksHeld'
  <2>1. SUFFICES ASSUME NEW q \in Procs, NEW g \in Grants, holder'[g] = q
                 PROVE  /\ pc'[q] \in {"consume", "commit"}
                        /\ bytes[g] > 0 /\ active[g]
                        /\ TypeOf[g] = asked[q].type
    BY <1>1, <1>3 DEF LocksHeld, rowVars
  <2>2. CASE holder[g] = q
    BY <1>3, <1>10, <2>2 DEF LocksHeld
  <2>3. CASE q = p /\ g \in rows
    BY <1>3, <1>6, <2>3 DEF t
  <2>4. QED
    BY <1>10, <2>1, <2>2, <2>3
<1>12. DraftsCovered'
  BY <1>1, <1>3, <1>4, <1>6, <1>10 DEF DraftsCovered, rowVars
<1>13. RowsAtHand'
  <2>1. SUFFICES ASSUME NEW q \in Procs, NEW g \in Grants, pc'[q] = "consume"
                 PROVE
                   /\ g \in chosen'[q] =>
                         /\ holder'[g] = q
                         /\ copy'[q][g] = remaining[g]
                         /\ draft[q][g] = 0
                   /\ holder'[g] = q /\ g \notin chosen'[q] => draft[q][g] = remaining[g]
    BY <1>1, <1>3 DEF RowsAtHand, rowVars
  <2>2. CASE q = p
    BY <1>3, <1>10, <2>2
  <2>3. CASE q # p
    <3>1. pc[q] = "consume" /\ chosen'[q] = chosen[q] /\ copy'[q] = copy[q]
      BY <1>3, <2>1, <2>3
    <3>2. holder'[g] = q <=> holder[g] = q
      BY <1>10, <2>3
    <3>3. QED
      BY <3>1, <3>2 DEF RowsAtHand
  <2>4. QED
    BY <2>2, <2>3
<1>14. PriorityOrder'
  <2>1. SUFFICES ASSUME NEW q \in Procs, NEW g \in Grants, NEW h \in Grants,
                        draft[q][g] > 0, holder'[h] = q, ~NoLater(g, h)
                 PROVE  draft[q][h] = remaining[h]
    BY <1>1, <1>3 DEF PriorityOrder, NoLater, rowVars
  <2>2. q # p
    BY <1>10, <2>1
  <2>3. holder[h] = q
    BY <1>10, <2>1, <2>2
  <2>4. QED
    BY <2>1, <2>3 DEF PriorityOrder
<1>15. QED
  BY <1>8, <1>9, <1>11, <1>12, <1>13, <1>14

LEMMA SelectStep ==
  ASSUME GrantsInv, NEW p \in Procs, SelectGrants(p)
  PROVE  GrantsInv'
<1>1. pc[p] = "select" /\ UNCHANGED <<rowVars, fetched>>
  BY DEF SelectGrants
<1>2. CASE ConsumeFails(p)
  BY <1>1, <1>2, RollbackStep DEF ConsumeFails
<1>3. CASE ~ConsumeFails(p)
  <2>1. pc' = [pc EXCEPT ![p] = "consume"]
    BY <1>3 DEF SelectGrants
  <2>2. pc'[p] = "consume"
    BY <2>1 DEF GrantsInv, TypeOK
  <2>3. QED
    BY <2>2, LockStep
<1>4. QED
  BY <1>2, <1>3

\* The row taken from is one the transaction has locked, and the lock stays.
LEMMA TakeStep ==
  ASSUME GrantsInv, NEW p \in Procs, TakeNext(p)
  PROVE  GrantsInv'
<1> USE GrantsAssumption DEF GrantsInv, TypeOK
<1>1. pc[p] = "consume"
  BY DEF TakeNext
<1>2. PICK g \in chosen[p] : (\A h \in chosen[p] : NoLater(g, h)) /\ TakeFrom(p, g)
  BY DEF TakeNext
<1> DEFINE n == ConsumeAmount(p, g)
           over == left[p] = n \/ chosen[p] = {g}
<1>3. /\ g \in Grants /\ holder[g] = p
      /\ copy[p][g] = remaining[g] /\ draft[p][g] = 0
  BY <1>1 DEF RowsAtHand
<1>4. n \in Nat /\ n <= left[p] /\ n <= remaining[g] /\ (n # left[p] => n = remaining[g])
  BY <1>3 DEF ConsumeAmount, Least
<1> HIDE DEF n
<1>5. /\ holder' = [holder EXCEPT ![g] = p]
      /\ draft' = [draft EXCEPT ![p][g] = n]
      /\ left' = [left EXCEPT ![p] = @ - n]
      /\ UNCHANGED <<rowVars, fetched, call, asked>>
      /\ over => /\ pc' = [pc EXCEPT ![p] = "commit"]
                 /\ chosen' = [chosen EXCEPT ![p] = {}]
                 /\ copy' = [copy EXCEPT ![p] = Nothing]
      /\ ~over => /\ chosen' = [chosen EXCEPT ![p] = chosen[p] \ {g}]
                  /\ UNCHANGED <<pc, copy>>
  BY <1>2 DEF TakeFrom, n, over
<1>6. holder' = holder /\ UNCHANGED <<bytes, used, remaining, active, expired>>
  BY <1>3, <1>5 DEF rowVars
<1>7. \A q \in Procs, h \in Grants : draft'[q][h] = IF q = p /\ h = g THEN n ELSE draft[q][h]
  BY <1>3, <1>5
<1>8. left[p] - n \in Nat /\ (~over => left[p] - n > 0)
  BY <1>4
<1>9. draft' \in [Procs -> [Grants -> Nat]] /\ left' \in [Procs -> Nat]
  BY <1>3, <1>4, <1>5, <1>8
<1>10. DraftsCovered'
  <2>1. SUFFICES ASSUME NEW q \in Procs, NEW h \in Grants
                 PROVE  /\ draft'[q][h] > 0 => holder[h] = q
                        /\ draft'[q][h] <= remaining[h]
    BY <1>6 DEF DraftsCovered
  <2>2. CASE q = p /\ h = g
    BY <1>3, <1>4, <1>7, <2>2
  <2>3. CASE ~(q = p /\ h = g)
    <3>1. draft'[q][h] = draft[q][h]
      BY <1>7, <2>3
    <3>2. QED
      BY <3>1 DEF DraftsCovered
  <2>4. QED
    BY <2>2, <2>3
<1>11. PriorityOrder'
  <2>1. SUFFICES ASSUME NEW q \in Procs, NEW f \in Grants, NEW h \in Grants,
                        draft'[q][f] > 0, holder[h] = q, ~NoLater(f, h)
                 PROVE  draft'[q][h] = remaining[h]
    BY <1>6 DEF PriorityOrder, NoLater
  <2>2. CASE q # p \/ (f # g /\ h # g)
    <3>1. draft'[q][f] = draft[q][f] /\ draft'[q][h] = draft[q][h]
      BY <1>7, <2>2
    <3>2. QED
      BY <2>1, <3>1 DEF PriorityOrder
  <2>3. CASE q = p /\ f = g
    <3>1. h \notin chosen[p]
      BY <1>2, <2>1, <2>3
    <3>2. h # g
      BY <1>2, <3>1
    <3>3. draft[p][h] = remaining[h]
      BY <1>1, <2>1, <2>3, <3>1 DEF RowsAtHand
    <3>4. QED
      BY <1>7, <2>3, <3>2, <3>3
  <2>4. CASE q = p /\ h = g /\ f # g
    <3>1. draft[p][f] > 0
      BY <1>7, <2>1, <2>4
    <3>2. draft[p][g] = remaining[g]
      BY <2>1, <2>4, <3>1 DEF PriorityOrder
    <3>3. remaining[g] = 0 /\ n = 0
      BY <1>3, <1>4, <3>2
    <3>4. QED
      BY <1>7, <2>4, <3>3
  <2>5. QED
    BY <2>2, <2>3, <2>4
<1>12. CASE ~over
  <2>1. TypeOK'
    <3>1. UNCHANGED <<pc, copy>>
      BY <1>5, <1>12
    <3>2. chosen' \in [Procs -> SUBSET Grants]
      <4>1. chosen \in [Procs -> SUBSET Grants] /\ chosen[p] \ {g} \in SUBSET Grants
        OBVIOUS
      <4>2. chosen' = [chosen EXCEPT ![p] = chosen[p] \ {g}]
        BY <1>5, <1>12
      <4> HIDE DEF TypeOK, GrantsInv
      <4>3. QED
        BY <4>1, <4>2
    <3>3. UNCHANGED <<call, asked, fetched>>
      BY <1>5
    <3>4. QED
      BY <1>6, <1>9, <3>1, <3>2, <3>3
  <2>2. Stage'
    BY <1>5, <1>7, <1>8, <1>1, <1>12 DEF Stage
  <2>3. LocksHeld'
    BY <1>5, <1>6, <1>12 DEF LocksHeld
  <2>4. RowsAtHand'
    <3>1. SUFFICES ASSUME NEW q \in Procs, NEW h \in Grants, pc[q] = "consume"
                   PROVE
                     /\ h \in chosen'[q] =>
                           /\ holder[h] = q
                           /\ copy[q][h] = remaining[h]
                           /\ draft'[q][h] = 0
                     /\ holder[h] = q /\ h \notin chosen'[q] => draft'[q][h] = remaining[h]
      BY <1>5, <1>6, <1>12 DEF RowsAtHand
    <3>2. CASE q = p /\ h = g
      <4>1. g \notin chosen'[p] /\ draft'[p][g] = n /\ n = remaining[g]
        BY <1>3, <1>4, <1>5, <1>7, <1>12
      <4>2. QED
        BY <3>2, <4>1
    <3>3. CASE ~(q = p /\ h = g)
      <4>1. draft'[q][h] = draft[q][h] /\ (h \in chosen'[q] <=> h \in chosen[q])
        BY <1>5, <1>7, <1>12, <3>3
      <4>2. QED
        BY <3>1, <4>1 DEF RowsAtHand
    <3>4. QED
      BY <3>2, <3>3
  <2>5. QED
    BY <2>1, <2>2, <2>3, <2>4, <1>10, <1>11
<1>13. CASE over
  <2>1. /\ pc' = [pc EXCEPT ![p] = "commit"]
        /\ chosen' = [chosen EXCEPT ![p] = {}]
        /\ copy' = [copy EXCEPT ![p] = Nothing]
        /\ UNCHANGED <<fetched, call, asked>>
    BY <1>5, <1>13
  <2>2. TypeOK'
    <3>1. copy' \in [Procs -> [Grants -> Nat]] /\ chosen' \in [Procs -> SUBSET Grants]
      BY <2>1 DEF Nothing
    <3>2. QED
      BY <1>6, <1>9, <2>1, <3>1
  <2>3. \A q \in Procs : q # p => /\ pc'[q] = pc[q] /\ chosen'[q] = chosen[q]
                                  /\ copy'[q] = copy[q] /\ left'[q] = left[q]
                                  /\ draft'[q] = draft[q]
    BY <1>5, <2>1
  <2>4. Stage'
    BY <1>1, <2>1, <2>3 DEF Stage
  <2>5. LocksHeld'
    BY <1>6, <2>1 DEF LocksHeld
  <2>6. RowsAtHand'
    BY <1>6, <2>1, <2>3 DEF RowsAtHand
  <2>7. QED
    BY <2>2, <2>4, <2>5, <2>6, <1>10, <1>11
<1>14. QED
  BY <1>12, <1>13

LEMMA GrantsInvStep == GrantsInv /\ [Next]_vars => GrantsInv'
<1> SUFFICES ASSUME GrantsInv, [Next]_vars PROVE GrantsInv'
  OBVIOUS
<1>1. ASSUME NEW p \in Procs, CallStep(p) PROVE GrantsInv'
  <2>1. ASSUME NEW c \in Calls, NEW n \in Asks, Begin(p, c, n) PROVE GrantsInv'
    BY <2>1, BeginStep
  <2>2. CASE WriteDetail(p)
    BY <2>2, WriteDetailStep
  <2>3. CASE RefuseDetail(p)
    BY <2>3, RollbackStep DEF RefuseDetail
  <2>4. CASE SelectGrants(p)
    BY <2>4, SelectStep
  <2>5. CASE TakeNext(p)
    BY <2>5, TakeStep
  <2>6. CASE StatementFails(p)
    <3>1. UNCHANGED <<rowVars, fetched>>
      BY <2>6 DEF StatementFails
    <3>2. CASE Finish(p)
      BY <3>1, <3>2, RollbackStep
    <3>3. CASE ConsumeFails(p)
      BY <3>1, <3>3, RollbackStep DEF ConsumeFails
    <3>4. QED
      BY <2>6, <3>2, <3>3 DEF StatementFails
  <2>7. CASE Commit(p)
    BY <2>7, CommitStep
  <2>8. CASE Rollback(p)
    BY <2>8, RollbackStep DEF Rollback
  <2>9. QED
    BY <1>1, <2>1, <2>2, <2>3, <2>4, <2>5, <2>6, <2>7, <2>8 DEF CallStep
<1>2. ASSUME NEW n \in Offers, AddAllowance(n) PROVE GrantsInv'
  BY <1>2, CreateStep DEF AddAllowance
<1>3. CASE AdminRequest
  <2>1. ASSUME NEW n \in Offers, HandleCreateGrant(n) PROVE GrantsInv'
    BY <2>1, CreateStep DEF HandleCreateGrant
  <2>2. ASSUME NEW g \in Grants, DeactivateGrant(g) PROVE GrantsInv'
    BY <2>2, DeactivateStep
  <2>3. ASSUME NEW a \in Admins, RefuseUpdate(a) \/ \E g \in Grants : FetchGrant(a, g)
        PROVE  GrantsInv'
    BY <2>3, HandlerStep
  <2>4. ASSUME NEW a \in Admins, NEW n \in Amounts, UpdateGrant(a, n) PROVE GrantsInv'
    BY <2>4, UpdateStep
  <2>5. QED
    BY <1>3, <2>1, <2>2, <2>3, <2>4 DEF AdminRequest
<1>4. ASSUME NEW g \in Grants, Expire(g) PROVE GrantsInv'
  BY <1>4, ExpireStep
<1>5. CASE UNCHANGED vars
  <2>1. UNCHANGED <<bytes, used, remaining, active, expired, holder, fetched>>
        /\ UNCHANGED txVars
    BY <1>5 DEF vars, rowVars
  <2>2. TypeOK'
    BY <2>1 DEF GrantsInv, TypeOK, txVars
  <2>3. \A g \in Grants : remaining[g] <= remaining'[g]
    BY <2>1 DEF GrantsInv, TypeOK
  <2>4. \A g \in Grants : bytes[g] > 0 /\ holder[g] # Nobody =>
            remaining'[g] = remaining[g] /\ active'[g] = active[g] /\ bytes'[g] > 0
    BY <2>1
  <2>5. QED
    BY <2>1, <2>2, <2>3, <2>4, RowsChange
<1>6. QED
  BY <1>1, <1>2, <1>3, <1>4, <1>5 DEF Next

THEOREM GrantsInvHolds == Spec => []GrantsInv
  BY GrantsInvInit, GrantsInvStep, PTL DEF Spec

-----------------------------------------------------------------------------
(* Theorems.                                                               *)

\* Every variable keeps its type, whoever consumes and administers what at the same time.
THEOREM TypeCorrect == Spec => []TypeOK
<1>1. GrantsInv => TypeOK
  BY DEF GrantsInv
<1>2. QED
  BY <1>1, GrantsInvHolds, PTL

\* What ConsumeFromGrants has read under FOR UPDATE stays as it was read until the row is
\* written, and the grant stays active.
THEOREM RowsStayAsRead == Spec => []RowsAsRead
<1>1. GrantsInv => RowsAsRead
  BY DEF GrantsInv, TypeOK, RowsAsRead, RowsAtHand, LocksHeld
<1>2. QED
  BY <1>1, GrantsInvHolds, PTL

\* Of the rows a transaction has locked, those of a source that comes earlier
\* are used up before the next one is touched.
THEOREM PriorityIsKept == Spec => []PriorityOrder
<1>1. GrantsInv => PriorityOrder
  BY DEF GrantsInv
<1>2. QED
  BY <1>1, GrantsInvHolds, PTL

\* Only a commit raises bytes_used, and only of rows that are locked, which have stayed
\* active since they were read.
THEOREM OnlyActiveAreUsed == Spec => OnlyFromActive
<1>1. ASSUME GrantsInv, [Next]_vars
      PROVE  [\A g \in Grants : used'[g] > used[g] => active[g]]_vars
  <2>1. ASSUME NEW g \in Grants, used' # used, used'[g] > used[g] PROVE active[g]
    <3>1. PICK p \in Procs : Commit(p)
      BY <1>1, <2>1 DEF Next, vars, rowVars, CallStep, AdminRequest, Begin, WriteDetail,
        RefuseDetail, SelectGrants, TakeNext, TakeFrom, StatementFails, Rollback, AddAllowance,
        HandleCreateGrant, CreateGrants, DeactivateGrant, FetchGrant, RefuseUpdate,
        UpdateGrant, Expire
    <3>2. used'[g] = used[g] + draft[p][g] /\ used[g] \in Nat /\ draft[p][g] \in Nat
      BY <1>1, <3>1 DEF Commit, GrantsInv, TypeOK
    <3>3. draft[p][g] > 0
      BY <2>1, <3>2
    <3>4. QED
      BY <1>1, <3>3 DEF GrantsInv, DraftsCovered, LocksHeld
  <2>2. \A g \in Grants : used'[g] > used[g] => used' # used
    BY <1>1 DEF GrantsInv, TypeOK
  <2>3. QED
    BY <2>1, <2>2
<1>2. QED
  BY <1>1, GrantsInvHolds, PTL DEF Spec, OnlyFromActive

-----------------------------------------------------------------------------
(* What is added up: the drafts of all transactions, and what one has taken.       *)

\* What is used and what is left of a grant is within its bytes; raising it, as the row
\* was read by handleUpdateGrant, never goes below that.
Booked ==
    /\ \A g \in Grants : used[g] + remaining[g] <= bytes[g]
    /\ \A a \in Admins : fetched[a] # NoGrant =>
          LET g == fetched[a].id IN
          bytes[g] > 0 /\ used[g] + remaining[g] <= fetched[a].bytes

LEMMA RowNumbers ==
  ASSUME GrantsInv
  PROVE  /\ \A g \in Grants : bytes[g] \in Nat /\ used[g] \in Nat /\ remaining[g] \in Nat
         /\ fetched \in [Admins -> [id : Grants, bytes : Amounts] \cup {NoGrant}]
<1>1. Amounts \cup {0} \subseteq Nat
  BY GrantsAssumption
<1>2. bytes \in [Grants -> Amounts \cup {0}]
  BY DEF GrantsInv, TypeOK
<1>3. \A g \in Grants : bytes[g] \in Nat
  BY <1>1, <1>2
<1>4. QED
  BY <1>3 DEF GrantsInv, TypeOK

LEMMA OfferNumbers ==
  ASSUME NEW n \in Offers
  PROVE  \A g \in Grants : n[g] \in Nat
<1>1. Amounts \cup {0} \subseteq Nat /\ n \in [Grants -> Amounts \cup {0}]
  BY GrantsAssumption
<1>2. QED
  BY <1>1

LEMMA BookedInit == Init => Booked
  BY DEF Init, Booked, Nothing

LEMMA BookedSame ==
  ASSUME Booked, UNCHANGED <<bytes, used, remaining>>,
         \A a \in Admins : fetched'[a] # NoGrant => fetched'[a] = fetched[a]
  PROVE  Booked'
  BY DEF Booked

LEMMA BookedCreate ==
  ASSUME GrantsInv, Booked, NEW n \in Offers, CreateGrants(n)
  PROVE  Booked'
<1>1. /\ \A g \in Grants : bytes[g] \in Nat /\ used[g] \in Nat /\ remaining[g] \in Nat
      /\ fetched \in [Admins -> [id : Grants, bytes : Amounts] \cup {NoGrant}]
  BY RowNumbers
<1>2. \A g \in Grants : n[g] \in Nat
  BY OfferNumbers
<1>3. \A g \in Grants : BytesRemaining(n[g], 0) = n[g]
  BY <1>2 DEF BytesRemaining
<1>4. /\ used' = used /\ fetched' = fetched
      /\ \A g \in Grants :
            \/ bytes'[g] = bytes[g] /\ remaining'[g] = remaining[g]
            \/ bytes[g] = 0 /\ bytes'[g] = n[g] /\ remaining'[g] = n[g]
  BY <1>1, <1>2, <1>3 DEF CreateGrants, Exists
<1>5. ASSUME NEW g \in Grants, bytes[g] = 0 PROVE used[g] = 0
  <2>1. used[g] + remaining[g] <= 0
    BY <1>5 DEF Booked
  <2>2. QED
    BY <1>1, <2>1
<1>6. ASSUME NEW g \in Grants PROVE used'[g] + remaining'[g] <= bytes'[g]
  <2>1. CASE bytes'[g] = bytes[g] /\ remaining'[g] = remaining[g]
    BY <1>4, <2>1 DEF Booked
  <2>2. CASE bytes[g] = 0 /\ bytes'[g] = n[g] /\ remaining'[g] = n[g]
    <3>1. used'[g] = 0 /\ n[g] \in Nat
      BY <1>2, <1>4, <1>5, <2>2
    <3>2. QED
      BY <2>2, <3>1
  <2>3. QED
    BY <1>4, <2>1, <2>2
<1>7. ASSUME NEW a \in Admins, fetched[a] # NoGrant
      PROVE  LET g == fetched[a].id IN
             bytes'[g] > 0 /\ used'[g] + remaining'[g] <= fetched[a].bytes
  <2>1. fetched[a].id \in Grants /\ bytes[fetched[a].id] > 0
    BY <1>1, <1>7 DEF Booked
  <2>2. bytes'[fetched[a].id] = bytes[fetched[a].id] /\ remaining'[fetched[a].id] = remaining[fetched[a].id]
    BY <1>4, <2>1
  <2>3. QED
    BY <1>4, <1>7, <2>1, <2>2 DEF Booked
<1>8. QED
  BY <1>4, <1>6, <1>7 DEF Booked

LEMMA BookedUpdate ==
  ASSUME GrantsInv, Booked, NEW a \in Admins, NEW n \in Amounts, UpdateGrant(a, n)
  PROVE  Booked'
<1>1. /\ bytes \in [Grants -> Amounts \cup {0}] /\ \A g \in Grants : used[g] \in Nat /\ remaining[g] \in Nat
      /\ fetched \in [Admins -> [id : Grants, bytes : Amounts] \cup {NoGrant}]
  BY DEF GrantsInv, TypeOK
<1>2. n \in Nat \ {0} /\ Amounts \subseteq Nat
  BY GrantsAssumption
<1>3. fetched[a] # NoGrant /\ n >= fetched[a].bytes /\ used' = used /\ remaining' = remaining
      /\ bytes' = [bytes EXCEPT ![fetched[a].id] = n]
      /\ fetched' = [fetched EXCEPT ![a] = NoGrant]
  BY DEF UpdateGrant
<1>4. fetched[a] \in [id : Grants, bytes : Amounts]
  BY <1>1, <1>3
<1>5. PICK g \in Grants : g = fetched[a].id
  BY <1>4
<1>6. used[g] + remaining[g] <= n
  <2>1. used[g] + remaining[g] <= fetched[a].bytes /\ fetched[a].bytes \in Nat
    BY <1>2, <1>3, <1>4, <1>5 DEF Booked
  <2>2. QED
    BY <1>1, <1>2, <1>3, <2>1
<1>7. \A h \in Grants : bytes'[h] = IF h = g THEN n ELSE bytes[h]
  BY <1>1, <1>3, <1>5
<1>8. \A h \in Grants : used'[h] + remaining'[h] <= bytes'[h]
  BY <1>3, <1>6, <1>7 DEF Booked
<1>9. ASSUME NEW b \in Admins, fetched'[b] # NoGrant
      PROVE  /\ bytes'[fetched'[b].id] > 0
             /\ used'[fetched'[b].id] + remaining'[fetched'[b].id] <= fetched'[b].bytes
  <2>1. fetched'[b] = fetched[b]
    BY <1>1, <1>3, <1>9
  <2>2. fetched[b].id \in Grants
    BY <1>1, <1>9, <2>1
  <2>3. bytes'[fetched[b].id] > 0
    BY <1>2, <1>7, <1>9, <2>1, <2>2 DEF Booked
  <2>4. QED
    BY <1>3, <1>9, <2>1, <2>3 DEF Booked
<1>10. QED
  BY <1>8, <1>9 DEF Booked

LEMMA BookedCommit ==
  ASSUME GrantsInv, Booked, NEW p \in Procs, Commit(p)
  PROVE  Booked'
<1>1. \A g \in Grants :
         /\ used[g] \in Nat /\ remaining[g] \in Nat /\ draft[p][g] \in Nat
         /\ used'[g] = used[g] + draft[p][g] /\ remaining'[g] = remaining[g] - draft[p][g]
  BY DEF GrantsInv, TypeOK, Commit
<1>2. \A g \in Grants : used'[g] + remaining'[g] = used[g] + remaining[g]
  BY <1>1
<1>3. bytes' = bytes /\ fetched' = fetched
  BY DEF Commit
<1>4. fetched \in [Admins -> [id : Grants, bytes : Amounts] \cup {NoGrant}]
  BY DEF GrantsInv, TypeOK
<1>5. \A a \in Admins : fetched[a] # NoGrant => fetched[a].id \in Grants
  BY <1>4
<1>6. QED
  BY <1>2, <1>3, <1>5 DEF Booked

LEMMA BookedStep == GrantsInv /\ Booked /\ [Next]_vars => Booked'
<1> SUFFICES ASSUME GrantsInv, Booked, [Next]_vars PROVE Booked'
  OBVIOUS
<1>1. ASSUME NEW n \in Offers, CreateGrants(n) PROVE Booked'
  BY <1>1, BookedCreate
<1>2. ASSUME NEW a \in Admins, NEW n \in Amounts, UpdateGrant(a, n) PROVE Booked'
  BY <1>2, BookedUpdate
<1>3. ASSUME NEW p \in Procs, Commit(p) PROVE Booked'
  BY <1>3, BookedCommit
<1>4. ASSUME NEW a \in Admins, RefuseUpdate(a) PROVE Booked'
  <2>1. \A b \in Admins : fetched'[b] # NoGrant => fetched'[b] = fetched[b]
    BY <1>4 DEF RefuseUpdate, GrantsInv, TypeOK
  <2>2. QED
    BY <1>4, <2>1, BookedSame DEF RefuseUpdate, rowVars
<1>5. ASSUME NEW a \in Admins, NEW g \in Grants, FetchGrant(a, g) PROVE Booked'
  <2>1. \A b \in Admins : fetched'[b] = IF b = a THEN [id |-> g, bytes |-> bytes[g]] ELSE fetched[b]
    BY <1>5 DEF FetchGrant, GrantsInv, TypeOK
  <2>2. bytes[g] > 0 /\ UNCHANGED <<bytes, used, remaining>>
    BY <1>5 DEF FetchGrant, Exists, rowVars
  <2>3. ASSUME NEW b \in Admins, fetched'[b] # NoGrant
        PROVE  /\ bytes[fetched'[b].id] > 0
               /\ used[fetched'[b].id] + remaining[fetched'[b].id] <= fetched'[b].bytes
    <3>1. CASE b = a
      BY <2>1, <2>2, <3>1 DEF Booked
    <3>2. CASE b # a
      BY <2>1, <2>3, <3>2 DEF Booked
    <3>3. QED
      BY <3>1, <3>2
  <2>4. QED
    BY <2>2, <2>3 DEF Booked
<1>6. CASE UNCHANGED <<bytes, used, remaining, fetched>>
  BY <1>6, BookedSame
<1>7. ASSUME NEW p \in Procs, CallStep(p) PROVE Commit(p) \/ UNCHANGED <<bytes, used, remaining, fetched>>
  BY <1>7 DEF rowVars, CallStep, Begin, WriteDetail, RefuseDetail, SelectGrants, TakeNext, TakeFrom,
    StatementFails, Rollback
<1>8. CASE AdminRequest
  BY <1>1, <1>2, <1>4, <1>5, <1>6, <1>8 DEF AdminRequest, HandleCreateGrant, DeactivateGrant
<1>9. ASSUME NEW n \in Offers, AddAllowance(n) PROVE Booked'
  BY <1>1, <1>9 DEF AddAllowance
<1>10. ASSUME NEW g \in Grants, Expire(g) PROVE Booked'
  BY <1>6, <1>10 DEF Expire
<1>11. CASE UNCHANGED vars
  BY <1>6, <1>11 DEF vars, rowVars
<1>12. QED
  BY <1>3, <1>6, <1>7, <1>8, <1>9, <1>10, <1>11 DEF Next

\* A grant is never promised twice: at most one transaction takes from it at a time, no
\* more than is left of it, and what is left of it was never used.
THEOREM GrantsCover == Spec => []NeverOverdrawn
<1>1. ASSUME GrantsInv, Booked, NEW g \in Grants
      PROVE  used[g] + SumFunctionOnSet([p \in Procs |-> draft[p][g]], Procs) <= bytes[g]
  <2> DEFINE f == [p \in Procs |-> draft[p][g]]
  <2>1. /\ used[g] \in Nat /\ remaining[g] \in Nat /\ bytes[g] \in Nat
        /\ used[g] + remaining[g] <= bytes[g]
    BY <1>1, RowNumbers DEF Booked
  <2>2. \A p \in Procs : f[p] \in Nat /\ f[p] <= remaining[g] /\ (f[p] > 0 => holder[g] = p)
    BY <1>1 DEF GrantsInv, TypeOK, DraftsCovered
  <2> HIDE DEF f
  <2>3. SumFunctionOnSet(f, Procs) <= remaining[g]
    <3>1. CASE \A p \in Procs : f[p] = 0
      BY <2>1, <3>1, SumOfZeros, FiniteAssumption
    <3>2. ASSUME NEW p \in Procs, f[p] # 0 PROVE SumFunctionOnSet(f, Procs) <= remaining[g]
      <4>1. holder[g] = p
        BY <2>2, <3>2
      <4>2. \A q \in Procs \ {p} : f[q] = 0
        BY <2>2, <4>1
      <4>3. IsFiniteSet(Procs \ {p})
        BY FiniteAssumption, FS_RemoveElement
      <4>4. SumFunctionOnSet(f, Procs \ {p}) = 0
        BY <4>2, <4>3, SumOfZeros
      <4>5. SumFunctionOnSet(f, Procs) = f[p] + SumFunctionOnSet(f, Procs \ {p})
        BY <2>2, SumWithout, FiniteAssumption
      <4>6. QED
        BY <2>2, <4>4, <4>5
    <3>3. QED
      BY <3>1, <3>2
  <2>4. SumFunctionOnSet(f, Procs) \in Nat
    BY <2>2, SumIsNat, FiniteAssumption
  <2>5. QED
    BY <2>1, <2>3, <2>4 DEF f
<1>2. GrantsInv /\ Booked => NeverOverdrawn
  BY <1>1 DEF NeverOverdrawn
<1>3. QED
  BY <1>2, GrantsInvHolds, BookedInit, BookedStep, PTL DEF Spec

-----------------------------------------------------------------------------
OfType(t) == {g \in Grants : TypeOf[g] = t}

\* While a call takes from the rows it has read, what it has taken and what is left to
\* take make up what it was asked for, and the rows to come are enough.
RecordFine(p) ==
    LET taken == SumFunctionOnSet(draft[p], OfType(asked[p].type)) IN
    /\ pc[p] = "consume" =>
          /\ taken + left[p] = asked[p].bytes
          /\ left[p] <= SumFunctionOnSet(copy[p], chosen[p])
    /\ pc[p] = "commit" => taken = asked[p].bytes

RecordInv == \A p \in Procs : RecordFine(p)

\* The variables of the transaction of p.
OfProc(p) ==
    <<pc[p], asked[p], copy[p], chosen[p], left[p], draft[p]>>

LEMMA RecordInitially == Init => RecordInv
  BY DEF Init, RecordInv, RecordFine

LEMMA RecordElsewhere ==
  ASSUME RecordInv, NEW p \in Procs, RecordFine(p)',
         \A q \in Procs : q # p => UNCHANGED OfProc(q)
  PROVE  RecordInv'
<1>1. ASSUME NEW q \in Procs, q # p PROVE RecordFine(q)'
  <2>1. RecordFine(q) /\ UNCHANGED OfProc(q)
    BY <1>1 DEF RecordInv
  <2>2. QED
    BY <2>1 DEF RecordFine, OfProc, OfType
<1>2. QED
  BY <1>1 DEF RecordInv

LEMMA RecordIdle ==
  ASSUME GrantsInv, RecordInv, NEW p \in Procs, Finish(p)
  PROVE  RecordInv'
<1>1. pc'[p] = "idle"
  BY DEF Finish, GrantsInv, TypeOK
<1>2. \A q \in Procs : q # p => UNCHANGED OfProc(q)
  BY DEF Finish, GrantsInv, TypeOK, OfProc
<1>3. RecordFine(p)'
  BY <1>1 DEF RecordFine
<1>4. QED
  BY <1>2, <1>3, RecordElsewhere

LEMMA RecordBegin ==
  ASSUME GrantsInv, RecordInv, NEW p \in Procs,
         WriteDetail(p) \/ \E c \in Calls, n \in Asks : Begin(p, c, n)
  PROVE  RecordInv'
<1>1. /\ pc'[p] \in {"detail", "select"}
      /\ \A q \in Procs : q # p => UNCHANGED OfProc(q)
  BY DEF Begin, WriteDetail, GrantsInv, TypeOK, OfProc
<1>2. RecordFine(p)'
  BY <1>1 DEF RecordFine
<1>3. QED
  BY <1>1, <1>2, RecordElsewhere

LEMMA RecordSelect ==
  ASSUME GrantsInv, RecordInv, NEW p \in Procs, SelectGrants(p)
  PROVE  RecordInv'
<1> DEFINE t == asked[p].type
           rows == ActiveGrants(t)
           read == [g \in Grants |-> IF g \in rows THEN remaining[g] ELSE 0]
<1>1. pc[p] = "select" /\ UNCHANGED rowVars
  BY DEF SelectGrants
<1>2. CASE ConsumeFails(p)
  BY <1>2, RecordIdle DEF ConsumeFails
<1>3. CASE ~ConsumeFails(p)
  <2>1. /\ pc' = [pc EXCEPT ![p] = "consume"]
        /\ copy' = [copy EXCEPT ![p] = read]
        /\ chosen' = [chosen EXCEPT ![p] = rows]
        /\ left' = [left EXCEPT ![p] = asked[p].bytes]
        /\ UNCHANGED <<call, asked, draft>>
        /\ ~(CalculateAvailableBytes(rows) < asked[p].bytes)
    BY <1>3 DEF SelectGrants
  <2>2. /\ pc'[p] = "consume" /\ copy'[p] = read /\ chosen'[p] = rows
        /\ left'[p] = asked[p].bytes
        /\ \A q \in Procs : q # p => UNCHANGED OfProc(q)
    BY <2>1 DEF GrantsInv, TypeOK, OfProc
  <2>3. asked[p].bytes \in Nat
    BY DEF GrantsInv, TypeOK, Request
  <2>4. rows \subseteq Grants /\ IsFiniteSet(rows)
    <3>1. rows \subseteq Grants
      BY DEF ActiveGrants
    <3>2. QED
      BY <3>1, FS_Subset, FiniteAssumption
  <2>5. \A g \in rows : remaining[g] \in Nat /\ read[g] = remaining[g]
    BY <2>4, RowNumbers
  <2>6. draft[p] = Nothing
    BY <1>1 DEF GrantsInv, Stage
  <2> HIDE DEF rows, read
  <2>7. SumFunctionOnSet(read, rows) = SumFunctionOnSet(remaining, rows)
    BY <2>4, <2>5, SumOfSame
  <2>8. SumFunctionOnSet(remaining, rows) \in Nat
    BY <2>4, <2>5, SumIsNat
  <2>9. asked[p].bytes <= SumFunctionOnSet(read, rows)
    BY <2>1, <2>3, <2>7, <2>8 DEF CalculateAvailableBytes
  <2>10. SumFunctionOnSet(draft[p], OfType(t)) = 0
    <3>1. \A g \in OfType(t) : draft[p][g] = 0
      BY <2>6 DEF Nothing, OfType
    <3>2. IsFiniteSet(OfType(t))
      BY FS_Subset, FiniteAssumption DEF OfType
    <3>3. QED
      BY <3>1, <3>2, SumOfZeros
  <2>11. SumFunctionOnSet(draft[p], OfType(t)) + left'[p] = asked[p].bytes
    BY <2>2, <2>3, <2>10
  <2>12. RecordFine(p)'
    BY <2>1, <2>2, <2>9, <2>11 DEF RecordFine, OfType
  <2>13. QED
    BY <2>2, <2>12, RecordElsewhere
<1>4. QED
  BY <1>2, <1>3

LEMMA RecordTake ==
  ASSUME GrantsInv, RecordInv, NEW p \in Procs, TakeNext(p)
  PROVE  RecordInv'
<1>1. pc[p] = "consume"
  BY DEF TakeNext
<1>2. PICK g \in chosen[p] : TakeFrom(p, g)
  BY DEF TakeNext
<1> DEFINE t == asked[p].type
           over == left[p] = ConsumeAmount(p, g) \/ chosen[p] = {g}
<1>3. /\ g \in Grants /\ TypeOf[g] = t /\ draft[p][g] = 0
      /\ chosen[p] \subseteq Grants
      /\ left[p] \in Nat /\ left[p] > 0 /\ copy[p] \in [Grants -> Nat]
      /\ draft[p] \in [Grants -> Nat] /\ asked[p].bytes \in Nat
  BY <1>1 DEF GrantsInv, TypeOK, RowsAtHand, LocksHeld, Stage, Request
<1>4. PICK n \in Nat : /\ n = ConsumeAmount(p, g)
                       /\ n <= left[p] /\ n <= copy[p][g] /\ (n = left[p] \/ n = copy[p][g])
  BY <1>3 DEF ConsumeAmount, Least
<1>5. /\ draft' = [draft EXCEPT ![p][g] = n]
      /\ left' = [left EXCEPT ![p] = @ - n]
      /\ UNCHANGED <<call, asked>>
      /\ over => /\ pc' = [pc EXCEPT ![p] = "commit"]
                 /\ chosen' = [chosen EXCEPT ![p] = {}]
                 /\ copy' = [copy EXCEPT ![p] = Nothing]
      /\ ~over => /\ chosen' = [chosen EXCEPT ![p] = chosen[p] \ {g}]
                  /\ UNCHANGED <<pc, copy>>
  BY <1>2, <1>4 DEF TakeFrom, over
<1>6. draft'[p] = [draft[p] EXCEPT ![g] = n] /\ left'[p] = left[p] - n
  BY <1>3, <1>5 DEF GrantsInv, TypeOK
<1>7. \A q \in Procs : q # p => UNCHANGED OfProc(q)
  BY <1>5 DEF OfProc, GrantsInv, TypeOK
<1>8. RecordFine(p)'
  <2>1. /\ SumFunctionOnSet(draft[p], OfType(t)) + left[p] = asked[p].bytes
        /\ left[p] <= SumFunctionOnSet(copy[p], chosen[p])
    BY <1>1 DEF RecordInv, RecordFine
  <2>2. IsFiniteSet(OfType(t)) /\ OfType(t) \subseteq Grants /\ g \in OfType(t)
    BY <1>3, FS_Subset, FiniteAssumption DEF OfType
  <2>3. SumFunctionOnSet(draft'[p], OfType(t)) = SumFunctionOnSet(draft[p], OfType(t)) - draft[p][g] + n
    <3>1. /\ \A h \in OfType(t) : draft[p][h] \in Nat
          /\ draft'[p][g] = n
          /\ \A h \in OfType(t) \ {g} : draft'[p][h] = draft[p][h]
      BY <1>3, <1>6, <2>2
    <3> HIDE DEF t
    <3>2. QED
      BY <2>2, <3>1, SumOfChange
  <2>4. PICK taken \in Nat : taken = SumFunctionOnSet(draft[p], OfType(t))
    BY <1>3, <2>2, SumIsNat
  <2>5. SumFunctionOnSet(draft'[p], OfType(t)) = taken + n
    BY <1>3, <2>3, <2>4
  <2>6. taken + n + left'[p] = asked[p].bytes
    BY <1>3, <1>6, <2>1, <2>4
  <2>7. IsFiniteSet(chosen[p])
    BY <1>3, FS_Subset, FiniteAssumption
  <2>8. SumFunctionOnSet(copy[p], chosen[p]) = copy[p][g] + SumFunctionOnSet(copy[p], chosen[p] \ {g})
    BY <1>3, <2>7, SumWithout
  <2>9. PICK rest \in Nat : rest = SumFunctionOnSet(copy[p], chosen[p] \ {g})
    <3>1. IsFiniteSet(chosen[p] \ {g})
      BY <2>7, FS_RemoveElement
    <3>2. \A h \in chosen[p] \ {g} : copy[p][h] \in Nat
      BY <1>3
    <3>3. QED
      BY <3>1, <3>2, SumIsNat
  <2>10. left[p] - n <= rest
    BY <1>3, <1>4, <2>1, <2>8, <2>9
  <2>11. asked'[p] = asked[p] /\ UNCHANGED OfType(t)
    BY <1>5 DEF OfType
  <2>12. CASE ~over
    <3>1. pc'[p] = "consume" /\ chosen'[p] = chosen[p] \ {g} /\ copy'[p] = copy[p]
      BY <1>1, <1>5, <2>12 DEF GrantsInv, TypeOK
    <3>2. left'[p] <= SumFunctionOnSet(copy'[p], chosen'[p])
      BY <1>6, <2>9, <2>10, <3>1
    <3>3. QED
      BY <2>5, <2>6, <2>11, <3>1, <3>2 DEF RecordFine, OfType
  <2>13. CASE over
    <3>1. rest = 0 \/ n = left[p]
      <4>1. CASE chosen[p] = {g}
        <5>1. chosen[p] \ {g} = {}
          BY <4>1
        <5>2. QED
          BY <2>9, <5>1, SumOfNone
      <4>2. QED
        BY <1>4, <2>13, <4>1
    <3>2. left'[p] = 0
      BY <1>3, <1>4, <1>6, <2>10, <3>1
    <3>3. pc'[p] = "commit"
      BY <1>5, <2>13 DEF GrantsInv, TypeOK
    <3>4. SumFunctionOnSet(draft'[p], OfType(t)) = asked[p].bytes
      BY <2>4, <2>5, <2>6, <3>2
    <3>5. QED
      BY <2>11, <3>3, <3>4 DEF RecordFine, OfType
  <2>14. QED
    BY <2>12, <2>13
<1>9. QED
  BY <1>7, <1>8, RecordElsewhere

LEMMA RecordStep == GrantsInv /\ RecordInv /\ [Next]_vars => RecordInv'
<1> SUFFICES ASSUME GrantsInv, RecordInv, [Next]_vars PROVE RecordInv'
  OBVIOUS
<1>1. ASSUME NEW p \in Procs, CallStep(p) PROVE RecordInv'
  <2>1. CASE WriteDetail(p) \/ \E c \in Calls, n \in Asks : Begin(p, c, n)
    BY <2>1, RecordBegin
  <2>2. CASE SelectGrants(p)
    BY <2>2, RecordSelect
  <2>3. CASE TakeNext(p)
    BY <2>3, RecordTake
  <2>4. CASE RefuseDetail(p) \/ StatementFails(p) \/ Commit(p) \/ Rollback(p)
    BY <2>4, RecordIdle DEF RefuseDetail, StatementFails, ConsumeFails, Commit, Rollback
  <2>5. QED
    BY <1>1, <2>1, <2>2, <2>3, <2>4 DEF CallStep
<1>2. CASE UNCHANGED txVars
  <2>1. ASSUME NEW q \in Procs PROVE RecordFine(q)'
    <3>1. RecordFine(q) /\ UNCHANGED OfProc(q)
      BY <1>2 DEF RecordInv, OfProc, txVars
    <3>2. QED
      BY <3>1 DEF RecordFine, OfProc, OfType
  <2>2. QED
    BY <2>1 DEF RecordInv
<1>3. (\E p \in Procs : CallStep(p)) \/ UNCHANGED txVars
  BY DEF Next, vars, AdminRequest, AddAllowance, HandleCreateGrant, CreateGrants, DeactivateGrant,
    FetchGrant, RefuseUpdate, UpdateGrant, Expire
<1>4. QED
  BY <1>1, <1>2, <1>3

\* What RecordUsageAndConsume commits is a usage detail together with exactly the bytes of
\* it, taken from grants of its type, whoever else consumes, administers or fails meanwhile.
THEOREM RecordsArePaid == Spec => []RecordIsPaid
<1>1. ASSUME GrantsInv, RecordInv, NEW p \in Procs, NEW t \in GrantTypes, pc[p] = "commit"
      PROVE  Taken(p, t) = IF t = asked[p].type THEN asked[p].bytes ELSE 0
  <2>1. CASE t = asked[p].type
    <3>1. SumFunctionOnSet(draft[p], OfType(asked[p].type)) = asked[p].bytes
      BY <1>1 DEF RecordInv, RecordFine
    <3>2. QED
      BY <2>1, <3>1 DEF Taken, OfType
  <2>2. CASE t # asked[p].type
    <3>1. \A g \in OfType(t) : draft[p][g] = 0
      <4>1. \A g \in Grants : draft[p][g] \in Nat /\ (draft[p][g] > 0 => TypeOf[g] = asked[p].type)
        BY <1>1 DEF GrantsInv, TypeOK, DraftsCovered, LocksHeld
      <4>2. QED
        BY <2>2, <4>1 DEF OfType
    <3>2. IsFiniteSet(OfType(t))
      BY FS_Subset, FiniteAssumption DEF OfType
    <3>3. QED
      BY <2>2, <3>1, <3>2, SumOfZeros DEF Taken, OfType
  <2>3. QED
    BY <2>1, <2>2
<1>2. GrantsInv /\ RecordInv => RecordIsPaid
  BY <1>1 DEF RecordIsPaid
<1>3. QED
  BY <1>2, GrantsInvHolds, RecordInitially, RecordStep, PTL DEF Spec
===============================================================================
