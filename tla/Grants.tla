-------------------------------- MODULE Grants --------------------------------
(***************************************************************************)
(* The allowance grants of one user: granting, raising, deactivating and   *)
(* expiring them, and the two calls that are to consume from them in a     *)
(* database transaction: RecordUsageAndConsume, which is about one type,   *)
(* and DeductAllowance, which never gets past the usage detail of the      *)
(* first type it is about.  Users share no grants, so one is enough.       *)
(*                                                                         *)
(* A transaction reads rows FOR UPDATE and keeps them locked until it is   *)
(* committed or rolled back; what it writes is a draft until then.         *)
(*                                                                         *)
(* A call:  idle -> detail -> select -> consume -> commit -> idle          *)
(***************************************************************************)
EXTENDS Naturals, FiniteSets, Functions

CONSTANTS
    Procs,     \* goroutines that consume
    Admins,    \* administrators at work
    Grants,    \* IDs of rows of allowance_grants
    TypeOf,    \* TypeOf[g]: what the grant g is for
    Source,    \* Source[g]: where g comes from
    Amounts,   \* byte counts of a grant
    Offers,    \* what may be granted at once: bytes per grant, 0 for none
    Asks,      \* what a call may be about: a type and a number of bytes
    Nobody,    \* the holder of a row that is not locked
    NoGrant    \* an administrator has fetched nothing

GrantTypes == {"storage", "upload", "download"}
GrantSources == {"SUBSCRIPTION", "PAYG_ADDON", "BONUS", "PROMO"}

ASSUME GrantsAssumption ==
    /\ TypeOf \in [Grants -> GrantTypes]
    /\ Source \in [Grants -> GrantSources]
    /\ Amounts \subseteq Nat \ {0}
    /\ Offers \subseteq [Grants -> Amounts \cup {0}]
    /\ Asks \subseteq [type : GrantTypes, bytes : Nat \ {0}]
    /\ Nobody \notin Procs
    /\ NoGrant \notin [id : Grants, bytes : Amounts]

ASSUME FiniteAssumption == IsFiniteSet(Procs) /\ IsFiniteSet(Grants)

VARIABLES
    bytes, used, remaining, active,  \* columns of the row; bytes is 0 before it exists
    expired,    \* expiry_date has passed
    holder,     \* holder[g]: the transaction that has locked the row
    fetched,    \* fetched[a]: the row as handleUpdateGrant has read it
    pc, call,   \* a goroutine's call
    asked,      \* asked[p]: the type and the bytes it is about
    copy,       \* bytes_remaining as it has read them
    chosen,     \* the rows it has read and not come to yet
    left,       \* remainingBytes
    draft       \* draft[p][g]: what it takes from g if it commits

rowVars == <<bytes, used, remaining, active, expired>>
txVars == <<pc, call, asked, copy, chosen, left, draft>>
vars == <<rowVars, holder, fetched, txVars>>

Calls == {"record", "deduct"}
Nothing == [g \in Grants |-> 0]
Request == [type : GrantTypes, bytes : Nat]
NoRequest == [type |-> "storage", bytes |-> 0]

TypeOK ==
    /\ bytes \in [Grants -> Amounts \cup {0}]
    /\ used \in [Grants -> Nat]
    /\ remaining \in [Grants -> Nat]
    /\ active \in [Grants -> BOOLEAN]
    /\ expired \in [Grants -> BOOLEAN]
    /\ holder \in [Grants -> Procs \cup {Nobody}]
    /\ fetched \in [Admins -> [id : Grants, bytes : Amounts] \cup {NoGrant}]
    /\ pc \in [Procs -> {"idle", "detail", "select", "consume", "commit"}]
    /\ call \in [Procs -> Calls]
    /\ asked \in [Procs -> Request]
    /\ copy \in [Procs -> [Grants -> Nat]]
    /\ chosen \in [Procs -> SUBSET Grants]
    /\ left \in [Procs -> Nat]
    /\ draft \in [Procs -> [Grants -> Nat]]

Init ==
    /\ bytes = Nothing
    /\ used = Nothing
    /\ remaining = Nothing
    /\ active = [g \in Grants |-> FALSE]
    /\ expired = [g \in Grants |-> FALSE]
    /\ holder = [g \in Grants |-> Nobody]
    /\ fetched = [a \in Admins |-> NoGrant]
    /\ pc = [p \in Procs |-> "idle"]
    /\ call = [p \in Procs |-> "record"]
    /\ asked = [p \in Procs |-> NoRequest]
    /\ copy = [p \in Procs |-> Nothing]
    /\ chosen = [p \in Procs |-> {}]
    /\ left = [p \in Procs |-> 0]
    /\ draft = [p \in Procs |-> Nothing]

Exists(g) == bytes[g] > 0
Least(m, n) == IF m < n THEN m ELSE n

\* AllowanceGrant.BeforeSave.
BytesRemaining(granted, spent) == IF spent > granted THEN 0 ELSE granted - spent

GetGrantPriority(source) ==
    CASE source = "PAYG_ADDON" -> 4
      [] source = "PROMO" -> 3
      [] source = "BONUS" -> 2
      [] source = "SUBSCRIPTION" -> 1

\* getSourcePriorityOrderClause: g does not come after h.
NoLater(g, h) == GetGrantPriority(Source[h]) <= GetGrantPriority(Source[g])

\* A statement that writes or locks a row waits for the transaction that holds it.
RowFree(g) == holder[g] = Nobody

-----------------------------------------------------------------------------
(* Granting.                                                               *)

\* CreateAllowanceGrantLocked, once or more often in a transaction.
CreateGrants(n) ==
    LET new == {g \in Grants : n[g] > 0} IN
    /\ new # {}
    /\ \A g \in new : ~Exists(g)
    /\ bytes' = [g \in Grants |-> IF g \in new THEN n[g] ELSE bytes[g]]
    /\ remaining' = [g \in Grants |-> IF g \in new THEN BytesRemaining(n[g], 0) ELSE remaining[g]]
    /\ active' = [g \in Grants |-> active[g] \/ g \in new]
    /\ UNCHANGED <<used, expired, holder, fetched, txVars>>

\* addAllowanceWithSource: grants from one source, one for each type, all or none.
AddAllowance(n) ==
    /\ \A g, h \in Grants : n[g] > 0 /\ n[h] > 0 =>
          Source[g] = Source[h] /\ (TypeOf[g] = TypeOf[h] => g = h)
    /\ CreateGrants(n)

\* The request of an administrator, for one grant of any source and type.
HandleCreateGrant(n) ==
    /\ \A g, h \in Grants : n[g] > 0 /\ n[h] > 0 => g = h
    /\ CreateGrants(n)

\* DeactivateGrant: one UPDATE.  (handleDeleteGrant is one of these, ResetAllowance a series.)
DeactivateGrant(g) ==
    /\ Exists(g)
    /\ RowFree(g)
    /\ active' = [active EXCEPT ![g] = FALSE]
    /\ UNCHANGED <<bytes, used, remaining, expired, holder, fetched, txVars>>

\* handleUpdateGrant reads the grant, in a transaction of its own ...
FetchGrant(a, g) ==
    /\ Exists(g)
    /\ fetched[a] = NoGrant
    /\ fetched' = [fetched EXCEPT ![a] = [id |-> g, bytes |-> bytes[g]]]
    /\ UNCHANGED <<rowVars, holder, txVars>>

\* ... refuses to go below what it has read, or fails ...
RefuseUpdate(a) ==
    /\ fetched[a] # NoGrant
    /\ fetched' = [fetched EXCEPT ![a] = NoGrant]
    /\ UNCHANGED <<rowVars, holder, txVars>>

\* Mutant: whatever is asked for is written.
UpdateGrantUnchecked(a, n) ==
    /\ fetched[a] # NoGrant
    /\ RowFree(fetched[a].id)
    /\ bytes' = [bytes EXCEPT ![fetched[a].id] = n]
    /\ fetched' = [fetched EXCEPT ![a] = NoGrant]
    /\ UNCHANGED <<used, remaining, active, expired, holder, txVars>>

\* Mutant: what is left is calculated anew, as the raised bytes would need it.
UpdateGrantRecalculated(a, n) ==
    /\ fetched[a] # NoGrant
    /\ n >= fetched[a].bytes
    /\ RowFree(fetched[a].id)
    /\ bytes' = [bytes EXCEPT ![fetched[a].id] = n]
    /\ remaining' = [remaining EXCEPT ![fetched[a].id] = BytesRemaining(n, used[fetched[a].id])]
    /\ fetched' = [fetched EXCEPT ![a] = NoGrant]
    /\ UNCHANGED <<used, active, expired, holder, txVars>>

\* ... and writes Bytes and ExpiryDate, but no other column.
UpdateGrant(a, n) ==
    /\ fetched[a] # NoGrant
    /\ n >= fetched[a].bytes
    /\ RowFree(fetched[a].id)
    /\ bytes' = [bytes EXCEPT ![fetched[a].id] = n]
    /\ \E late \in BOOLEAN : expired' = [expired EXCEPT ![fetched[a].id] = late]
    /\ fetched' = [fetched EXCEPT ![a] = NoGrant]
    /\ UNCHANGED <<used, remaining, active, holder, txVars>>

\* Time passes.
Expire(g) ==
    /\ Exists(g)
    /\ ~expired[g]
    /\ expired' = [expired EXCEPT ![g] = TRUE]
    /\ UNCHANGED <<bytes, used, remaining, active, holder, fetched, txVars>>

-----------------------------------------------------------------------------
(* Consuming.                                                              *)

\* The transaction is over; its row locks are gone.
Finish(p) ==
    /\ pc' = [pc EXCEPT ![p] = "idle"]
    /\ call' = [call EXCEPT ![p] = "record"]
    /\ asked' = [asked EXCEPT ![p] = NoRequest]
    /\ copy' = [copy EXCEPT ![p] = Nothing]
    /\ chosen' = [chosen EXCEPT ![p] = {}]
    /\ left' = [left EXCEPT ![p] = 0]
    /\ draft' = [draft EXCEPT ![p] = Nothing]
    /\ holder' = [g \in Grants |-> IF holder[g] = p THEN Nobody ELSE holder[g]]

\* A call is about a number of bytes of one type.
Begin(p, c, n) ==
    /\ pc[p] = "idle"
    /\ pc' = [pc EXCEPT ![p] = "detail"]
    /\ call' = [call EXCEPT ![p] = c]
    /\ asked' = [asked EXCEPT ![p] = n]
    /\ UNCHANGED <<rowVars, holder, fetched, copy, chosen, left, draft>>

\* UserUsageDetail.validate: a detail has the ID of an upload.  The enforcers pass the
\* one they were called with, DeductAllowance none.
HasUploadID(c) == c = "record"

\* The usage detail is written first ...
WriteDetail(p) ==
    /\ pc[p] = "detail"
    /\ HasUploadID(call[p])
    /\ pc' = [pc EXCEPT ![p] = "select"]
    /\ UNCHANGED <<rowVars, holder, fetched, call, asked, copy, chosen, left, draft>>

\* ... or refused by its hook, BeforeCreate: the transaction is rolled back with an error.
RefuseDetail(p) ==
    /\ pc[p] = "detail"
    /\ ~HasUploadID(call[p])
    /\ Finish(p)
    /\ UNCHANGED <<rowVars, fetched>>

\* Mutant: no error of ConsumeFromGrants is added to the transaction.
ConsumeFailsSilently(p) ==
    /\ pc' = [pc EXCEPT ![p] = "commit"]
    /\ UNCHANGED <<holder, call, asked, copy, chosen, left, draft>>

\* RecordUsageAndConsume adds the error of ConsumeFromGrants to the transaction, which
\* rolls it back.
ConsumeFails(p) == Finish(p)

\* Mutant: grants that were deactivated are found too.
GrantsOfType(t) ==
    {g \in Grants : Exists(g) /\ ~expired[g] /\ TypeOf[g] = t}

\* The rows of GetActiveGrantsByTypeLocked.
ActiveGrants(t) ==
    {g \in Grants : Exists(g) /\ active[g] /\ ~expired[g] /\ TypeOf[g] = t}

\* Mutant: a plain SELECT.
ReadRows(p, rows) == UNCHANGED holder

\* clause.Locking{Strength: "UPDATE"}.
LockRows(p, rows) ==
    holder' = [g \in Grants |-> IF g \in rows THEN p ELSE holder[g]]

CalculateAvailableBytes(rows) == SumFunctionOnSet(remaining, rows)

\* ConsumeFromGrants: SELECT ... FOR UPDATE, and whether the rows are enough.
SelectGrants(p) ==
    LET rows == ActiveGrants(asked[p].type) IN
    /\ pc[p] = "select"
    /\ \A g \in rows : RowFree(g)
    /\ IF CalculateAvailableBytes(rows) < asked[p].bytes
       THEN ConsumeFails(p)
       ELSE /\ pc' = [pc EXCEPT ![p] = "consume"]
            /\ LockRows(p, rows)
            /\ copy' = [copy EXCEPT ![p] =
                           [g \in Grants |-> IF g \in rows THEN remaining[g] ELSE 0]]
            /\ chosen' = [chosen EXCEPT ![p] = rows]
            /\ left' = [left EXCEPT ![p] = asked[p].bytes]
            /\ UNCHANGED <<call, asked, draft>>
    /\ UNCHANGED <<rowVars, fetched>>

\* Mutant: a grant is always taken as a whole.
WholeGrant(p, g) == copy[p][g]

\* consumeAmount.
ConsumeAmount(p, g) == Least(left[p], copy[p][g])

\* The guarded UPDATE of the row g, and its consumption record.
TakeFrom(p, g) ==
    LET n == ConsumeAmount(p, g) IN
    /\ holder[g] \in {p, Nobody}
    /\ n <= remaining[g]
    /\ holder' = [holder EXCEPT ![g] = p]
    /\ draft' = [draft EXCEPT ![p][g] = n]
    /\ left' = [left EXCEPT ![p] = @ - n]
    /\ IF left[p] = n \/ chosen[p] = {g}
       THEN /\ pc' = [pc EXCEPT ![p] = "commit"]
            /\ chosen' = [chosen EXCEPT ![p] = {}]
            /\ copy' = [copy EXCEPT ![p] = Nothing]
       ELSE /\ chosen' = [chosen EXCEPT ![p] = @ \ {g}]
            /\ UNCHANGED <<pc, copy>>
    /\ UNCHANGED <<rowVars, fetched, call, asked>>

\* Mutant: in the order in which the rows are found.
TakeAny(p) ==
    /\ pc[p] = "consume"
    /\ \E g \in chosen[p] : TakeFrom(p, g)

\* One round of the loop, at a row of the highest priority left.  (A row that is
\* used up is skipped: it gives 0 bytes.)
TakeNext(p) ==
    /\ pc[p] = "consume"
    /\ \E g \in chosen[p] :
          /\ \A h \in chosen[p] : NoLater(g, h)
          /\ TakeFrom(p, g)

\* A statement fails, or the guarded UPDATE affects no row.
StatementFails(p) ==
    /\ \/ pc[p] = "detail" /\ Finish(p)
       \/ pc[p] \in {"select", "consume"} /\ ConsumeFails(p)
    /\ UNCHANGED <<rowVars, fetched>>

Commit(p) ==
    /\ pc[p] = "commit"
    /\ used' = [g \in Grants |-> used[g] + draft[p][g]]
    /\ remaining' = [g \in Grants |-> remaining[g] - draft[p][g]]
    /\ Finish(p)
    /\ UNCHANGED <<bytes, active, expired, fetched>>

\* The commit fails, the connection is lost, or the process dies.
Rollback(p) ==
    /\ pc[p] # "idle"
    /\ Finish(p)
    /\ UNCHANGED <<rowVars, fetched>>

CallStep(p) ==
    \/ \E c \in Calls, n \in Asks : Begin(p, c, n)
    \/ WriteDetail(p)
    \/ RefuseDetail(p)
    \/ SelectGrants(p)
    \/ TakeNext(p)
    \/ StatementFails(p)
    \/ Commit(p)
    \/ Rollback(p)

\* Requests to the routes of the admin API.
AdminRequest ==
    \/ \E n \in Offers : HandleCreateGrant(n)
    \/ \E g \in Grants : DeactivateGrant(g)
    \/ \E a \in Admins :
          \/ \E g \in Grants : FetchGrant(a, g)
          \/ RefuseUpdate(a)
          \/ \E n \in Amounts : UpdateGrant(a, n)

Next ==
    \/ \E p \in Procs : CallStep(p)
    \/ \E n \in Offers : AddAllowance(n)
    \/ AdminRequest
    \/ \E g \in Grants : Expire(g)

Spec == Init /\ [][Next]_vars

-----------------------------------------------------------------------------
(* Properties.                                                             *)

\* What p has taken so far from grants for t.
Taken(p, t) == SumFunctionOnSet(draft[p], {g \in Grants : TypeOf[g] = t})

\* However consumptions, deactivations, failures and expiry meet, a usage detail is
\* committed by RecordUsageAndConsume exactly with all the bytes it stands for, taken
\* from grants of its type.
RecordIsPaid ==
    \A p \in Procs, t \in GrantTypes :
        pc[p] = "commit" => Taken(p, t) = IF t = asked[p].type THEN asked[p].bytes ELSE 0

\* A row stays as it was read until the transaction is over: the guard of the
\* UPDATE, "concurrently modified", has nothing to catch.
RowsAsRead ==
    \A p \in Procs : pc[p] = "consume" =>
        \A g \in chosen[p] : copy[p][g] = remaining[g] /\ active[g]

\* No grant is promised twice or taken back: what is used and what all open
\* transactions take stays within the bytes of the row, while administrators
\* work on stale copies of it (handleUpdateGrant).
NeverOverdrawn ==
    \A g \in Grants :
        used[g] + SumFunctionOnSet([p \in Procs |-> draft[p][g]], Procs) <= bytes[g]

\* A grant is touched only when those of higher priority that were read are used up
\* (getSourcePriorityOrderClause).
PriorityOrder ==
    \A p \in Procs, g, h \in Grants :
        /\ draft[p][g] > 0
        /\ holder[h] = p
        /\ ~NoLater(g, h)
        => draft[p][h] = remaining[h]

\* Nothing is taken from a grant after DeactivateGrant has returned.
OnlyFromActive == [][\A g \in Grants : used'[g] > used[g] => active[g]]_vars

\* "bytes_remaining must equal bytes - bytes_used" (errors.go:30).  UpdateAllowanceGrant
\* does not see to it, and no run checks it.
RemainingIsCalculated ==
    \A g \in Grants : bytes[g] = used[g] + remaining[g]
===============================================================================
