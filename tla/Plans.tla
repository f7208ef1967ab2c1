-------------------------------- MODULE Plans --------------------------------
(***************************************************************************)
(* Quota plans and the users on them: creating, updating, deleting plans   *)
(* and choosing the default one, assigning users, the rows made for users  *)
(* who have none, and the events that tell another plugin that a user's    *)
(* limits have changed.  (What the limits then amount to is Limits'        *)
(* subject: here the terms of a plan are opaque.)                          *)
(*                                                                         *)
(* The database is MySQL: a transaction reads a snapshot taken by its      *)
(* first read, and a write waits for other writers of the row.  A          *)
(* transaction here is a step that takes the snapshot and a step that      *)
(* writes and commits; those with one statement, or whose reads do not     *)
(* matter to their writes, are one step.                                   *)
(*                                                                         *)
(*   update:   idle -> compare -> open -> save -> [sync] -> idle           *)
(*   delete:   idle -> delete -> idle                                      *)
(*   default:  idle -> commit -> sync -> idle                              *)
(*   assign:   idle -> assign -> idle                                      *)
(*   a row:    idle -> make -> idle                                        *)
(*   rows:     idle -> batch -> insert [-> each -> make ...] -> idle          *)
(*   other changes to a row:  idle -> fire -> idle                         *)
(***************************************************************************)
EXTENDS Integers, FiniteSets, FiniteSetsExt

CONSTANTS
    Procs,      \* goroutines
    Users,      \* in the order of their rows
    PlanIds,    \* auto-incremented
    Terms,      \* limits and window of a plan
    Pointers,   \* those terms in which a threshold or a window field is not nil
    Own,        \* limits of a user's own
    NoOwn,
    Batch,      \* userSyncBatchSize
    NoRow, NoPlan,
    Starts,     \* bound: what configs may be at first
    MaxCalls    \* bound on the number of calls

ASSUME PlansAssumption ==
    /\ Users \subseteq Nat \ {0}
    /\ PlanIds \subseteq Nat \ {0} /\ NoPlan = 0
    /\ IsFiniteSet(Users) /\ IsFiniteSet(PlanIds)
    /\ Pointers \subseteq Terms
    /\ NoOwn \in Own
    /\ Batch \in Nat \ {0}
    /\ MaxCalls \in Nat
    /\ 1 \in PlanIds

VARIABLES
    plans,      \* plans[id]: the row, or NoRow
    configs,    \* configs[u]: the row of user_quota_configs, or NoRow
    task,       \* task[p]: the call p is in
    told,       \* told[u]: the limits of u when the last event about u was handled
    silent,     \* ghost: users whose limits have changed since, in a way that is not announced
    exposed,    \* users put on a plan that was gone, or on its way out
    overtaken,  \* an update wrote is_default as it was before SetDefaultQuotaPlan
    calls

vars == <<plans, configs, task, told, silent, exposed, overtaken, calls>>

PlanRow == [isDefault : BOOLEAN, active : BOOLEAN, deleted : BOOLEAN, terms : Terms]
ConfigRow == [plan : PlanIds \cup {NoPlan}, own : Own]

ASSUME RowAssumption ==
    /\ NoRow \notin PlanRow \cup ConfigRow \cup PlanIds \cup {NoPlan}
    /\ Starts \subseteq [Users -> ConfigRow \cup {NoRow}]

Live(rows, id) == id \in PlanIds /\ rows[id] # NoRow /\ ~rows[id].deleted

\* GetDefaultQuotaPlan: the first live one.
Default(rows) ==
    LET found == {id \in PlanIds : Live(rows, id) /\ rows[id].isDefault}
    IN  IF found = {} THEN NoPlan ELSE Min(found)

\* The limits a row amounts to: ResolveEffectiveLimits.
Effective(rows, config) ==
    IF config = NoRow THEN <<"none">>
    ELSE LET id == IF config.plan # NoPlan THEN config.plan ELSE Default(rows)
         IN  IF Live(rows, id) /\ rows[id].active THEN <<rows[id].terms, config.own>> ELSE <<"error">>

Limited == {<<"none">>, <<"error">>} \cup (Terms \X Own)

Idle == [pc |-> "idle", plan |-> NoPlan, user |-> 0, row |-> NoRow, snap |-> <<>>,
         seen |-> NoRow, changed |-> FALSE, offset |-> 0, stirred |-> FALSE, users |-> {}]

Init ==
    /\ plans \in [PlanIds -> PlanRow \cup {NoRow}]
    /\ plans[1] # NoRow /\ plans[1].isDefault /\ plans[1].active /\ ~plans[1].deleted
    /\ \A id \in PlanIds \ {1} :
          plans[id] # NoRow => plans[id].active /\ ~plans[id].isDefault /\ ~plans[id].deleted
    /\ configs \in Starts
    /\ \A u \in Users :
          configs[u] # NoRow /\ configs[u].plan # NoPlan => plans[configs[u].plan] # NoRow
    /\ task = [p \in Procs |-> Idle]
    /\ told = [u \in Users |-> Effective(plans, configs[u])]
    /\ silent = {} /\ exposed = {}
    /\ overtaken = FALSE
    /\ calls = 0

TypeOK ==
    /\ plans \in [PlanIds -> PlanRow \cup {NoRow}]
    /\ configs \in [Users -> ConfigRow \cup {NoRow}]
    /\ told \in [Users -> Limited]
    /\ silent \subseteq Users /\ exposed \subseteq Users
    /\ overtaken \in BOOLEAN
    /\ calls \in 0..MaxCalls
    /\ \A p \in Procs :
          /\ DOMAIN task[p] = DOMAIN Idle
          /\ task[p].offset \in 0..(Cardinality(Users) + Batch)
          /\ task[p].pc \in {"idle", "compare", "open", "save", "sync", "delete", "commit",
                             "assign", "make", "batch", "insert", "each", "fire"}

-----------------------------------------------------------------------------
Ready(p) ==
    /\ task[p].pc = "idle"
    /\ calls < MaxCalls
    /\ calls' = calls + 1

Start(p, k) ==
    /\ Ready(p)
    /\ task' = [task EXCEPT ![p] = k]

Goto(p, k) == task' = [task EXCEPT ![p] = k] /\ UNCHANGED calls

\* Ghost: users whose limits this step changes; untold are those to whom it is known not
\* to be announced.
Changed == {u \in Users : Effective(plans', configs'[u]) # Effective(plans, configs[u])}

Quietly(untold) == silent' = silent \cup (untold \cap Changed)

Keep == UNCHANGED <<plans, configs, told, silent, exposed, overtaken>>

\* Mutant: the constraint is missing.
AnyDefaults(rows) == TRUE

\* uniq_default_active_one, which counts deleted rows too.
OneActiveDefault(rows) ==
    Cardinality({id \in PlanIds : rows[id] # NoRow /\ rows[id].isDefault /\ rows[id].active}) <= 1

Members(id) == {u \in Users : configs[u] # NoRow /\ configs[u].plan = id}

-----------------------------------------------------------------------------
(* Plans.                                                                  *)

\* The row as handleCreatePlan fills it in: no plan is made as the default.
NewPlan(terms, active) ==
    [isDefault |-> FALSE, active |-> active, deleted |-> FALSE, terms |-> terms]

\* Refused under the name of a live plan.  No event to users who were put on it before.
CreateQuotaPlan(p, id, terms, active) ==
    /\ plans[id] = NoRow
    /\ \A other \in PlanIds : other < id => plans[other] # NoRow
    /\ Start(p, Idle)
    /\ plans' = [plans EXCEPT ![id] = NewPlan(terms, active)]
    /\ UNCHANGED <<configs, told, exposed, overtaken>>
    /\ Quietly(Members(id))

\* What the request does not tell, handleUpdatePlan takes from the row ...
UpdatedPlan(row, terms, active) == [row EXCEPT !.terms = terms, !.active = active]

\* ... as it is now.
BeginUpdate(p, id, terms, active) ==
    /\ Live(plans, id)
    /\ Start(p, [Idle EXCEPT !.pc = "compare", !.plan = id,
                             !.row = UpdatedPlan(plans[id], terms, active)])
    /\ Keep

\* Mutant: the numbers of bytes are not compared.
PointersChanged(old, new) == new \in Pointers

\* Pointers are compared, not what they point to.
LimitsChanged(old, new) == old # new \/ new \in Pointers

\* The row is read again: is_default must be as in the request.
CompareUpdate(p) ==
    LET k == task[p]
        existing == plans[k.plan]
    IN  /\ k.pc = "compare"
        /\ Goto(p, IF Live(plans, k.plan) /\ existing.isDefault = k.row.isDefault
                   THEN [k EXCEPT !.pc = "open", !.seen = existing.terms,
                                  !.changed = LimitsChanged(existing.terms, k.row.terms)]
                   ELSE Idle)
        /\ Keep

\* And again, in the transaction.
OpenUpdate(p) ==
    LET k == task[p] IN
    /\ k.pc = "open"
    /\ Goto(p, IF Live(plans, k.plan)
               THEN [k EXCEPT !.pc = "save", !.row.isDefault = plans[k.plan].isDefault]
               ELSE Idle)
    /\ Keep

Synced(k) == IF k.changed THEN [k EXCEPT !.pc = "sync", !.row = NoRow, !.seen = NoRow] ELSE Idle

\* Ghost: who is not told of a save.  The users of the plan are not when it only turns the
\* plan on or off, or back on; nor when another call has changed the terms that k compared.
Untold(k) ==
    Members(NoPlan) \cup
        (IF ~k.changed /\ plans[k.plan].terms \in {k.row.terms} \cup (Terms \ {k.seen})
         THEN Members(k.plan)
         ELSE {})

\* The whole row is saved; if it has been deleted meanwhile, the upsert that follows
\* brings it back.
SaveUpdate(p) ==
    LET k == task[p]
        rows == [plans EXCEPT ![k.plan] = k.row]
    IN  /\ k.pc = "save"
        /\ UNCHANGED <<configs, told, exposed>>
        /\ IF OneActiveDefault(rows)
           THEN /\ plans' = rows
                /\ overtaken' = (overtaken \/ plans[k.plan].isDefault # k.row.isDefault)
                /\ Goto(p, Synced(k))
                /\ Quietly(Untold(k))
           ELSE Goto(p, Idle) /\ UNCHANGED <<plans, silent, overtaken>>

\* Mutant: the users are not counted.
CountNobody(p, id) ==
    /\ Live(plans, id)
    /\ Start(p, [Idle EXCEPT !.pc = "delete", !.plan = id])
    /\ Keep

\* The users are counted outside the transaction; BeforeDelete looks at an empty plan
\* and refuses nothing, not even the default.
CountUsers(p, id) ==
    /\ Live(plans, id)
    /\ Members(id) = {}
    /\ Start(p, [Idle EXCEPT !.pc = "delete", !.plan = id])
    /\ Keep

DeleteQuotaPlan(p) ==
    /\ task[p].pc = "delete"
    /\ plans' = [plans EXCEPT ![task[p].plan].deleted = TRUE]
    /\ Goto(p, Idle)
    /\ UNCHANGED <<configs, told, exposed, overtaken>>
    /\ Quietly(Members(task[p].plan) \cup Members(NoPlan))

\* SetDefaultQuotaPlan reads both rows from its snapshot ...
OpenDefault(p, id) ==
    /\ Live(plans, id)
    /\ plans[id].active
    /\ Start(p, [Idle EXCEPT !.pc = "commit", !.plan = id, !.snap = plans])
    /\ Keep

\* The default that is found first, deleted or not.
Outgoing(rows) ==
    LET found == {id \in PlanIds : rows[id] # NoRow /\ rows[id].isDefault}
    IN  IF found = {} THEN NoPlan ELSE Min(found)

\* The plans of which something else has changed since the rows to be written were read.
Stale(rows) ==
    {id \in PlanIds :
        plans[id] # NoRow /\ [rows[id] EXCEPT !.isDefault = plans[id].isDefault] # plans[id]}

\* ... and writes both as a whole: the default of the snapshot, which is no longer one,
\* and the new one.  The users of these plans are not told.
CommitDefault(p) ==
    LET k == task[p]
        old == Outgoing(k.snap)
        unset == IF old = NoPlan THEN plans
                 ELSE [plans EXCEPT ![old] = [k.snap[old] EXCEPT !.isDefault = FALSE]]
        rows == [unset EXCEPT ![k.plan] = [k.snap[k.plan] EXCEPT !.isDefault = TRUE]]
    IN  /\ k.pc = "commit"
        /\ UNCHANGED <<configs, told, exposed, overtaken>>
        /\ IF OneActiveDefault(rows)
           THEN /\ plans' = rows
                /\ Goto(p, [Idle EXCEPT !.pc = "sync"])
                /\ Quietly(UNION {Members(id) : id \in Stale(rows)})
           ELSE Goto(p, Idle) /\ UNCHANGED <<plans, silent>>

-----------------------------------------------------------------------------
(* Telling the users: syncUsersForPlan, and syncUsersWithoutPlan when plan *)
(* is NoPlan.                                                              *)

\* The users after the first offset ones, in the order of their rows.
Page(k) ==
    {u \in Members(k.plan) :
        LET before == Cardinality({v \in Members(k.plan) : v < u})
        IN  k.offset <= before /\ before < k.offset + Batch}

\* Mutant: an empty page is not the last one.
SyncPageEndless(p) ==
    LET k == task[p]
        page == Page(k)
    IN  /\ k.pc = "sync"
        /\ told' = [u \in Users |-> IF u \in page THEN Effective(plans, configs[u]) ELSE told[u]]
        /\ silent' = silent \ page
        /\ Goto(p, [k EXCEPT !.offset = @ + Batch])
        /\ UNCHANGED <<plans, configs, exposed, overtaken>>

\* When users come and go meanwhile, the offset may skip one of those who stay.
SyncPage(p) ==
    LET k == task[p]
        page == Page(k)
    IN  /\ k.pc = "sync"
        /\ told' = [u \in Users |-> IF u \in page THEN Effective(plans, configs[u]) ELSE told[u]]
        /\ silent' = (silent \ page) \cup (IF k.stirred THEN Members(k.plan) ELSE {})
        /\ Goto(p, IF Cardinality(page) < Batch THEN Idle ELSE [k EXCEPT !.offset = @ + Batch])
        /\ UNCHANGED <<plans, configs, exposed, overtaken>>

\* The query fails: the rest is not told.
SyncFails(p) ==
    /\ task[p].pc = "sync"
    /\ silent' = silent \cup Members(task[p].plan)
    /\ Goto(p, Idle)
    /\ UNCHANGED <<plans, configs, told, exposed, overtaken>>

-----------------------------------------------------------------------------
(* Users' rows.                                                            *)

\* k is about to delete the plan id, or to write it back from a snapshot in which the
\* default was deleted.
Leaving(k, id) ==
    \/ k.pc = "delete" /\ k.plan = id
    \/ k.pc = "commit" /\ Outgoing(k.snap) = id /\ k.snap[id].deleted

\* The rows become cfgs, in the course of p's call, which goes on at next.  Ghosts: the
\* users who change plans are not counted on by the syncs under way; they are exposed
\* if the plan is gone or on its way out.  No event tells those untold.
Write(p, cfgs, next, untold) ==
    LET PlanIn(c, u) == IF c[u] = NoRow THEN NoRow ELSE c[u].plan
        movers == {u \in Users : PlanIn(cfgs, u) # PlanIn(configs, u)}
        shaken == {PlanIn(configs, u) : u \in movers} \cup {PlanIn(cfgs, u) : u \in movers}
        gone == {id \in PlanIds : \E q \in Procs : ~Live(plans, id) \/ Leaving(task[q], id)}
        syncing == {task[q].plan : q \in {r \in Procs : task[r].pc = "sync"}}
        left == {u \in movers : PlanIn(configs, u) \in syncing}
    IN  /\ configs' = cfgs
        /\ task' = [q \in Procs |->
                        IF q = p THEN next
                        ELSE IF task[q].pc = "sync" /\ task[q].plan \in shaken
                             THEN [task[q] EXCEPT !.stirred = TRUE]
                        ELSE task[q]]
        /\ exposed' = (exposed \ movers) \cup {u \in movers : cfgs[u].plan \in gone}
        /\ UNCHANGED <<plans, told, overtaken>>
        /\ silent' = silent \cup (untold \cap (left \cup Changed))

Put(p, u, config, next, untold) == Write(p, [configs EXCEPT ![u] = config], next, untold)

RowOf(u) == IF configs[u] = NoRow THEN [plan |-> NoPlan, own |-> NoOwn] ELSE configs[u]

\* AssignUserToPlan: the plan is looked up first ...
VerifyPlan(p, u, id) ==
    /\ Live(plans, id)
    /\ Start(p, [Idle EXCEPT !.pc = "assign", !.plan = id, !.user = u])
    /\ Keep

\* ... and the row updated, or created, in a transaction.  No event.
AssignUserToPlan(p) ==
    LET k == task[p] IN
    /\ k.pc = "assign"
    /\ Put(p, k.user, [RowOf(k.user) EXCEPT !.plan = k.plan], Idle, {k.user})
    /\ UNCHANGED calls

\* No event either.
RemoveUserFromPlan(p, u) ==
    /\ configs[u] # NoRow
    /\ Ready(p)
    /\ Put(p, u, [configs[u] EXCEPT !.plan = NoPlan], Idle, {u})

Fire(u) == [Idle EXCEPT !.pc = "fire", !.user = u]

ResetUserQuotaPlan(p, u) ==
    /\ configs[u] # NoRow
    /\ Ready(p)
    /\ Put(p, u, [configs[u] EXCEPT !.plan = NoPlan], Fire(u), {})

\* The columns in the request; without a plan in it the row keeps its own.
Updated(config, id, own) ==
    [plan |-> IF id = NoPlan THEN config.plan ELSE id, own |-> own]

\* Whether there is such a plan is not looked at.
UpdateUserQuotaConfig(p, u, id, own) ==
    /\ Ready(p)
    /\ Put(p, u, Updated(RowOf(u), id, own), Fire(u), {})

\* The row that is found overwrites the configuration to be set, so that only a missing
\* row is written.
SetQuotaConfig(p, u, id, own) ==
    /\ Ready(p)
    /\ Put(p, u, IF configs[u] = NoRow THEN [plan |-> id, own |-> own] ELSE configs[u], Fire(u), {})

FireEvent(p) ==
    LET u == task[p].user IN
    /\ task[p].pc = "fire"
    /\ told' = [told EXCEPT ![u] = Effective(plans, configs[u])]
    /\ silent' = silent \ {u}
    /\ Goto(p, Idle)
    /\ UNCHANGED <<plans, configs, exposed, overtaken>>

\* ConfigManager.GetUserQuotaConfig: the default is read before the row.
ReadDefault(p, u) ==
    /\ configs[u] = NoRow
    /\ Start(p, [Idle EXCEPT !.pc = "make", !.plan = Default(plans), !.user = u, !.users = {u}])
    /\ Keep

\* The next user of a batch that fell back to one user at a time, or nothing more.
Onwards(k) ==
    LET rest == {u \in k.users : u > k.user}
    IN  IF rest = {} THEN Idle
        ELSE [Idle EXCEPT !.pc = "each", !.user = Min(rest), !.users = k.users]

MakeConfig(p) ==
    LET k == task[p] IN
    /\ k.pc = "make"
    /\ Put(p, k.user, IF configs[k.user] = NoRow THEN [plan |-> k.plan, own |-> NoOwn] ELSE configs[k.user],
           Onwards(k), {k.user})
    /\ UNCHANGED calls

\* ResolveEffectiveLimitsBatch: the users without a row, then the default ...
FindMissing(p) ==
    LET missing == {u \in Users : configs[u] = NoRow} IN
    /\ missing # {}
    /\ Start(p, [Idle EXCEPT !.pc = "batch", !.users = missing])
    /\ Keep

ReadBatchDefault(p) ==
    /\ task[p].pc = "batch"
    /\ Goto(p, [task[p] EXCEPT !.pc = "insert", !.plan = Default(plans)])
    /\ Keep

\* Mutant: nothing is done when the INSERT fails.
InsertBatchOrNot(p) ==
    LET k == task[p]
        all == \A u \in k.users : configs[u] = NoRow
    IN  /\ k.pc = "insert"
        /\ UNCHANGED calls
        /\ Write(p, IF all THEN [u \in Users |-> IF u \in k.users THEN [plan |-> k.plan, own |-> NoOwn]
                                                 ELSE configs[u]]
                    ELSE configs, Idle, k.users)

\* ... and one INSERT for all of them, which fails if one has a row by now.
InsertBatch(p) ==
    LET k == task[p]
        all == \A u \in k.users : configs[u] = NoRow
    IN  /\ k.pc = "insert"
        /\ UNCHANGED calls
        /\ IF all
           THEN Write(p, [u \in Users |-> IF u \in k.users THEN [plan |-> k.plan, own |-> NoOwn]
                                          ELSE configs[u]], Idle, k.users)
           ELSE Write(p, configs, Onwards(k), {})

ReadNextDefault(p) ==
    /\ task[p].pc = "each"
    /\ Goto(p, [task[p] EXCEPT !.pc = "make", !.plan = Default(plans)])
    /\ Keep

\* UsageManager.GetUserQuotaConfig: no plan.
MakeBareConfig(p, u) ==
    /\ configs[u] = NoRow
    /\ Ready(p)
    /\ Put(p, u, [plan |-> NoPlan, own |-> NoOwn], Idle, {u})

-----------------------------------------------------------------------------
Step(p) ==
    \/ CompareUpdate(p)
    \/ OpenUpdate(p)
    \/ SaveUpdate(p)
    \/ DeleteQuotaPlan(p)
    \/ CommitDefault(p)
    \/ SyncPage(p)
    \/ SyncFails(p)
    \/ AssignUserToPlan(p)
    \/ FireEvent(p)
    \/ MakeConfig(p)
    \/ ReadBatchDefault(p)
    \/ InsertBatch(p)
    \/ ReadNextDefault(p)

\* Requests to the routes of the admin API.
AdminRequest(p) ==
    \/ \E id \in PlanIds, t \in Terms, active \in BOOLEAN :
          CreateQuotaPlan(p, id, t, active) \/ BeginUpdate(p, id, t, active)
    \/ \E id \in PlanIds : CountUsers(p, id) \/ OpenDefault(p, id)
    \/ \E u \in Users : ResetUserQuotaPlan(p, u)
    \/ \E u \in Users, id \in PlanIds \cup {NoPlan}, own \in Own : UpdateUserQuotaConfig(p, u, id, own)

\* The service's methods that other plugins call.
ServiceCall(p) ==
    \/ \E u \in Users, id \in PlanIds : VerifyPlan(p, u, id)
    \/ \E u \in Users, id \in PlanIds, own \in Own : SetQuotaConfig(p, u, id, own)
    \/ \E u \in Users : RemoveUserFromPlan(p, u) \/ ReadDefault(p, u) \/ MakeBareConfig(p, u)
    \/ FindMissing(p)

\* The bound on the calls is reached.
Stop ==
    /\ calls = MaxCalls
    /\ \A p \in Procs : task[p].pc = "idle"
    /\ UNCHANGED vars

Next ==
    \/ \E p \in Procs : AdminRequest(p) \/ ServiceCall(p) \/ Step(p)
    \/ Stop

Spec == Init /\ [][Next]_vars

-----------------------------------------------------------------------------
(* Properties.                                                             *)

Defaults == {id \in PlanIds : plans[id] # NoRow /\ plans[id].isDefault}

(***************************************************************************)
(* Calls that make different plans the default leave one row marked as the *)
(* default: never two, and never none, as long as no update has written    *)
(* back a stale is_default and the default is active.  (The row may have   *)
(* been deleted since: nothing refuses that, and then there is no default. *)
(* The next call still finds the row, and unmarks it.)                     *)
(***************************************************************************)
OneDefault ==
    ~overtaken /\ (\A id \in Defaults : plans[id].active) => Cardinality(Defaults) = 1

(***************************************************************************)
(* A user's plan exists and is not deleted, unless the user was put on it  *)
(* when it was gone, or between the count of its users and its deletion,   *)
(* or before a change of the default wrote back that it was deleted.       *)
(***************************************************************************)
AssignedPlansStand ==
    \A u \in Users \ exposed :
        configs[u] # NoRow /\ configs[u].plan # NoPlan => Live(plans, configs[u].plan)

(***************************************************************************)
(* Once every announcement under way is out, the last event about a user   *)
(* was handled with the limits the user now has.  The exceptions are that  *)
(*   - the user is assigned to a plan or removed from it, or gets a row;   *)
(*   - a plan is created under users put on it, or is deleted;             *)
(*   - an update turns the plan on or off, or brings it back, without      *)
(*     other terms;                                                        *)
(*   - an update that found the terms as they should be writes them over   *)
(*     those of another call (see SavesAreAnnounced);                      *)
(*   - the terms of the default change, for those without a plan;          *)
(*   - SetDefaultQuotaPlan writes back a row as it was before another call;*)
(*   - a synchronisation fails, or the user leaves its plan, or others     *)
(*     come and go meanwhile (see PlanUsersAreTold).                       *)
(***************************************************************************)
ToldIsCurrent ==
    (\A p \in Procs : task[p].pc \notin {"sync", "fire"}) =>
        \A u \in Users \ silent : told[u] = Effective(plans, configs[u])

(***************************************************************************)
(* "Check if limit-affecting fields changed before syncing users"          *)
(* (quota.go:523): an update that ends without telling the users of the    *)
(* plan has not changed its terms.                                         *)
(***************************************************************************)
SavesAreAnnounced ==
    [][\A p \in Procs :
          LET id == task[p].plan
          IN  task[p].pc = "save" /\ task'[p].pc = "idle" => plans'[id].terms = plans[id].terms]_vars

(***************************************************************************)
(* syncUsersForPlan "fires QuotaPlanChanged asynchronously for all users   *)
(* assigned to the given plan" (quota.go:420): when it ends with its last  *)
(* page, there are no users of the plan left who have not been told, but   *)
(* for those who have come to it, or had changed, unannounced.             *)
(***************************************************************************)
PlanUsersAreTold ==
    [][\A p \in Procs :
          task[p].plan # NoPlan /\ SyncPage(p) /\ task'[p].pc = "idle" =>
              \A u \in Members(task[p].plan) \ silent :
                  \/ told'[u] = Effective(plans, configs[u])
                  \/ \E q \in Procs \ {p} : task[q].pc \in {"sync", "fire"}]_vars

(***************************************************************************)
(* When limits have been resolved for a user, alone or in a batch, the     *)
(* user has a row, whoever else was making one.                            *)
(***************************************************************************)
BatchCovers ==
    [][\A p \in Procs :
          task[p].users # {} /\ task'[p].pc = "idle" =>
              \A u \in task[p].users : configs'[u] # NoRow]_vars

-----------------------------------------------------------------------------
(* What the code says of itself and does not do: TLC refutes both; no run  *)
(* checks them.                                                            *)

(***************************************************************************)
(* "This ensures never more than one default" (quota.go:685, of the order  *)
(* in which SetDefaultQuotaPlan unsets the old one and sets the new one).  *)
(***************************************************************************)
NeverTwoDefaults == Cardinality(Defaults) <= 1

(***************************************************************************)
(* "plan %d has %d users assigned, cannot delete" (quota.go:597): nobody   *)
(* is on a plan when it is deleted.                                        *)
(***************************************************************************)
DeletedIsUnassigned ==
    [][\A p \in Procs :
          task[p].pc = "delete" /\ task'[p].pc = "idle" => Members(task[p].plan) = {}]_vars
==============================================================================
