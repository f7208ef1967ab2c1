------------------------------ MODULE PlansProofs -----------------------------
(***************************************************************************)
(* Proofs about quota plans and the users on them, for any number of       *)
(* goroutines, users and plans.                                            *)
(***************************************************************************)
EXTENDS Plans, FiniteSetTheorems, WellFoundedInduction, TLAPS

\* A set of numbers that is not empty has a least one, and Min is that.
LEMMA MinIsLeast ==
  ASSUME NEW S \in SUBSET Nat, S # {}
  PROVE  Min(S) \in S /\ \A x \in S : Min(S) <= x
<1>1. IsWellFoundedOn(OpToRel(<, Nat), Nat)
  BY Zenon, NatLessThanWellFounded
<1>2. PICK m \in S : \A y \in S : ~ (<<y, m>> \in OpToRel(<, Nat))
  BY Zenon, <1>1, WFMin
<1>3. \A y \in S : ~(y < m)
  BY <1>2 DEF OpToRel
<1>4. \A y \in S : m <= y
  BY <1>3
<1>5. QED
  BY <1>4 DEF Min

-----------------------------------------------------------------------------
(* The invariant.                                                          *)

Places == {"idle", "compare", "open", "save", "sync", "delete", "commit", "assign", "make",
           "batch", "insert", "each", "fire"}

Rows == [PlanIds -> PlanRow \cup {NoRow}]
Configs == [Users -> ConfigRow \cup {NoRow}]

Task == [pc : Places, plan : PlanIds \cup {NoPlan}, user : Users \cup {0},
         row : PlanRow \cup {NoRow}, snap : Rows \cup {<<>>}, seen : Terms \cup {NoRow},
         changed : BOOLEAN, offset : Nat, stirred : BOOLEAN, users : SUBSET Users]

\* What a call knows and has done, by the place it is at.
TaskFine(rows, cfgs, k) ==
    /\ k.offset <= Cardinality(Users) + Batch
    /\ k.pc \in {"compare", "open", "save"} =>
          k.plan \in PlanIds /\ rows[k.plan] # NoRow /\ k.row \in PlanRow /\ ~k.row.deleted
    /\ k.pc = "delete" => k.plan \in PlanIds /\ rows[k.plan] # NoRow
    /\ k.pc = "commit" =>
          /\ k.snap \in Rows /\ Live(k.snap, k.plan)
          /\ \A id \in PlanIds : k.snap[id] # NoRow => rows[id] # NoRow
    /\ k.pc \in {"assign", "make", "each", "fire"} => k.user \in Users
    /\ k.pc \notin {"make", "batch", "insert", "each"} => k.users = {}
    /\ k.pc \in {"batch", "insert"} => k.user = 0
    /\ k.pc \in {"make", "each"} =>
          /\ k.user \in k.users
          /\ \A v \in k.users : v < k.user => cfgs[v] # NoRow

Typed ==
    /\ plans \in Rows
    /\ configs \in Configs
    /\ told \in [Users -> Limited]
    /\ silent \subseteq Users /\ exposed \subseteq Users
    /\ overtaken \in BOOLEAN
    /\ calls \in 0..MaxCalls
    /\ task \in [Procs -> Task]

TasksFine == \A p \in Procs : TaskFine(plans, configs, task[p])

\* Users on a plan, exposed ones aside, are on one that is there to stay.
Standing ==
    \A u \in Users \ exposed :
        configs[u] # NoRow /\ configs[u].plan # NoPlan =>
            /\ Live(plans, configs[u].plan)
            /\ \A p \in Procs : ~Leaving(task[p], configs[u].plan)

\* The database holds one active default at most, and there is one that is marked.
DefaultThere ==
    /\ OneActiveDefault(plans)
    /\ ~overtaken => Defaults # {}

PlansInv == Typed /\ TasksFine /\ Standing /\ DefaultThere

-----------------------------------------------------------------------------
(* What the operators return.                                              *)

LEMMA DefaultIsPlan ==
  ASSUME NEW rows
  PROVE  Default(rows) \in PlanIds \cup {NoPlan}
<1> DEFINE found == {id \in PlanIds : Live(rows, id) /\ rows[id].isDefault}
<1>1. found \in SUBSET Nat
  BY PlansAssumption
<1>2. found # {} => Min(found) \in found
  BY <1>1, MinIsLeast
<1>3. QED
  BY <1>2 DEF Default

LEMMA OutgoingIsDefault ==
  ASSUME NEW rows
  PROVE  /\ Outgoing(rows) \in PlanIds \cup {NoPlan}
         /\ Outgoing(rows) # NoPlan => Outgoing(rows) \in PlanIds /\ rows[Outgoing(rows)] # NoRow
<1> DEFINE found == {id \in PlanIds : rows[id] # NoRow /\ rows[id].isDefault}
<1>1. found \in SUBSET Nat
  BY PlansAssumption
<1>2. found # {} => Min(found) \in found
  BY <1>1, MinIsLeast
<1>3. QED
  BY <1>2 DEF Outgoing

LEMMA EffectiveType ==
  ASSUME NEW rows \in Rows, NEW config \in ConfigRow \cup {NoRow}
  PROVE  Effective(rows, config) \in Limited
<1>1. CASE config = NoRow
  BY <1>1 DEF Effective, Limited
<1>2. CASE config # NoRow
  <2> DEFINE id == IF config.plan # NoPlan THEN config.plan ELSE Default(rows)
  <2>1. config.own \in Own
    BY <1>2 DEF ConfigRow
  <2>2. Live(rows, id) => rows[id].terms \in Terms
    BY DEF Live, Rows, PlanRow
  <2> HIDE DEF id
  <2>3. (IF Live(rows, id) /\ rows[id].active THEN <<rows[id].terms, config.own>> ELSE <<"error">>)
            \in Limited
    BY <2>1, <2>2 DEF Limited
  <2>4. QED
    BY <1>2, <2>3 DEF Effective, id
<1>3. QED
  BY <1>1, <1>2

\* A task stays fine while rows appear and none goes.
LEMMA FineStays ==
  ASSUME NEW rows \in Rows, NEW rows2 \in Rows, NEW cfgs \in Configs, NEW cfgs2 \in Configs,
         NEW k \in Task, TaskFine(rows, cfgs, k),
         \A id \in PlanIds : rows[id] # NoRow => rows2[id] # NoRow,
         \A u \in Users : cfgs[u] # NoRow => cfgs2[u] # NoRow
  PROVE  TaskFine(rows2, cfgs2, k)
<1>1. k.users \subseteq Users
  BY DEF Task
<1>2. QED
  BY <1>1 DEF TaskFine

LEMMA IdleFine ==
  /\ Idle \in Task
  /\ \A rows, cfgs : TaskFine(rows, cfgs, Idle)
  /\ \A u \in Users : /\ Fire(u) \in Task
                      /\ \A rows, cfgs : TaskFine(rows, cfgs, Fire(u))
<1>1. IsFiniteSet(Users) /\ Batch \in Nat
  BY PlansAssumption
<1>2. Cardinality(Users) \in Nat
  BY <1>1, FS_CardinalityType
<1>3. 0 \in Nat /\ 0 <= Cardinality(Users) + Batch
  BY <1>1, <1>2
<1>4. Idle \in Task
  BY DEF Idle, Task, Places
<1>5. \A u \in Users : Fire(u) \in Task
  BY DEF Fire, Idle, Task, Places
<1>6. \A rows, cfgs : TaskFine(rows, cfgs, Idle)
  BY <1>3 DEF Idle, TaskFine
<1>7. \A u \in Users : \A rows, cfgs : TaskFine(rows, cfgs, Fire(u))
  BY <1>3 DEF Idle, Fire, TaskFine
<1>8. QED
  BY <1>4, <1>5, <1>6, <1>7

LEMMA NoneLeaves ==
  ASSUME NEW k, k.pc # "delete", k.pc # "commit"
  PROVE  \A id : ~Leaving(k, id)
  BY DEF Leaving

-----------------------------------------------------------------------------
(* Steps that change tasks, and what users have been told.                 *)

LEMMA TaskStep ==
  ASSUME PlansInv, NEW p \in Procs, NEW k \in Task, TaskFine(plans, configs, k),
         task' = [task EXCEPT ![p] = k], calls' \in 0..MaxCalls,
         UNCHANGED <<plans, configs, exposed, overtaken>>,
         told' \in [Users -> Limited], silent' \subseteq Users,
         \A u \in Users \ exposed :
             configs[u] # NoRow /\ configs[u].plan # NoPlan => ~Leaving(k, configs[u].plan)
  PROVE  PlansInv'
<1>1. \A q \in Procs : task'[q] = IF q = p THEN k ELSE task[q]
  BY DEF PlansInv, Typed
<1>2. Typed'
  <2>1. task' \in [Procs -> Task]
    BY DEF PlansInv, Typed
  <2>2. UNCHANGED <<plans, configs, exposed, overtaken>>
    OBVIOUS
  <2>3. QED
    BY <2>1, <2>2 DEF PlansInv, Typed
<1>3. TasksFine'
  <2>1. \A q \in Procs : TaskFine(plans, configs, task'[q])
    BY <1>1 DEF PlansInv, TasksFine
  <2>2. QED
    BY <2>1 DEF TasksFine
<1>4. Standing'
  <2>1. SUFFICES ASSUME NEW u \in Users \ exposed, configs[u] # NoRow, configs[u].plan # NoPlan
                 PROVE  /\ Live(plans, configs[u].plan)
                        /\ \A q \in Procs : ~Leaving(task'[q], configs[u].plan)
    BY DEF Standing
  <2>2. Live(plans, configs[u].plan) /\ \A q \in Procs : ~Leaving(task[q], configs[u].plan)
    BY <2>1 DEF PlansInv, Standing
  <2>3. ~Leaving(k, configs[u].plan)
    BY <2>1
  <2>4. QED
    BY <1>1, <2>2, <2>3
<1>5. DefaultThere'
  BY DEF PlansInv, DefaultThere, OneActiveDefault, Defaults
<1>6. QED
  BY <1>2, <1>3, <1>4, <1>5 DEF PlansInv

LEMMA KeepStep ==
  ASSUME PlansInv, NEW p \in Procs, NEW k \in Task, TaskFine(plans, configs, k),
         Start(p, k) \/ Goto(p, k), Keep,
         \A u \in Users \ exposed :
             configs[u] # NoRow /\ configs[u].plan # NoPlan => ~Leaving(k, configs[u].plan)
  PROVE  PlansInv'
<1>1. task' = [task EXCEPT ![p] = k] /\ calls' \in 0..MaxCalls
  BY PlansAssumption DEF PlansInv, Typed, Start, Goto, Ready
<1>2. told \in [Users -> Limited] /\ silent \subseteq Users
  BY DEF PlansInv, Typed
<1>3. UNCHANGED <<plans, configs, exposed, overtaken>> /\ told' = told /\ silent' = silent
  BY DEF Keep
<1>4. QED
  BY <1>1, <1>2, <1>3, TaskStep

LEMMA UpdateSteps ==
  ASSUME PlansInv, NEW p \in Procs,
         \/ \E id \in PlanIds, terms \in Terms, active \in BOOLEAN : BeginUpdate(p, id, terms, active)
         \/ CompareUpdate(p)
         \/ OpenUpdate(p)
  PROVE  PlansInv'
<1> DEFINE k == task[p]
<1>1. k \in Task /\ TaskFine(plans, configs, k) /\ plans \in Rows
  BY DEF PlansInv, Typed, TasksFine
<1>2. ASSUME NEW id \in PlanIds, NEW terms \in Terms, NEW active \in BOOLEAN,
             BeginUpdate(p, id, terms, active)
      PROVE  PlansInv'
  <2> DEFINE row == UpdatedPlan(plans[id], terms, active)
             new == [Idle EXCEPT !.pc = "compare", !.plan = id, !.row = row]
  <2>1. Live(plans, id) /\ Start(p, new) /\ Keep
    BY <1>2 DEF BeginUpdate
  <2>2. plans[id] \in PlanRow /\ plans[id] # NoRow /\ ~plans[id].deleted
    BY <1>1, <2>1 DEF Rows, Live
  <2>3. row \in PlanRow /\ ~row.deleted
    BY <2>2 DEF PlanRow, UpdatedPlan
  <2> HIDE DEF row
  <2>4. new \in Task /\ TaskFine(plans, configs, new)
    <3>1. Idle \in Task /\ TaskFine(plans, configs, Idle)
      BY IdleFine
    <3>2. new \in Task
      BY <2>3, <3>1 DEF Task, Places
    <3>3. /\ new.pc = "compare" /\ new.plan = id /\ new.row = row
          /\ new.offset = Idle.offset /\ new.users = {}
      BY DEF Idle
    <3>4. QED
      BY <2>2, <2>3, <3>1, <3>2, <3>3 DEF TaskFine
  <2>5. new.pc = "compare"
    BY DEF Idle
  <2>6. QED
    BY <2>1, <2>4, <2>5, NoneLeaves, KeepStep
<1>3. CASE CompareUpdate(p)
  <2> DEFINE found == plans[k.plan].terms
             differ == LimitsChanged(found, k.row.terms)
             new == [k EXCEPT !.pc = "open", !.seen = found, !.changed = differ]
  <2>1. k.pc = "compare" /\ Keep /\ (Goto(p, new) \/ Goto(p, Idle))
    BY <1>3 DEF CompareUpdate
  <2>2. differ \in BOOLEAN /\ found \in Terms
    BY <1>1, <2>1 DEF LimitsChanged, TaskFine, Rows, PlanRow
  <2> HIDE DEF differ, found
  <2>3. new \in Task /\ new.pc = "open"
    BY <1>1, <2>2 DEF Task, Places
  <2>4. TaskFine(plans, configs, new)
    BY <1>1, <2>1, <2>3 DEF TaskFine, Task
  <2>5. Idle.pc = "idle"
    BY DEF Idle
  <2>6. QED
    BY <2>1, <2>3, <2>4, <2>5, IdleFine, NoneLeaves, KeepStep
<1>4. CASE OpenUpdate(p)
  <2> DEFINE new == [k EXCEPT !.pc = "save", !.row.isDefault = plans[k.plan].isDefault]
  <2>1. k.pc = "open" /\ Keep /\ (Goto(p, new) \/ Goto(p, Idle))
    BY <1>4 DEF OpenUpdate
  <2>2. k.plan \in PlanIds /\ plans[k.plan] \in PlanRow /\ plans[k.plan] # NoRow
        /\ k.row \in PlanRow /\ ~k.row.deleted
    BY <1>1, <2>1 DEF TaskFine, Rows
  <2>3. [k.row EXCEPT !.isDefault = plans[k.plan].isDefault] \in PlanRow
        /\ ~[k.row EXCEPT !.isDefault = plans[k.plan].isDefault].deleted
    BY <2>2 DEF PlanRow
  <2>4. new = [k EXCEPT !.pc = "save", !.row = [k.row EXCEPT !.isDefault = plans[k.plan].isDefault]]
    BY <1>1 DEF Task
  <2>5. new \in Task /\ new.pc = "save" /\ new.plan = k.plan
        /\ new.row = [k.row EXCEPT !.isDefault = plans[k.plan].isDefault]
        /\ new.offset = k.offset /\ new.users = k.users
    BY <1>1, <2>3, <2>4 DEF Task, Places
  <2> HIDE DEF new
  <2>6. TaskFine(plans, configs, new)
    BY <1>1, <2>1, <2>2, <2>3, <2>5 DEF TaskFine
  <2>7. Idle.pc = "idle"
    BY DEF Idle
  <2>8. QED
    BY <2>1, <2>5, <2>6, <2>7, IdleFine, NoneLeaves, KeepStep
<1>5. QED
  BY <1>2, <1>3, <1>4

\* The users are counted before a deletion goes on its way, and the default to be
\* replaced is read before the change does.
LEMMA LeavingSteps ==
  ASSUME PlansInv, NEW p \in Procs, NEW id \in PlanIds, CountUsers(p, id) \/ OpenDefault(p, id)
  PROVE  PlansInv'
<1>1. /\ plans \in Rows
      /\ Idle \in Task /\ TaskFine(plans, configs, Idle)
  BY IdleFine DEF PlansInv, Typed
<1>2. CASE CountUsers(p, id)
  <2> DEFINE new == [Idle EXCEPT !.pc = "delete", !.plan = id]
  <2>1. Live(plans, id) /\ Members(id) = {} /\ Start(p, new) /\ Keep
    BY <1>2 DEF CountUsers
  <2>2. new \in Task /\ new.pc = "delete" /\ new.plan = id /\ new.users = {}
        /\ new.offset = Idle.offset
    BY <1>1 DEF Task, Places, Idle
  <2> HIDE DEF new
  <2>3. TaskFine(plans, configs, new)
    BY <1>1, <2>1, <2>2 DEF TaskFine, Live
  <2>4. \A u \in Users : configs[u] # NoRow => ~Leaving(new, configs[u].plan)
    BY <2>1, <2>2 DEF Leaving, Members
  <2>5. QED
    BY <2>1, <2>2, <2>3, <2>4, KeepStep
<1>3. CASE OpenDefault(p, id)
  <2> DEFINE new == [Idle EXCEPT !.pc = "commit", !.plan = id, !.snap = plans]
  <2>1. Live(plans, id) /\ Start(p, new) /\ Keep
    BY <1>3 DEF OpenDefault
  <2>2. new \in Task /\ new.pc = "commit" /\ new.plan = id /\ new.users = {}
        /\ new.offset = Idle.offset /\ new.snap = plans
    BY <1>1 DEF Task, Places, Idle
  <2> HIDE DEF new
  <2>3. TaskFine(plans, configs, new)
    BY <1>1, <2>1, <2>2 DEF TaskFine
  <2>4. \A u \in Users \ exposed :
            configs[u] # NoRow /\ configs[u].plan # NoPlan => ~Leaving(new, configs[u].plan)
    BY <2>2 DEF Leaving, PlansInv, Standing, Live
  <2>5. QED
    BY <2>1, <2>2, <2>3, <2>4, KeepStep
<1>4. QED
  BY <1>2, <1>3

\* A call that is about to touch a user's row.
LEMMA RowSteps ==
  ASSUME PlansInv, NEW p \in Procs,
         \/ \E u \in Users, id \in PlanIds : VerifyPlan(p, u, id)
         \/ \E u \in Users : ReadDefault(p, u)
         \/ FindMissing(p)
         \/ ReadBatchDefault(p)
         \/ ReadNextDefault(p)
  PROVE  PlansInv'
<1> DEFINE k == task[p]
<1>1. /\ k \in Task /\ TaskFine(plans, configs, k)
      /\ Idle \in Task /\ TaskFine(plans, configs, Idle)
      /\ Default(plans) \in PlanIds \cup {NoPlan}
  BY IdleFine, DefaultIsPlan DEF PlansInv, Typed, TasksFine
<1>2. ASSUME NEW u \in Users, NEW id \in PlanIds, VerifyPlan(p, u, id) PROVE PlansInv'
  <2> DEFINE new == [Idle EXCEPT !.pc = "assign", !.plan = id, !.user = u]
  <2>1. Start(p, new) /\ Keep
    BY <1>2 DEF VerifyPlan
  <2>2. new \in Task /\ new.pc = "assign" /\ new.user = u /\ new.users = {}
        /\ new.offset = Idle.offset
    BY <1>1 DEF Task, Places, Idle
  <2> HIDE DEF new
  <2>3. TaskFine(plans, configs, new)
    BY <1>1, <2>2 DEF TaskFine
  <2>4. QED
    BY <2>1, <2>2, <2>3, NoneLeaves, KeepStep
<1>3. ASSUME NEW u \in Users, ReadDefault(p, u) PROVE PlansInv'
  <2> DEFINE new == [Idle EXCEPT !.pc = "make", !.plan = Default(plans), !.user = u, !.users = {u}]
  <2>1. Start(p, new) /\ Keep
    BY <1>3 DEF ReadDefault
  <2>2. new \in Task /\ new.pc = "make" /\ new.user = u /\ new.users = {u}
        /\ new.offset = Idle.offset
    BY <1>1, ZenonT(60) DEF Task, Places, Idle
  <2> HIDE DEF new
  <2>3. TaskFine(plans, configs, new)
    BY <1>1, <2>2, PlansAssumption DEF TaskFine
  <2>4. QED
    BY <2>1, <2>2, <2>3, NoneLeaves, KeepStep
<1>4. CASE FindMissing(p)
  <2> DEFINE missing == {u \in Users : configs[u] = NoRow}
             new == [Idle EXCEPT !.pc = "batch", !.users = missing]
  <2>1. Start(p, new) /\ Keep
    BY <1>4 DEF FindMissing
  <2>2. new \in Task /\ new.pc = "batch" /\ new.user = 0 /\ new.offset = Idle.offset
    BY <1>1 DEF Task, Places, Idle
  <2> HIDE DEF new
  <2>3. TaskFine(plans, configs, new)
    BY <1>1, <2>2 DEF TaskFine
  <2>4. QED
    BY <2>1, <2>2, <2>3, NoneLeaves, KeepStep
<1>5. CASE ReadBatchDefault(p)
  <2> DEFINE new == [k EXCEPT !.pc = "insert", !.plan = Default(plans)]
  <2>1. k.pc = "batch" /\ Goto(p, new) /\ Keep
    BY <1>5 DEF ReadBatchDefault
  <2>2. new \in Task /\ new.pc = "insert" /\ new.user = k.user /\ new.offset = k.offset
    BY <1>1 DEF Task, Places
  <2> HIDE DEF new
  <2>3. TaskFine(plans, configs, new)
    BY <1>1, <2>1, <2>2 DEF TaskFine
  <2>4. QED
    BY <2>1, <2>2, <2>3, NoneLeaves, KeepStep
<1>6. CASE ReadNextDefault(p)
  <2> DEFINE new == [k EXCEPT !.pc = "make", !.plan = Default(plans)]
  <2>1. k.pc = "each" /\ Goto(p, new) /\ Keep
    BY <1>6 DEF ReadNextDefault
  <2>2. new \in Task /\ new.pc = "make" /\ new.user = k.user /\ new.offset = k.offset
        /\ new.users = k.users
    BY <1>1 DEF Task, Places
  <2> HIDE DEF new
  <2>3. TaskFine(plans, configs, new)
    BY <1>1, <2>1, <2>2 DEF TaskFine
  <2>4. QED
    BY <2>1, <2>2, <2>3, NoneLeaves, KeepStep
<1>7. QED
  BY <1>2, <1>3, <1>4, <1>5, <1>6

\* A page of users is no longer than the users from the offset on: the offset stays
\* within their number.
LEMMA PageHasUsers ==
  ASSUME NEW k \in Task, Cardinality(Page(k)) >= Batch
  PROVE  k.offset <= Cardinality(Users)
<1>1. IsFiniteSet(Users) /\ Batch \in Nat \ {0}
  BY PlansAssumption
<1>2. Page(k) # {}
  <2>1. CASE Page(k) = {}
    BY <1>1, <2>1, FS_EmptySet
  <2>2. QED
    BY <2>1
<1>3. PICK u \in Page(k) : TRUE
  BY <1>2
<1> DEFINE others == {v \in Members(k.plan) : v < u}
<1>4. k.offset <= Cardinality(others)
  BY <1>3 DEF Page
<1>5. others \in SUBSET Users
  BY DEF Members
<1>6. /\ IsFiniteSet(others) /\ Cardinality(others) <= Cardinality(Users)
      /\ Cardinality(others) \in Nat /\ Cardinality(Users) \in Nat
  BY <1>1, <1>5, FS_Subset, FS_CardinalityType
<1>7. k.offset \in Nat
  BY DEF Task
<1>8. QED
  BY <1>4, <1>6, <1>7

LEMMA ToldSteps ==
  ASSUME PlansInv, NEW p \in Procs, SyncPage(p) \/ SyncFails(p) \/ FireEvent(p)
  PROVE  PlansInv'
<1> DEFINE k == task[p]
<1>1. /\ k \in Task /\ TaskFine(plans, configs, k)
      /\ Idle \in Task /\ TaskFine(plans, configs, Idle) /\ Idle.pc = "idle"
      /\ told \in [Users -> Limited] /\ silent \subseteq Users /\ calls \in 0..MaxCalls
  BY IdleFine DEF PlansInv, Typed, TasksFine, Idle
<1>2. \A u \in Users : Effective(plans, configs[u]) \in Limited
  BY EffectiveType DEF PlansInv, Typed, Configs
<1>3. CASE SyncPage(p)
  <2> DEFINE page == Page(k)
             new == [k EXCEPT !.offset = @ + Batch]
  <2>1. /\ k.pc = "sync"
        /\ told' = [u \in Users |-> IF u \in page THEN Effective(plans, configs[u]) ELSE told[u]]
        /\ silent' = (silent \ page) \cup (IF k.stirred THEN Members(k.plan) ELSE {})
        /\ Goto(p, IF Cardinality(page) < Batch THEN Idle ELSE new)
        /\ UNCHANGED <<plans, configs, exposed, overtaken>>
    BY <1>3 DEF SyncPage
  <2>2. told' \in [Users -> Limited] /\ silent' \subseteq Users
    BY <1>1, <1>2, <2>1 DEF Members
  <2>3. CASE Cardinality(page) < Batch
    BY <1>1, <2>1, <2>2, <2>3, NoneLeaves, TaskStep DEF Goto
  <2>4. CASE ~(Cardinality(page) < Batch)
    <3>1. IsFiniteSet(Users) /\ Batch \in Nat \ {0}
      BY PlansAssumption
    <3>2. page \in SUBSET Users
      BY DEF Page, Members
    <3>3. Cardinality(page) \in Nat /\ Cardinality(Users) \in Nat
      BY <3>1, <3>2, FS_Subset, FS_CardinalityType
    <3>4. k.offset <= Cardinality(Users)
      BY <1>1, <2>4, <3>1, <3>3, PageHasUsers
    <3>5. k.offset \in Nat
      BY <1>1 DEF Task
    <3>6. new \in Task /\ new.pc = k.pc /\ new.offset = k.offset + Batch /\ new.users = k.users
      BY <1>1, <3>1, <3>5 DEF Task
    <3>7. new.offset <= Cardinality(Users) + Batch
      BY <3>1, <3>3, <3>4, <3>5, <3>6
    <3> HIDE DEF new, page, k
    <3>8. TaskFine(plans, configs, new)
      BY <1>1, <2>1, <3>6, <3>7 DEF TaskFine
    <3>9. task' = [task EXCEPT ![p] = new] /\ UNCHANGED calls
      BY <2>1, <2>4 DEF Goto
    <3>10. QED
      BY <1>1, <2>1, <2>2, <3>6, <3>8, <3>9, NoneLeaves, TaskStep
  <2>5. QED
    BY <2>3, <2>4
<1>4. CASE SyncFails(p)
  <2>1. silent' \subseteq Users /\ told' = told
    BY <1>1, <1>4 DEF SyncFails, Members
  <2>2. task' = [task EXCEPT ![p] = Idle] /\ UNCHANGED calls
        /\ UNCHANGED <<plans, configs, exposed, overtaken>>
    BY <1>4 DEF SyncFails, Goto
  <2>3. QED
    BY <1>1, <2>1, <2>2, NoneLeaves, TaskStep
<1>5. CASE FireEvent(p)
  <2>1. task[p].user \in Users
    BY <1>1, <1>5 DEF FireEvent, TaskFine
  <2>2. told' \in [Users -> Limited] /\ silent' \subseteq Users
    BY <1>1, <1>2, <1>5, <2>1 DEF FireEvent
  <2>3. task' = [task EXCEPT ![p] = Idle] /\ UNCHANGED calls
        /\ UNCHANGED <<plans, configs, exposed, overtaken>>
    BY <1>5 DEF FireEvent, Goto
  <2>4. QED
    BY <1>1, <2>2, <2>3, NoneLeaves, TaskStep
<1>6. QED
  BY <1>3, <1>4, <1>5

-----------------------------------------------------------------------------
(* Steps that change plans.                                                *)

LEMMA PlansStep ==
  ASSUME PlansInv, NEW p \in Procs, NEW k \in Task, TaskFine(plans, configs, k),
         k.pc # "delete", k.pc # "commit",
         task' = [task EXCEPT ![p] = k], calls' \in 0..MaxCalls,
         UNCHANGED <<configs, told, exposed>>, silent' \subseteq Users, overtaken' \in BOOLEAN,
         plans' \in Rows,
         \A id \in PlanIds : plans[id] # NoRow => plans'[id] # NoRow,
         \A id \in PlanIds :
             Live(plans, id) /\ (\A q \in Procs : ~Leaving(task[q], id)) => Live(plans', id),
         DefaultThere'
  PROVE  PlansInv'
<1>1. \A q \in Procs : task'[q] = IF q = p THEN k ELSE task[q]
  BY DEF PlansInv, Typed
<1>2. Typed'
  <2>1. task' \in [Procs -> Task]
    BY DEF PlansInv, Typed
  <2>2. QED
    BY <2>1 DEF PlansInv, Typed
<1>3. TasksFine'
  <2>1. SUFFICES ASSUME NEW q \in Procs PROVE TaskFine(plans', configs, task'[q])
    BY DEF TasksFine
  <2>2. task'[q] \in Task /\ TaskFine(plans, configs, task'[q])
    BY <1>1 DEF PlansInv, Typed, TasksFine
  <2>3. plans \in Rows /\ configs \in Configs
    BY DEF PlansInv, Typed
  <2>4. QED
    BY <2>2, <2>3, FineStays
<1>4. Standing'
  <2>1. SUFFICES ASSUME NEW u \in Users \ exposed, configs[u] # NoRow, configs[u].plan # NoPlan
                 PROVE  /\ Live(plans', configs[u].plan)
                        /\ \A q \in Procs : ~Leaving(task'[q], configs[u].plan)
    BY DEF Standing
  <2>2. Live(plans, configs[u].plan) /\ \A q \in Procs : ~Leaving(task[q], configs[u].plan)
    BY <2>1 DEF PlansInv, Standing
  <2>3. configs[u].plan \in PlanIds
    BY <2>2 DEF Live
  <2>4. Live(plans', configs[u].plan)
    BY <2>2, <2>3
  <2>5. QED
    BY <1>1, <2>2, <2>4, NoneLeaves
<1>5. QED
  BY <1>2, <1>3, <1>4 DEF PlansInv

LEMMA CreateStep ==
  ASSUME PlansInv, NEW p \in Procs, NEW id \in PlanIds, NEW terms \in Terms, NEW active \in BOOLEAN,
         CreateQuotaPlan(p, id, terms, active)
  PROVE  PlansInv'
<1> DEFINE new == NewPlan(terms, active)
<1>1. /\ plans[id] = NoRow /\ plans \in Rows
      /\ task' = [task EXCEPT ![p] = Idle] /\ calls' \in 0..MaxCalls
      /\ plans' = [plans EXCEPT ![id] = new]
      /\ UNCHANGED <<configs, told, exposed, overtaken>>
  BY PlansAssumption DEF PlansInv, Typed, CreateQuotaPlan, Start, Ready
<1>2. new \in PlanRow /\ new # NoRow /\ ~new.isDefault
  <2>1. new \in PlanRow /\ new.isDefault = FALSE
    BY DEF NewPlan, PlanRow
  <2>2. QED
    BY <2>1, RowAssumption
<1>3. silent' \subseteq Users /\ overtaken' \in BOOLEAN
  BY <1>1 DEF CreateQuotaPlan, Quietly, Changed, PlansInv, Typed
<1> HIDE DEF new
<1>4. plans' \in Rows
  BY <1>1, <1>2 DEF Rows
<1>5. \A other \in PlanIds :
          /\ plans[other] # NoRow => plans'[other] = plans[other]
          /\ plans[other] = NoRow /\ plans'[other] # NoRow => ~plans'[other].isDefault
  BY <1>1, <1>2 DEF Rows
<1>6. \A other \in PlanIds : Live(plans, other) => Live(plans', other)
  BY <1>5 DEF Live
<1>7. DefaultThere'
  <2>1. {other \in PlanIds : plans'[other] # NoRow /\ plans'[other].isDefault /\ plans'[other].active}
        = {other \in PlanIds : plans[other] # NoRow /\ plans[other].isDefault /\ plans[other].active}
    BY <1>5
  <2>2. Defaults' = Defaults
    BY <1>5 DEF Defaults
  <2>3. QED
    BY <1>1, <2>1, <2>2 DEF PlansInv, DefaultThere, OneActiveDefault
<1>8. /\ Idle \in Task /\ TaskFine(plans, configs, Idle)
      /\ Idle.pc # "delete" /\ Idle.pc # "commit"
  BY IdleFine DEF Idle
<1>9. QED
  BY <1>1, <1>3, <1>4, <1>5, <1>6, <1>7, <1>8, PlansStep

\* A whole row is written, which is not deleted: a user's plan stays, or comes back.
LEMMA SaveStep ==
  ASSUME PlansInv, NEW p \in Procs, SaveUpdate(p)
  PROVE  PlansInv'
<1> DEFINE k == task[p]
           rows == [plans EXCEPT ![k.plan] = k.row]
<1>1. /\ k \in Task /\ TaskFine(plans, configs, k) /\ plans \in Rows /\ k.pc = "save"
      /\ told \in [Users -> Limited] /\ silent \subseteq Users /\ calls \in 0..MaxCalls
      /\ overtaken \in BOOLEAN
  BY DEF PlansInv, Typed, TasksFine, SaveUpdate
<1>2. k.plan \in PlanIds /\ plans[k.plan] # NoRow /\ k.row \in PlanRow /\ ~k.row.deleted
  BY <1>1 DEF TaskFine
<1>3. k.row # NoRow
  BY <1>2, RowAssumption
<1>4. /\ Idle \in Task /\ TaskFine(plans, configs, Idle)
      /\ Idle.pc # "delete" /\ Idle.pc # "commit"
  BY IdleFine DEF Idle
<1>5. /\ Synced(k) \in Task /\ TaskFine(plans, configs, Synced(k))
      /\ Synced(k).pc # "delete" /\ Synced(k).pc # "commit"
  <2> DEFINE new == [k EXCEPT !.pc = "sync", !.row = NoRow, !.seen = NoRow]
  <2>1. new \in Task /\ new.pc = "sync" /\ new.users = k.users /\ new.offset = k.offset
    BY <1>1 DEF Task, Places
  <2> HIDE DEF new
  <2>2. TaskFine(plans, configs, new)
    BY <1>1, <2>1 DEF TaskFine
  <2>3. CASE k.changed
    BY <2>1, <2>2, <2>3 DEF Synced, new
  <2>4. CASE ~k.changed
    BY <1>4, <2>4 DEF Synced
  <2>5. QED
    BY <2>3, <2>4
<1>6. CASE OneActiveDefault(rows)
  <2>1. /\ plans' = rows
        /\ overtaken' = (overtaken \/ plans[k.plan].isDefault # k.row.isDefault)
        /\ task' = [task EXCEPT ![p] = Synced(k)] /\ UNCHANGED calls
        /\ UNCHANGED <<configs, told, exposed>>
    BY <1>6 DEF SaveUpdate, Goto
  <2>2. silent' \subseteq Users
    BY <1>1, <1>6 DEF SaveUpdate, Quietly, Changed
  <2>3. overtaken' \in BOOLEAN
    BY <2>1
  <2>4. plans' \in Rows
    BY <1>1, <1>2, <2>1 DEF Rows
  <2>5. \A id \in PlanIds : plans'[id] = IF id = k.plan THEN k.row ELSE plans[id]
    BY <1>1, <2>1 DEF Rows
  <2>6. \A id \in PlanIds : plans[id] # NoRow => plans'[id] # NoRow
    BY <1>3, <2>5
  <2>7. \A id \in PlanIds : Live(plans, id) => Live(plans', id)
    BY <1>2, <1>3, <2>5 DEF Live
  <2>8. ~overtaken' => Defaults' = Defaults
    <3>1. SUFFICES ASSUME ~overtaken' PROVE Defaults' = Defaults
      OBVIOUS
    <3>2. plans[k.plan].isDefault = k.row.isDefault
      BY <2>1, <3>1
    <3>3. \A id \in PlanIds :
              (plans'[id] # NoRow /\ plans'[id].isDefault) <=> (plans[id] # NoRow /\ plans[id].isDefault)
      BY <1>2, <1>3, <2>5, <3>2
    <3>4. QED
      BY <3>3 DEF Defaults
  <2>9. DefaultThere'
    BY <1>6, <2>1, <2>8 DEF PlansInv, DefaultThere
  <2>10. QED
    BY <1>1, <1>5, <2>1, <2>2, <2>3, <2>4, <2>6, <2>7, <2>9, PlansStep
<1>7. CASE ~OneActiveDefault(rows)
  <2>1. /\ task' = [task EXCEPT ![p] = Idle] /\ UNCHANGED calls
        /\ UNCHANGED <<plans, configs, told, silent, exposed, overtaken>>
    BY <1>7 DEF SaveUpdate, Goto
  <2>2. QED
    BY <1>1, <1>4, <2>1, NoneLeaves, TaskStep
<1>8. QED
  BY <1>6, <1>7

\* Nobody is on the plan that goes, as long as the plan has been on its way out.
LEMMA DeleteStep ==
  ASSUME PlansInv, NEW p \in Procs, DeleteQuotaPlan(p)
  PROVE  PlansInv'
<1> DEFINE k == task[p]
<1>1. /\ k \in Task /\ TaskFine(plans, configs, k) /\ plans \in Rows /\ k.pc = "delete"
      /\ calls \in 0..MaxCalls /\ overtaken \in BOOLEAN
  BY DEF PlansInv, Typed, TasksFine, DeleteQuotaPlan
<1>2. k.plan \in PlanIds /\ plans[k.plan] \in PlanRow /\ plans[k.plan] # NoRow
  BY <1>1 DEF TaskFine, Rows
<1> DEFINE gone == [plans[k.plan] EXCEPT !.deleted = TRUE]
<1>3. gone \in PlanRow /\ gone # NoRow /\ gone.isDefault = plans[k.plan].isDefault
      /\ gone.active = plans[k.plan].active
  BY <1>2, RowAssumption DEF PlanRow
<1>4. /\ plans' = [plans EXCEPT ![k.plan] = gone]
      /\ task' = [task EXCEPT ![p] = Idle] /\ UNCHANGED calls
      /\ UNCHANGED <<configs, told, exposed, overtaken>>
  BY DEF DeleteQuotaPlan, Goto
<1>5. silent' \subseteq Users
  BY DEF DeleteQuotaPlan, Quietly, Changed, PlansInv, Typed
<1> HIDE DEF gone
<1>6. plans' \in Rows /\ \A id \in PlanIds : plans'[id] = IF id = k.plan THEN gone ELSE plans[id]
  BY <1>1, <1>2, <1>3, <1>4 DEF Rows
<1>7. \A id \in PlanIds : plans[id] # NoRow => plans'[id] # NoRow
  BY <1>3, <1>6
<1>8. \A id \in PlanIds :
          Live(plans, id) /\ (\A q \in Procs : ~Leaving(task[q], id)) => Live(plans', id)
  <2>1. Leaving(task[p], k.plan)
    BY <1>1 DEF Leaving
  <2>2. QED
    BY <1>6, <2>1 DEF Live
<1>9. DefaultThere'
  <2>1. \A id \in PlanIds :
            /\ plans'[id] # NoRow <=> plans[id] # NoRow
            /\ plans'[id].isDefault = plans[id].isDefault /\ plans'[id].active = plans[id].active
    BY <1>2, <1>3, <1>6
  <2>2. {id \in PlanIds : plans'[id] # NoRow /\ plans'[id].isDefault /\ plans'[id].active}
        = {id \in PlanIds : plans[id] # NoRow /\ plans[id].isDefault /\ plans[id].active}
    BY <2>1
  <2>3. Defaults' = Defaults
    BY <2>1 DEF Defaults
  <2>4. QED
    BY <1>4, <2>2, <2>3 DEF PlansInv, DefaultThere, OneActiveDefault
<1>10. /\ Idle \in Task /\ TaskFine(plans, configs, Idle)
       /\ Idle.pc # "delete" /\ Idle.pc # "commit"
  BY IdleFine DEF Idle
<1>11. QED
  BY <1>1, <1>4, <1>5, <1>6, <1>7, <1>8, <1>9, <1>10, PlansStep

LEMMA CommitStep ==
  ASSUME PlansInv, NEW p \in Procs, CommitDefault(p)
  PROVE  PlansInv'
<1> DEFINE k == task[p]
           old == Outgoing(k.snap)
           leaver == [k.snap[old] EXCEPT !.isDefault = FALSE]
           comer == [k.snap[k.plan] EXCEPT !.isDefault = TRUE]
           unset == IF old = NoPlan THEN plans ELSE [plans EXCEPT ![old] = leaver]
           rows == [unset EXCEPT ![k.plan] = comer]
<1>1. /\ k \in Task /\ TaskFine(plans, configs, k) /\ plans \in Rows /\ k.pc = "commit"
      /\ told \in [Users -> Limited] /\ silent \subseteq Users /\ calls \in 0..MaxCalls
      /\ overtaken \in BOOLEAN
  BY DEF PlansInv, Typed, TasksFine, CommitDefault
<1>2. k.snap \in Rows /\ Live(k.snap, k.plan)
  BY <1>1 DEF TaskFine
<1>3. comer \in PlanRow /\ comer # NoRow /\ comer.isDefault /\ ~comer.deleted /\ k.plan \in PlanIds
  <2>1. k.plan \in PlanIds /\ k.snap[k.plan] \in PlanRow /\ ~k.snap[k.plan].deleted
    BY <1>2 DEF Rows, Live
  <2>2. QED
    BY <2>1, RowAssumption DEF PlanRow
<1>4. old # NoPlan =>
         /\ old \in PlanIds /\ leaver \in PlanRow /\ leaver # NoRow
         /\ leaver.deleted = k.snap[old].deleted
  <2>1. SUFFICES ASSUME old # NoPlan
                 PROVE  /\ old \in PlanIds /\ leaver \in PlanRow /\ leaver # NoRow
                        /\ leaver.deleted = k.snap[old].deleted
    OBVIOUS
  <2>2. old \in PlanIds /\ k.snap[old] # NoRow
    BY <2>1, OutgoingIsDefault
  <2>3. k.snap[old] \in PlanRow
    BY <1>2, <2>2 DEF Rows
  <2>4. QED
    BY <2>2, <2>3, RowAssumption DEF PlanRow
<1> HIDE DEF old, leaver, comer
<1>5. rows \in Rows /\ \A id \in PlanIds :
          rows[id] = IF id = k.plan THEN comer ELSE IF id = old THEN leaver ELSE plans[id]
  <2>1. CASE old = NoPlan
    <3>1. old \notin PlanIds
      BY <2>1, PlansAssumption
    <3>2. QED
      BY <1>1, <1>3, <2>1, <3>1 DEF Rows
  <2>2. CASE old # NoPlan
    BY <1>1, <1>3, <1>4, <2>2 DEF Rows
  <2>3. QED
    BY <2>1, <2>2
<1>6. /\ Idle \in Task /\ TaskFine(plans, configs, Idle)
      /\ Idle.pc # "delete" /\ Idle.pc # "commit"
  BY IdleFine DEF Idle
<1>7. CASE OneActiveDefault(rows)
  <2> DEFINE new == [Idle EXCEPT !.pc = "sync"]
  <2>1. /\ plans' = rows /\ task' = [task EXCEPT ![p] = new] /\ UNCHANGED calls
        /\ UNCHANGED <<configs, told, exposed, overtaken>>
    BY <1>7 DEF CommitDefault, Goto, old, leaver, comer
  <2>2. silent' \subseteq Users
    <3>1. \E untold : Quietly(untold)
      BY <1>7 DEF CommitDefault, old, leaver, comer
    <3>2. QED
      BY <1>1, <3>1 DEF Quietly, Changed
  <2>3. new \in Task /\ new.pc = "sync" /\ new.users = {} /\ new.offset = Idle.offset
    BY <1>6 DEF Task, Places, Idle
  <2> HIDE DEF new
  <2>4. TaskFine(plans, configs, new)
    BY <1>6, <2>3 DEF TaskFine
  <2> HIDE DEF rows
  <2>5. \A id \in PlanIds : plans[id] # NoRow => plans'[id] # NoRow
    <3>1. SUFFICES ASSUME NEW id \in PlanIds, plans[id] # NoRow PROVE rows[id] # NoRow
      BY <2>1
    <3>2. id = old => leaver # NoRow
      BY <1>4, PlansAssumption
    <3>3. QED
      BY <1>3, <1>5, <3>1, <3>2
  <2>6. \A id \in PlanIds :
            Live(plans, id) /\ (\A q \in Procs : ~Leaving(task[q], id)) => Live(plans', id)
    <3>1. SUFFICES ASSUME NEW id \in PlanIds, Live(plans, id), ~Leaving(k, id)
                   PROVE  Live(rows, id)
      BY <2>1
    <3>2. CASE id = k.plan
      BY <1>3, <1>5, <3>2 DEF Live
    <3>3. CASE id = old /\ id # k.plan
      <4>1. old # NoPlan
        BY <3>3, PlansAssumption
      <4>2. ~k.snap[old].deleted
        BY <1>1, <3>1, <3>3 DEF Leaving, old
      <4>3. QED
        BY <1>4, <1>5, <3>3, <4>1, <4>2 DEF Live
    <3>4. CASE id # old /\ id # k.plan
      BY <1>5, <3>1, <3>4 DEF Live
    <3>5. QED
      BY <3>2, <3>3, <3>4
  <2>7. DefaultThere'
    <3>1. k.plan \in Defaults'
      BY <1>3, <1>5, <2>1 DEF Defaults
    <3>2. QED
      BY <1>7, <2>1, <3>1 DEF DefaultThere
  <2>8. QED
    BY <1>1, <1>5, <2>1, <2>2, <2>3, <2>4, <2>5, <2>6, <2>7, PlansStep
<1>8. CASE ~OneActiveDefault(rows)
  <2>1. /\ task' = [task EXCEPT ![p] = Idle] /\ UNCHANGED calls
        /\ UNCHANGED <<plans, configs, told, silent, exposed, overtaken>>
    BY <1>8 DEF CommitDefault, Goto, old, leaver, comer
  <2>2. QED
    BY <1>1, <1>6, <2>1, NoneLeaves, TaskStep
<1>9. QED
  BY <1>7, <1>8

-----------------------------------------------------------------------------
(* Steps that change users' rows.                                          *)

LEMMA WriteStep ==
  ASSUME PlansInv, NEW p \in Procs, NEW cfgs \in Configs, NEW next \in Task,
         NEW untold, Write(p, cfgs, next, untold), TaskFine(plans, cfgs, next),
         next.pc # "delete", next.pc # "commit", calls' \in 0..MaxCalls,
         \A u \in Users : configs[u] # NoRow => cfgs[u] # NoRow
  PROVE  PlansInv'
<1> DEFINE PlanIn(c, u) == IF c[u] = NoRow THEN NoRow ELSE c[u].plan
           movers == {u \in Users : PlanIn(cfgs, u) # PlanIn(configs, u)}
           gone == {id \in PlanIds : \E q \in Procs : ~Live(plans, id) \/ Leaving(task[q], id)}
<1>1. /\ configs' = cfgs
      /\ exposed' = (exposed \ movers) \cup {u \in movers : cfgs[u].plan \in gone}
      /\ UNCHANGED <<plans, told, overtaken>>
      /\ silent' \subseteq Users
  <2>1. silent \subseteq Users
    BY DEF PlansInv, Typed
  <2>2. QED
    BY <2>1 DEF Write, Changed
<1>2. /\ task' \in [Procs -> Task]
      /\ task'[p] = next
      /\ \A q \in Procs \ {p} : task'[q] = task[q] \/ task'[q] = [task[q] EXCEPT !.stirred = TRUE]
  <2>1. /\ DOMAIN task' = Procs /\ task' = [q \in Procs |-> task'[q]]
        /\ task'[p] = next
        /\ \A q \in Procs \ {p} :
               task'[q] = task[q] \/ task'[q] = [task[q] EXCEPT !.stirred = TRUE]
    BY DEF Write
  <2>2. \A q \in Procs : task[q] \in Task /\ [task[q] EXCEPT !.stirred = TRUE] \in Task
    BY DEF PlansInv, Typed, Task
  <2>3. \A q \in Procs : task'[q] \in Task
    BY <2>1, <2>2
  <2>4. QED
    BY <2>1, <2>3
<1>3. \A q \in Procs \ {p} :
         /\ task'[q].pc = task[q].pc /\ task'[q].plan = task[q].plan /\ task'[q].user = task[q].user
         /\ task'[q].row = task[q].row /\ task'[q].snap = task[q].snap
         /\ task'[q].offset = task[q].offset /\ task'[q].users = task[q].users
  <2>1. \A q \in Procs : task[q] \in Task
    BY DEF PlansInv, Typed
  <2>2. QED
    BY <1>2, <2>1 DEF Task
<1>4. plans \in Rows /\ configs \in Configs /\ \A q \in Procs : TaskFine(plans, configs, task[q])
  BY DEF PlansInv, Typed, TasksFine
<1>5. Typed'
  <2>1. exposed \subseteq Users
    BY DEF PlansInv, Typed
  <2>2. exposed' \subseteq Users
    BY <1>1, <2>1
  <2>3. QED
    BY <1>1, <1>2, <2>2 DEF PlansInv, Typed
<1>6. TasksFine'
  <2>1. SUFFICES ASSUME NEW q \in Procs PROVE TaskFine(plans, cfgs, task'[q])
    BY <1>1 DEF TasksFine
  <2>2. CASE q = p
    BY <1>2, <2>2
  <2>3. CASE q # p
    <3>1. task[q] \in Task /\ TaskFine(plans, cfgs, task[q])
      BY <1>4, FineStays DEF PlansInv, Typed
    <3>2. QED
      BY <1>3, <2>3, <3>1 DEF TaskFine
  <2>4. QED
    BY <2>2, <2>3
<1>7. \A id : \A q \in Procs : Leaving(task'[q], id) => Leaving(task[q], id)
  <2>1. SUFFICES ASSUME NEW id, NEW q \in Procs, Leaving(task'[q], id) PROVE Leaving(task[q], id)
    OBVIOUS
  <2>2. q # p
    BY <1>2, <2>1, NoneLeaves
  <2>3. QED
    BY <1>3, <2>1, <2>2 DEF Leaving
<1>8. Standing'
  <2>1. SUFFICES ASSUME NEW u \in Users, u \notin exposed', cfgs[u] # NoRow, cfgs[u].plan # NoPlan
                 PROVE  /\ Live(plans, cfgs[u].plan)
                        /\ \A q \in Procs : ~Leaving(task'[q], cfgs[u].plan)
    BY <1>1 DEF Standing
  <2>2. cfgs[u].plan \in PlanIds
    BY <2>1 DEF Configs, ConfigRow
  <2>3. CASE u \in movers
    <3>1. cfgs[u].plan \notin gone
      BY <1>1, <2>1, <2>3
    <3>2. Live(plans, cfgs[u].plan) /\ \A q \in Procs : ~Leaving(task[q], cfgs[u].plan)
      BY <2>2, <3>1
    <3>3. QED
      BY <1>7, <3>2
  <2>4. CASE u \notin movers
    <3>1. configs[u] # NoRow /\ configs[u].plan = cfgs[u].plan
      BY <2>1, <2>2, <2>4, RowAssumption
    <3>2. u \notin exposed
      BY <1>1, <2>1, <2>4
    <3>3. Live(plans, cfgs[u].plan) /\ \A q \in Procs : ~Leaving(task[q], cfgs[u].plan)
      BY <2>1, <3>1, <3>2 DEF PlansInv, Standing
    <3>4. QED
      BY <1>7, <3>3
  <2>5. QED
    BY <2>3, <2>4
<1>9. DefaultThere'
  BY <1>1 DEF PlansInv, DefaultThere, OneActiveDefault, Defaults
<1>10. QED
  BY <1>5, <1>6, <1>8, <1>9 DEF PlansInv

\* After a user's row is there, the next user of the batch, if there is one, is the first
\* of those that are left.
LEMMA OnwardsFine ==
  ASSUME NEW k \in Task, NEW rows, NEW cfgs \in Configs,
         \A v \in k.users : v <= k.user => cfgs[v] # NoRow
  PROVE  /\ Onwards(k) \in Task /\ TaskFine(rows, cfgs, Onwards(k))
         /\ Onwards(k).pc # "delete" /\ Onwards(k).pc # "commit"
         /\ Onwards(k).pc = "idle" => \A v \in k.users : cfgs[v] # NoRow
<1> DEFINE rest == {u \in k.users : u > k.user}
<1>1. /\ k.users \subseteq Users /\ Users \subseteq Nat \ {0} /\ k.user \in Nat
      /\ Idle \in Task /\ TaskFine(rows, cfgs, Idle) /\ Idle.pc = "idle"
  BY IdleFine, PlansAssumption DEF Task, Idle
<1>2. CASE rest = {}
  <2>1. Onwards(k) = Idle
    BY <1>2 DEF Onwards
  <2>2. \A v \in k.users : v <= k.user
    <3>1. SUFFICES ASSUME NEW v \in k.users PROVE v <= k.user
      OBVIOUS
    <3>2. v \notin rest /\ v \in Nat /\ k.user \in Nat
      BY <1>1, <1>2
    <3>3. ~(v > k.user)
      BY <3>2
    <3> HIDE DEF rest
    <3>4. QED
      BY <3>2, <3>3
  <2>3. QED
    BY <1>1, <2>1, <2>2
<1>3. CASE rest # {}
  <2> DEFINE new == [Idle EXCEPT !.pc = "each", !.user = Min(rest), !.users = k.users]
  <2>1. Min(rest) \in rest /\ \A v \in rest : Min(rest) <= v
    <3>1. rest \in SUBSET Nat
      BY <1>1
    <3>2. QED
      BY <1>3, <3>1, MinIsLeast
  <2>2. \A v \in k.users : v < Min(rest) => cfgs[v] # NoRow
    <3>1. SUFFICES ASSUME NEW v \in k.users, v < Min(rest) PROVE cfgs[v] # NoRow
      OBVIOUS
    <3>2. v \in Nat /\ Min(rest) \in Nat
      BY <1>1, <2>1
    <3>3. v \notin rest
      BY <2>1, <3>1, <3>2
    <3>4. v <= k.user
      BY <1>1, <3>2, <3>3
    <3>5. QED
      BY <3>4
  <2>3. Min(rest) \in Users /\ Min(rest) \in k.users
    BY <1>1, <2>1
  <2>4. Onwards(k) = new
    BY <1>3 DEF Onwards
  <2> HIDE DEF rest
  <2>5. new \in Task /\ new.pc = "each" /\ new.user = Min(rest) /\ new.users = k.users
        /\ new.offset = Idle.offset
    BY <1>1, <2>3 DEF Task, Places, Idle
  <2> HIDE DEF new
  <2>6. TaskFine(rows, cfgs, new)
    BY <1>1, <2>2, <2>3, <2>5 DEF TaskFine
  <2>7. QED
    BY <2>4, <2>5, <2>6
<1>4. QED
  BY <1>2, <1>3

\* One row is written, by a call that then ends or announces it.
LEMMA PutStep ==
  ASSUME PlansInv, NEW p \in Procs, NEW u \in Users, NEW config \in ConfigRow, NEW next \in Task,
         NEW untold, Put(p, u, config, next, untold), next = Idle \/ next = Fire(u), calls' \in 0..MaxCalls
  PROVE  PlansInv'
<1> DEFINE cfgs == [configs EXCEPT ![u] = config]
<1>1. configs \in Configs /\ config # NoRow
  BY RowAssumption DEF PlansInv, Typed
<1>2. cfgs \in Configs /\ \A v \in Users : configs[v] # NoRow => cfgs[v] # NoRow
  BY <1>1 DEF Configs
<1>3. TaskFine(plans, cfgs, next) /\ next.pc # "delete" /\ next.pc # "commit"
  <2>1. TaskFine(plans, cfgs, Idle) /\ TaskFine(plans, cfgs, Fire(u))
    BY IdleFine
  <2>2. Idle.pc = "idle" /\ Fire(u).pc = "fire"
    BY DEF Idle, Fire
  <2>3. QED
    BY <2>1, <2>2
<1>4. Write(p, cfgs, next, untold)
  BY DEF Put
<1>5. QED
  BY <1>2, <1>3, <1>4, WriteStep

LEMMA ConfigSteps ==
  ASSUME PlansInv, NEW p \in Procs,
         \/ AssignUserToPlan(p)
         \/ \E u \in Users : RemoveUserFromPlan(p, u) \/ ResetUserQuotaPlan(p, u) \/ MakeBareConfig(p, u)
         \/ \E u \in Users, id \in PlanIds \cup {NoPlan}, own \in Own :
               UpdateUserQuotaConfig(p, u, id, own)
         \/ \E u \in Users, id \in PlanIds, own \in Own : SetQuotaConfig(p, u, id, own)
  PROVE  PlansInv'
<1>1. /\ configs \in Configs /\ calls \in 0..MaxCalls /\ NoOwn \in Own /\ MaxCalls \in Nat
      /\ task[p] \in Task /\ TaskFine(plans, configs, task[p]) /\ Idle \in Task
      /\ \A u \in Users : Fire(u) \in Task
  BY PlansAssumption, IdleFine DEF PlansInv, Typed, TasksFine
<1>2. \A u \in Users : configs[u] # NoRow => configs[u] \in ConfigRow
  BY <1>1 DEF Configs
<1>3. \A u \in Users : RowOf(u) \in ConfigRow
  BY <1>1, <1>2 DEF RowOf, ConfigRow
<1>4. \A row \in ConfigRow : \A id \in PlanIds \cup {NoPlan} : [row EXCEPT !.plan = id] \in ConfigRow
  BY DEF ConfigRow
<1>5. Ready(p) => calls' \in 0..MaxCalls
  BY <1>1 DEF Ready
<1>6. CASE AssignUserToPlan(p)
  <2> DEFINE k == task[p]
  <2>1. /\ k.pc = "assign" /\ UNCHANGED calls
        /\ Put(p, k.user, [RowOf(k.user) EXCEPT !.plan = k.plan], Idle, {k.user})
    BY <1>6 DEF AssignUserToPlan
  <2>2. k.user \in Users /\ k.plan \in PlanIds \cup {NoPlan}
    BY <1>1, <2>1 DEF TaskFine, Task
  <2>3. [RowOf(k.user) EXCEPT !.plan = k.plan] \in ConfigRow
    BY <1>3, <1>4, <2>2
  <2>4. QED
    BY <1>1, <2>1, <2>2, <2>3, PutStep
<1>7. ASSUME NEW u \in Users, RemoveUserFromPlan(p, u) PROVE PlansInv'
  <2>1. [configs[u] EXCEPT !.plan = NoPlan] \in ConfigRow
    BY <1>2, <1>4, <1>7 DEF RemoveUserFromPlan
  <2>2. QED
    BY <1>1, <1>5, <1>7, <2>1, PutStep DEF RemoveUserFromPlan
<1>8. ASSUME NEW u \in Users, ResetUserQuotaPlan(p, u) PROVE PlansInv'
  <2>1. [configs[u] EXCEPT !.plan = NoPlan] \in ConfigRow
    BY <1>2, <1>4, <1>8 DEF ResetUserQuotaPlan
  <2>2. QED
    BY <1>1, <1>5, <1>8, <2>1, PutStep DEF ResetUserQuotaPlan
<1>9. ASSUME NEW u \in Users, MakeBareConfig(p, u) PROVE PlansInv'
  <2>1. [plan |-> NoPlan, own |-> NoOwn] \in ConfigRow
    BY <1>1 DEF ConfigRow
  <2>2. QED
    BY <1>1, <1>5, <1>9, <2>1, PutStep DEF MakeBareConfig
<1>10. ASSUME NEW u \in Users, NEW id \in PlanIds \cup {NoPlan}, NEW own \in Own,
              UpdateUserQuotaConfig(p, u, id, own)
       PROVE  PlansInv'
  <2>1. Updated(RowOf(u), id, own) \in ConfigRow
    BY <1>3 DEF Updated, ConfigRow
  <2>2. QED
    BY <1>1, <1>5, <1>10, <2>1, PutStep DEF UpdateUserQuotaConfig
<1>11. ASSUME NEW u \in Users, NEW id \in PlanIds, NEW own \in Own, SetQuotaConfig(p, u, id, own)
       PROVE  PlansInv'
  <2> DEFINE config == IF configs[u] = NoRow THEN [plan |-> id, own |-> own] ELSE configs[u]
  <2>1. config \in ConfigRow
    BY <1>2 DEF ConfigRow
  <2>2. Ready(p) /\ Put(p, u, config, Fire(u), {})
    BY <1>11 DEF SetQuotaConfig
  <2>3. QED
    BY <1>1, <1>5, <2>1, <2>2, PutStep
<1>12. QED
  BY <1>6, <1>7, <1>8, <1>9, <1>10, <1>11

\* A missing row is made, and the batch goes on.
LEMMA MakeStep ==
  ASSUME PlansInv, NEW p \in Procs, MakeConfig(p)
  PROVE  /\ PlansInv'
         /\ task'[p] = Onwards(task[p])
         /\ task'[p].pc = "idle" => \A u \in task[p].users : configs'[u] # NoRow
<1> DEFINE k == task[p]
           config == IF configs[k.user] = NoRow THEN [plan |-> k.plan, own |-> NoOwn]
                     ELSE configs[k.user]
           cfgs == [configs EXCEPT ![k.user] = config]
<1>1. /\ configs \in Configs /\ k \in Task /\ TaskFine(plans, configs, k) /\ k.pc = "make"
      /\ calls' \in 0..MaxCalls /\ NoOwn \in Own
      /\ Write(p, cfgs, Onwards(k), {k.user})
  BY PlansAssumption DEF PlansInv, Typed, TasksFine, MakeConfig, Put
<1>2. /\ k.user \in Users /\ k.user \in k.users /\ k.plan \in PlanIds \cup {NoPlan}
      /\ k.users \subseteq Users
      /\ \A v \in k.users : v < k.user => configs[v] # NoRow
  BY <1>1 DEF TaskFine, Task
<1>3. config \in ConfigRow /\ config # NoRow
  BY <1>1, <1>2, RowAssumption DEF ConfigRow, Configs
<1>4. cfgs \in Configs /\ cfgs[k.user] # NoRow
      /\ \A u \in Users : configs[u] # NoRow => cfgs[u] # NoRow
  BY <1>1, <1>2, <1>3 DEF Configs
<1> HIDE DEF cfgs
<1>5. \A v \in k.users : v <= k.user => cfgs[v] # NoRow
  <2>1. SUFFICES ASSUME NEW v \in k.users, v <= k.user PROVE cfgs[v] # NoRow
    OBVIOUS
  <2>2. v \in Nat /\ k.user \in Nat
    BY <1>2, PlansAssumption
  <2>3. v = k.user \/ v < k.user
    BY <2>1, <2>2
  <2>4. QED
    BY <1>2, <1>4, <2>3
<1>6. /\ Onwards(k) \in Task /\ TaskFine(plans, cfgs, Onwards(k))
      /\ Onwards(k).pc # "delete" /\ Onwards(k).pc # "commit"
      /\ Onwards(k).pc = "idle" => \A v \in k.users : cfgs[v] # NoRow
  BY <1>1, <1>4, <1>5, OnwardsFine
<1>7. configs' = cfgs /\ task'[p] = Onwards(k)
  BY <1>1 DEF Write
<1>8. QED
  BY <1>1, <1>4, <1>6, <1>7, WriteStep

LEMMA InsertStep ==
  ASSUME PlansInv, NEW p \in Procs, InsertBatch(p)
  PROVE  /\ PlansInv'
         /\ task'[p].pc = "idle" => \A u \in task[p].users : configs'[u] # NoRow
<1> DEFINE k == task[p]
           all == \A u \in k.users : configs[u] = NoRow
           new == [plan |-> k.plan, own |-> NoOwn]
           cfgs == [u \in Users |-> IF u \in k.users THEN new ELSE configs[u]]
<1>1. /\ configs \in Configs /\ k \in Task /\ TaskFine(plans, configs, k) /\ k.pc = "insert"
      /\ calls' \in 0..MaxCalls /\ NoOwn \in Own
  BY PlansAssumption DEF PlansInv, Typed, TasksFine, InsertBatch
<1>2. k.user = 0 /\ k.users \subseteq Users /\ k.plan \in PlanIds \cup {NoPlan}
  BY <1>1 DEF TaskFine, Task
<1>3. new \in ConfigRow /\ new # NoRow
  BY <1>1, <1>2, RowAssumption DEF ConfigRow
<1>4. CASE all
  <2>1. Write(p, cfgs, Idle, k.users)
    BY <1>4 DEF InsertBatch
  <2> HIDE DEF new
  <2>2. cfgs \in Configs /\ \A u \in Users : configs[u] # NoRow => cfgs[u] # NoRow
    BY <1>1, <1>3 DEF Configs
  <2>3. \A u \in k.users : cfgs[u] # NoRow
    BY <1>2, <1>3
  <2>4. Idle \in Task /\ TaskFine(plans, cfgs, Idle) /\ Idle.pc # "delete" /\ Idle.pc # "commit"
    BY IdleFine DEF Idle
  <2> HIDE DEF cfgs
  <2>5. configs' = cfgs
    BY <2>1 DEF Write
  <2>6. QED
    BY <1>1, <2>1, <2>2, <2>3, <2>4, <2>5, WriteStep
<1>5. CASE ~all
  <2>1. Write(p, configs, Onwards(k), {})
    BY <1>5 DEF InsertBatch
  <2>2. \A v \in k.users : v <= k.user => configs[v] # NoRow
    <3>1. \A v \in k.users : v \in Nat \ {0}
      BY <1>2, PlansAssumption
    <3>2. QED
      BY <1>2, <3>1
  <2>3. /\ Onwards(k) \in Task /\ TaskFine(plans, configs, Onwards(k))
        /\ Onwards(k).pc # "delete" /\ Onwards(k).pc # "commit"
        /\ Onwards(k).pc = "idle" => \A v \in k.users : configs[v] # NoRow
    BY <1>1, <2>2, OnwardsFine
  <2>4. configs' = configs /\ task'[p] = Onwards(k)
    BY <2>1 DEF Write
  <2>5. QED
    BY <1>1, <2>1, <2>3, <2>4, WriteStep
<1>6. QED
  BY <1>4, <1>5

-----------------------------------------------------------------------------
LEMMA PlansInvInit == Init => PlansInv
<1> SUFFICES ASSUME Init PROVE PlansInv
  OBVIOUS
<1>1. plans \in Rows /\ configs \in Configs
  BY RowAssumption DEF Init, Rows, Configs
<1>2. \A u \in Users : Effective(plans, configs[u]) \in Limited
  BY <1>1, EffectiveType DEF Configs
<1>3. \A p \in Procs : task[p] = Idle
  BY DEF Init
<1>4. Typed
  <2>1. told \in [Users -> Limited]
    BY <1>2 DEF Init
  <2>2. task \in [Procs -> Task]
    <3>1. Idle \in Task
      BY IdleFine
    <3>2. task = [p \in Procs |-> Idle]
      BY DEF Init
    <3>3. QED
      BY <3>1, <3>2
  <2>3. /\ silent \subseteq Users /\ exposed \subseteq Users /\ overtaken \in BOOLEAN
        /\ calls \in 0..MaxCalls
    <3>1. silent = {} /\ exposed = {} /\ overtaken = FALSE /\ calls = 0
      BY DEF Init
    <3>2. 0 \in 0..MaxCalls
      BY PlansAssumption
    <3>3. QED
      BY <3>1, <3>2
  <2>4. QED
    BY <1>1, <2>1, <2>2, <2>3 DEF Typed
<1>5. TasksFine
  BY <1>3, IdleFine DEF TasksFine
<1>6. 1 \in PlanIds /\ plans[1] # NoRow /\ plans[1].isDefault /\ ~plans[1].deleted
      /\ \A id \in PlanIds \ {1} :
             plans[id] # NoRow => plans[id].active /\ ~plans[id].isDefault /\ ~plans[id].deleted
  BY PlansAssumption DEF Init
<1>7. Standing
  <2>1. SUFFICES ASSUME NEW u \in Users, configs[u] # NoRow, configs[u].plan # NoPlan
                 PROVE  /\ Live(plans, configs[u].plan)
                        /\ \A p \in Procs : ~Leaving(task[p], configs[u].plan)
    BY DEF Standing
  <2>2. configs[u].plan \in PlanIds
    BY <1>1, <2>1 DEF Configs, ConfigRow
  <2>3. plans[configs[u].plan] # NoRow
    BY <2>1 DEF Init
  <2>4. Live(plans, configs[u].plan)
    BY <1>6, <2>2, <2>3 DEF Live
  <2>5. QED
    BY <1>3, <2>4, NoneLeaves DEF Idle
<1>8. DefaultThere
  <2> DEFINE marked == {id \in PlanIds : plans[id] # NoRow /\ plans[id].isDefault /\ plans[id].active}
  <2>1. marked \in SUBSET {1}
    BY <1>6
  <2>2. IsFiniteSet({1}) /\ Cardinality({1}) = 1
    BY FS_Singleton
  <2>3. Cardinality(marked) <= 1
    BY <2>1, <2>2, FS_Subset
  <2>4. 1 \in Defaults
    BY <1>6 DEF Defaults
  <2>5. QED
    BY <2>3, <2>4 DEF DefaultThere, OneActiveDefault
<1>9. QED
  BY <1>4, <1>5, <1>7, <1>8 DEF PlansInv

LEMMA StutterStep ==
  ASSUME PlansInv, UNCHANGED vars
  PROVE  PlansInv'
<1>1. UNCHANGED <<plans, configs, task, told, silent, exposed, overtaken, calls>>
  BY DEF vars
<1>2. Typed' /\ TasksFine' /\ Standing' /\ DefaultThere'
  BY <1>1 DEF PlansInv, Typed, TasksFine, Standing, DefaultThere, OneActiveDefault, Defaults
<1>3. QED
  BY <1>2 DEF PlansInv

LEMMA PlansInvStep == PlansInv /\ [Next]_vars => PlansInv'
<1> SUFFICES ASSUME PlansInv, [Next]_vars PROVE PlansInv'
  OBVIOUS
<1>1. ASSUME NEW p \in Procs, AdminRequest(p) PROVE PlansInv'
  <2>1. ASSUME NEW id \in PlanIds, NEW t \in Terms, NEW active \in BOOLEAN,
               CreateQuotaPlan(p, id, t, active)
        PROVE  PlansInv'
    BY <2>1, CreateStep
  <2>2. ASSUME NEW id \in PlanIds, NEW t \in Terms, NEW active \in BOOLEAN,
               BeginUpdate(p, id, t, active)
        PROVE  PlansInv'
    BY <2>2, UpdateSteps
  <2>3. ASSUME NEW id \in PlanIds, CountUsers(p, id) \/ OpenDefault(p, id) PROVE PlansInv'
    BY <2>3, LeavingSteps
  <2>4. ASSUME NEW u \in Users, ResetUserQuotaPlan(p, u) PROVE PlansInv'
    BY <2>4, ConfigSteps
  <2>5. ASSUME NEW u \in Users, NEW id \in PlanIds \cup {NoPlan}, NEW own \in Own,
               UpdateUserQuotaConfig(p, u, id, own)
        PROVE  PlansInv'
    BY <2>5, ConfigSteps
  <2>6. QED
    BY <1>1, <2>1, <2>2, <2>3, <2>4, <2>5 DEF AdminRequest
<1>2. ASSUME NEW p \in Procs, ServiceCall(p) PROVE PlansInv'
  <2>1. ASSUME NEW u \in Users, NEW id \in PlanIds, VerifyPlan(p, u, id) PROVE PlansInv'
    BY <2>1, RowSteps
  <2>2. ASSUME NEW u \in Users, NEW id \in PlanIds, NEW own \in Own, SetQuotaConfig(p, u, id, own)
        PROVE  PlansInv'
    BY <2>2, ConfigSteps
  <2>3. ASSUME NEW u \in Users, RemoveUserFromPlan(p, u) PROVE PlansInv'
    BY <2>3, ConfigSteps
  <2>4. ASSUME NEW u \in Users, ReadDefault(p, u) PROVE PlansInv'
    BY <2>4, RowSteps
  <2>5. ASSUME NEW u \in Users, MakeBareConfig(p, u) PROVE PlansInv'
    BY <2>5, ConfigSteps
  <2>6. CASE FindMissing(p)
    BY <2>6, RowSteps
  <2>7. QED
    BY <1>2, <2>1, <2>2, <2>3, <2>4, <2>5, <2>6 DEF ServiceCall
<1>3. ASSUME NEW p \in Procs, Step(p) PROVE PlansInv'
  <2>1. CASE CompareUpdate(p) \/ OpenUpdate(p)
    BY <2>1, UpdateSteps
  <2>2. CASE SaveUpdate(p)
    BY <2>2, SaveStep
  <2>3. CASE DeleteQuotaPlan(p)
    BY <2>3, DeleteStep
  <2>4. CASE CommitDefault(p)
    BY <2>4, CommitStep
  <2>5. CASE SyncPage(p) \/ SyncFails(p) \/ FireEvent(p)
    BY <2>5, ToldSteps
  <2>6. CASE AssignUserToPlan(p)
    BY <2>6, ConfigSteps
  <2>7. CASE MakeConfig(p)
    BY <2>7, MakeStep
  <2>8. CASE ReadBatchDefault(p) \/ ReadNextDefault(p)
    BY <2>8, RowSteps
  <2>9. CASE InsertBatch(p)
    BY <2>9, InsertStep
  <2>10. QED
    BY <1>3, <2>1, <2>2, <2>3, <2>4, <2>5, <2>6, <2>7, <2>8, <2>9 DEF Step
<1>4. CASE Stop \/ UNCHANGED vars
  BY <1>4, StutterStep DEF Stop
<1>5. QED
  BY <1>1, <1>2, <1>3, <1>4 DEF Next

THEOREM PlansInvHolds == Spec => []PlansInv
  BY PlansInvInit, PlansInvStep, PTL DEF Spec

-----------------------------------------------------------------------------
(* Theorems.                                                               *)

\* Every variable keeps its type; a synchronisation never pages beyond the users there are.
THEOREM TypeCorrect == Spec => []TypeOK
<1>1. IsFiniteSet(Users) /\ Batch \in Nat
  BY PlansAssumption
<1>2. Cardinality(Users) \in Nat
  BY <1>1, FS_CardinalityType
<1>3. ASSUME PlansInv PROVE TypeOK
  <2>1. ASSUME NEW p \in Procs
        PROVE  /\ DOMAIN task[p] = DOMAIN Idle
               /\ task[p].offset \in 0..(Cardinality(Users) + Batch)
               /\ task[p].pc \in Places
    <3>1. task[p] \in Task /\ task[p].offset <= Cardinality(Users) + Batch
      BY <1>3 DEF PlansInv, Typed, TasksFine, TaskFine
    <3>2. task[p].offset \in Nat /\ task[p].pc \in Places
      BY <3>1 DEF Task
    <3>3. DOMAIN task[p] = DOMAIN Idle
      BY <3>1 DEF Task, Idle
    <3>4. QED
      BY <1>1, <1>2, <3>1, <3>2, <3>3
  <2>2. QED
    BY <1>3, <2>1 DEF PlansInv, Typed, TypeOK, Rows, Configs, Places
<1>4. QED
  BY <1>3, PlansInvHolds, PTL

\* Calls of SetDefaultQuotaPlan leave exactly one row marked as the default, whatever
\* they interleave with, as long as no update has written back a stale is_default and the
\* marked rows are active.  (When they are not, there may be two: see NeverTwoDefaults.)
THEOREM DefaultIsOne == Spec => []OneDefault
<1>1. ASSUME PlansInv, ~overtaken, \A id \in Defaults : plans[id].active
      PROVE  Cardinality(Defaults) = 1
  <2>1. Defaults = {id \in PlanIds : plans[id] # NoRow /\ plans[id].isDefault /\ plans[id].active}
    BY <1>1 DEF Defaults
  <2>2. Cardinality(Defaults) <= 1 /\ Defaults # {}
    BY <1>1, <2>1 DEF PlansInv, DefaultThere, OneActiveDefault
  <2>3. Defaults \in SUBSET PlanIds /\ IsFiniteSet(PlanIds)
    BY PlansAssumption DEF Defaults
  <2>4. IsFiniteSet(Defaults) /\ Cardinality(Defaults) \in Nat
    BY <2>3, FS_Subset, FS_CardinalityType
  <2>5. Cardinality(Defaults) # 0
    BY <2>2, <2>4, FS_EmptySet
  <2>6. QED
    BY <2>2, <2>4, <2>5
<1>2. PlansInv => OneDefault
  BY <1>1 DEF OneDefault
<1>3. QED
  BY <1>2, PlansInvHolds, PTL

\* No user is left on a deleted plan but those who were put on it when it was gone or
\* on its way out.
THEOREM PlansStand == Spec => []AssignedPlansStand
<1>1. PlansInv => AssignedPlansStand
  BY DEF PlansInv, Standing, AssignedPlansStand
<1>2. QED
  BY <1>1, PlansInvHolds, PTL

\* A step of one call leaves the others where they are.
LEMMA OneMoves ==
  ASSUME PlansInv, NEW q \in Procs, NEW p \in Procs, p # q,
         AdminRequest(q) \/ ServiceCall(q) \/ Step(q)
  PROVE  task'[p].pc = task[p].pc
<1>1. task \in [Procs -> Task]
  BY DEF PlansInv, Typed
<1>2. ASSUME NEW k, Start(q, k) \/ Goto(q, k) PROVE task'[p].pc = task[p].pc
  BY <1>1, <1>2 DEF Start, Goto
<1>3. ASSUME NEW cfgs, NEW next, NEW untold, Write(q, cfgs, next, untold)
      PROVE  task'[p].pc = task[p].pc
  <2>1. task'[p] = task[p] \/ task'[p] = [task[p] EXCEPT !.stirred = TRUE]
    BY <1>3 DEF Write
  <2>2. QED
    BY <1>1, <2>1 DEF Task
<1>4. ASSUME NEW u, NEW config, NEW next, NEW untold, Put(q, u, config, next, untold)
      PROVE  task'[p].pc = task[p].pc
  BY <1>3, <1>4 DEF Put
<1>5. CASE AdminRequest(q)
  BY <1>2, <1>4, <1>5 DEF AdminRequest, CreateQuotaPlan, BeginUpdate, CountUsers, OpenDefault,
    ResetUserQuotaPlan, UpdateUserQuotaConfig
<1>6. CASE ServiceCall(q)
  BY <1>2, <1>4, <1>6 DEF ServiceCall, VerifyPlan, SetQuotaConfig, RemoveUserFromPlan,
    ReadDefault, MakeBareConfig, FindMissing
<1>7. CASE Step(q)
  <2>1. CASE CompareUpdate(q) \/ OpenUpdate(q) \/ SaveUpdate(q)
    BY <1>2, <2>1 DEF CompareUpdate, OpenUpdate, SaveUpdate
  <2>2. CASE DeleteQuotaPlan(q) \/ CommitDefault(q)
    BY <1>2, <2>2 DEF DeleteQuotaPlan, CommitDefault
  <2>3. CASE SyncPage(q) \/ SyncFails(q) \/ FireEvent(q)
    BY <1>2, <2>3 DEF SyncPage, SyncFails, FireEvent
  <2>4. CASE AssignUserToPlan(q) \/ MakeConfig(q)
    BY <1>4, <2>4 DEF AssignUserToPlan, MakeConfig
  <2>5. CASE ReadBatchDefault(q) \/ ReadNextDefault(q)
    BY <1>2, <2>5 DEF ReadBatchDefault, ReadNextDefault
  <2>6. CASE InsertBatch(q)
    BY <1>3, <2>6 DEF InsertBatch
  <2>7. QED
    BY <1>7, <2>1, <2>2, <2>3, <2>4, <2>5, <2>6 DEF Step
<1>8. QED
  BY <1>5, <1>6, <1>7

\* A call that has resolved limits, for one user or for many, ends with a row for each.
THEOREM ResolvedHaveRows == Spec => BatchCovers
<1>1. ASSUME PlansInv, [Next]_vars, NEW p \in Procs, task[p].users # {}, task'[p].pc = "idle"
      PROVE  \A u \in task[p].users : configs'[u] # NoRow
  <2>1. /\ task \in [Procs -> Task] /\ TaskFine(plans, configs, task[p])
    BY <1>1 DEF PlansInv, Typed, TasksFine
  <2>2. task[p].pc \in {"make", "batch", "insert", "each"}
    BY <1>1, <2>1 DEF TaskFine
  <2>3. ~(Stop \/ UNCHANGED vars)
    BY <1>1, <2>2 DEF Stop, vars
  <2>4. PICK q \in Procs : AdminRequest(q) \/ ServiceCall(q) \/ Step(q)
    BY <1>1, <2>3 DEF Next
  <2>5. q = p
    BY <1>1, <2>2, <2>4, OneMoves
  <2>6. ~AdminRequest(p) /\ ~ServiceCall(p)
    BY <2>2 DEF AdminRequest, ServiceCall, Start, Ready, CreateQuotaPlan, BeginUpdate, CountUsers,
      OpenDefault, ResetUserQuotaPlan, UpdateUserQuotaConfig, VerifyPlan, SetQuotaConfig,
      RemoveUserFromPlan, ReadDefault, MakeBareConfig, FindMissing
  <2>7. MakeConfig(p) \/ ReadBatchDefault(p) \/ InsertBatch(p) \/ ReadNextDefault(p)
    BY <2>2, <2>4, <2>5, <2>6 DEF Step, CompareUpdate, OpenUpdate, SaveUpdate, DeleteQuotaPlan,
      CommitDefault, SyncPage, SyncFails, AssignUserToPlan, FireEvent
  <2>8. CASE MakeConfig(p)
    BY <1>1, <2>8, MakeStep
  <2>9. CASE InsertBatch(p)
    BY <1>1, <2>9, InsertStep
  <2>10. CASE ReadBatchDefault(p) \/ ReadNextDefault(p)
    <3>1. \E id : \/ task'[p] = [task[p] EXCEPT !.pc = "insert", !.plan = id]
                  \/ task'[p] = [task[p] EXCEPT !.pc = "make", !.plan = id]
      BY <2>1, <2>10 DEF ReadBatchDefault, ReadNextDefault, Goto
    <3>2. task[p] \in Task
      BY <2>1
    <3>3. task'[p].pc # "idle"
      BY <3>1, <3>2 DEF Task
    <3>4. QED
      BY <1>1, <3>3
  <2>11. QED
    BY <2>7, <2>8, <2>9, <2>10
<1>2. PlansInv /\ [Next]_vars =>
          [\A p \in Procs : task[p].users # {} /\ task'[p].pc = "idle" =>
              \A u \in task[p].users : configs'[u] # NoRow]_vars
  BY <1>1
<1>3. QED
  BY <1>2, PlansInvHolds, PTL DEF Spec, BatchCovers

-----------------------------------------------------------------------------
(* What users have been told.                                              *)

\* As many members of M come before u as are counted; members before the c-th are c.
LEMMA BelowRank ==
  ASSUME NEW M \in SUBSET Nat, IsFiniteSet(M), NEW u \in M, NEW c \in Nat,
         c <= Cardinality({v \in M : v < u})
  PROVE  Cardinality({v \in M : Cardinality({w \in M : w < v}) < c}) = c
<1> DEFINE B == [v \in M |-> {w \in M : w < v}]
           C == [v \in M |-> Cardinality(B[v])]
           L == {v \in M : C[v] < c}
<1>1. \A v \in M : B[v] \in SUBSET M /\ \A w \in M : w \in B[v] <=> w < v
  OBVIOUS
<1>2. \A v \in M : C[v] = Cardinality(B[v])
  OBVIOUS
<1>3. \A v \in M : v \in Nat
  OBVIOUS
<1>4. L \in SUBSET M /\ \A v \in M : v \in L <=> C[v] < c
  OBVIOUS
<1>5. {v \in M : Cardinality({w \in M : w < v}) < c} = L
  OBVIOUS
<1>6. c <= C[u]
  OBVIOUS
<1> HIDE DEF B, C, L
<1>7. \A v \in M : IsFiniteSet(B[v]) /\ C[v] \in Nat
  BY <1>1, <1>2, FS_Subset, FS_CardinalityType
<1>8. IsFiniteSet(L) /\ Cardinality(L) \in Nat
  BY <1>4, FS_Subset, FS_CardinalityType
<1>9. ASSUME NEW v \in M, NEW w \in M, v < w PROVE C[v] < C[w]
  <2>1. v \notin B[v]
    BY <1>1, <1>3
  <2>2. B[v] \cup {v} \in SUBSET B[w]
    <3>1. ASSUME NEW x \in B[v] PROVE x \in B[w]
      <4>1. x \in M /\ x < v
        BY <1>1
      <4>2. x < w
        BY <1>3, <1>9, <4>1
      <4>3. QED
        BY <1>1, <4>1, <4>2
    <3>2. v \in B[w]
      BY <1>1, <1>9
    <3>3. QED
      BY <3>1, <3>2
  <2>3. IsFiniteSet(B[v] \cup {v}) /\ Cardinality(B[v] \cup {v}) = C[v] + 1
    BY <1>2, <1>7, <2>1, FS_AddElement
  <2>4. Cardinality(B[v] \cup {v}) <= C[w]
    BY <1>2, <1>7, <2>2, FS_Subset
  <2>5. QED
    BY <1>7, <2>3, <2>4
<1>10. Cardinality(L) <= c
  <2> DEFINE f == [v \in L |-> C[v]]
             I == 0..(c - 1)
  <2>1. f \in Injection(L, I)
    <3>1. f \in [L -> I]
      BY <1>4, <1>7
    <3>2. ASSUME NEW v \in L, NEW w \in L, f[v] = f[w] PROVE v = w
      <4>1. v \in M /\ w \in M /\ v \in Nat /\ w \in Nat
        BY <1>3, <1>4
      <4>2. C[v] = C[w] /\ C[v] \in Nat
        BY <1>7, <3>2, <4>1
      <4>3. ~(v < w) /\ ~(w < v)
        BY <1>9, <4>1, <4>2
      <4>4. QED
        BY <4>1, <4>3
    <3> HIDE DEF f, I
    <3>3. QED
      BY <3>1, <3>2 DEF Injection, IsInjective
  <2>2. IsFiniteSet(I) /\ Cardinality(I) = c
    <3>1. PICK b \in Int : b = c - 1
      OBVIOUS
    <3>2. IsFiniteSet(0..b) /\ Cardinality(0..b) = IF 0 > b THEN 0 ELSE b - 0 + 1
      BY FS_Interval
    <3>3. Cardinality(0..b) = c
      BY <3>1, <3>2
    <3>4. QED
      BY <3>1, <3>2, <3>3
  <2> HIDE DEF f, I
  <2>3. QED
    BY <2>1, <2>2, FS_Injection
<1>11. c <= Cardinality(L)
  <2>1. u \in M \ L
    BY <1>4, <1>6, <1>7
  <2>2. M \ L \in SUBSET Nat
    OBVIOUS
  <2> DEFINE m == Min(M \ L)
  <2>3. m \in M \ L /\ \A x \in M \ L : m <= x
    BY <2>1, <2>2, MinIsLeast
  <2> HIDE DEF m
  <2>4. B[m] \in SUBSET L
    <3>1. ASSUME NEW x \in B[m], x \notin L PROVE FALSE
      <4>1. x \in M /\ x < m
        BY <1>1, <2>3
      <4>2. m <= x /\ x \in Nat /\ m \in Nat
        BY <1>3, <2>3, <3>1, <4>1
      <4>3. QED
        BY <4>1, <4>2
    <3>2. QED
      BY <3>1
  <2>5. C[m] \in Nat /\ c <= C[m]
    BY <1>4, <1>7, <2>3
  <2>6. C[m] <= Cardinality(L)
    BY <1>2, <1>8, <2>3, <2>4, FS_Subset
  <2>7. QED
    BY <1>8, <2>5, <2>6
<1>12. Cardinality(L) = c
  BY <1>8, <1>10, <1>11
<1>13. QED
  BY <1>5, <1>12, Zenon

\* Pages before the last one are full.
LEMMA PageIsFull ==
  ASSUME NEW k \in Task, NEW u \in Members(k.plan),
         k.offset + Batch <= Cardinality({v \in Members(k.plan) : v < u})
  PROVE  Cardinality(Page(k)) = Batch
<1> DEFINE M == Members(k.plan)
           R(v) == Cardinality({w \in M : w < v})
           a == k.offset
           L == {v \in M : R(v) < a}
           H == {v \in M : R(v) < a + Batch}
<1>1. M \in SUBSET Nat /\ IsFiniteSet(M) /\ Batch \in Nat
  <2>1. M \in SUBSET Users /\ M \in SUBSET Nat
    BY PlansAssumption DEF Members
  <2>2. QED
    BY <2>1, PlansAssumption, FS_Subset
<1>2. a \in Nat
  BY DEF Task
<1> HIDE DEF a
<1>3. u \in M /\ a + Batch <= R(u) /\ R(u) \in Nat
  <2>1. {v \in M : v < u} \in SUBSET M
    OBVIOUS
  <2>2. R(u) \in Nat
    BY <1>1, <2>1, FS_Subset, FS_CardinalityType
  <2>3. QED
    BY <2>2 DEF a
<1> HIDE DEF M
<1>4. Cardinality(L) = a
  <2>1. a <= R(u)
    BY <1>1, <1>2, <1>3
  <2>2. QED
    BY <1>1, <1>2, <1>3, <2>1, BelowRank
<1>5. Cardinality(H) = a + Batch
  <2>1. a + Batch \in Nat
    BY <1>1, <1>2
  <2>2. QED
    BY <1>1, <1>3, <2>1, BelowRank
<1>6. Page(k) = H \ L /\ H \cap L = L
  <2> DEFINE C == [v \in M |-> R(v)]
  <2>1. \A v \in M : R(v) \in Nat
    <3> TAKE v \in M
    <3>1. {w \in M : w < v} \in SUBSET M
      OBVIOUS
    <3>2. QED
      BY <1>1, <3>1, FS_Subset, FS_CardinalityType
  <2>2. \A v \in M : C[v] \in Nat
    BY <2>1
  <2>3. /\ Page(k) = {v \in M : a <= C[v] /\ C[v] < a + Batch}
        /\ L = {v \in M : C[v] < a} /\ H = {v \in M : C[v] < a + Batch}
    BY DEF Page, M, a
  <2> HIDE DEF C, L, H
  <2>4. ASSUME NEW v \in M
        PROVE  /\ a <= C[v] /\ C[v] < a + Batch <=> C[v] < a + Batch /\ ~(C[v] < a)
               /\ C[v] < a => C[v] < a + Batch
    BY <1>1, <1>2, <2>2
  <2>5. QED
    BY <2>3, <2>4, Zenon
<1>7. IsFiniteSet(H)
  <2>1. H \in SUBSET M
    OBVIOUS
  <2> HIDE DEF H
  <2>2. QED
    BY <1>1, <2>1, FS_Subset
<1> HIDE DEF H, L
<1>8. Cardinality(H \ L) = Cardinality(H) - Cardinality(H \cap L)
  BY <1>7, FS_Difference
<1>9. Cardinality(H \ L) = Cardinality(H) - Cardinality(L)
  BY <1>6, <1>8, Zenon
<1>10. Cardinality(H \ L) = Batch
  BY <1>1, <1>2, <1>4, <1>5, <1>9
<1>11. QED
  BY <1>6, <1>10, Zenon

MembersIn(cfgs, id) == {u \in Users : cfgs[u] # NoRow /\ cfgs[u].plan = id}

Rank(cfgs, id, u) == Cardinality({v \in MembersIn(cfgs, id) : v < u})

\* The call k has still to tell u: with its event, or as one of those it synchronises.
\* (If they have come and gone, the next page leaves all of them to silence.)
Announces(k, cfgs, u) ==
    \/ k.pc = "fire" /\ k.user = u
    \/ /\ k.pc = "sync" /\ u \in MembersIn(cfgs, k.plan)
       /\ k.stirred \/ k.offset <= Rank(cfgs, k.plan, u)

ToldOrDue ==
    \A u \in Users \ silent :
        \/ told[u] = Effective(plans, configs[u])
        \/ \E p \in Procs : Announces(task[p], configs, u)

Early == {"compare", "open", "save"}

\* An update starts its synchronisation with the first user; if it is to start none, the
\* terms that it has found are those it is to write.
Fresh(k) ==
    k.pc \in Early =>
        /\ k.offset = 0
        /\ k.pc # "compare" /\ ~k.changed => k.seen = k.row.terms

SavesFresh == \A p \in Procs : Fresh(task[p])

Due == ToldOrDue /\ SavesFresh

\* The call at p goes on, and perhaps a plan changes; whoever is affected is announced by
\* p, or silent.
LEMMA DueAfterPlans ==
  ASSUME ToldOrDue, task \in [Procs -> Task], NEW p \in Procs, NEW k,
         task' = [task EXCEPT ![p] = k], task[p].pc \notin {"sync", "fire"},
         UNCHANGED <<configs, told>>, silent \subseteq silent',
         \A u \in Users \ silent' :
             \/ Effective(plans', configs[u]) = Effective(plans, configs[u])
             \/ Announces(k, configs, u)
  PROVE  ToldOrDue'
<1> SUFFICES ASSUME NEW u \in Users \ silent'
             PROVE  \/ told[u] = Effective(plans', configs[u])
                    \/ \E q \in Procs : Announces(task'[q], configs, u)
  BY DEF ToldOrDue
<1>1. \A q \in Procs : task'[q] = IF q = p THEN k ELSE task[q]
  OBVIOUS
<1>2. CASE Announces(k, configs, u)
  BY <1>1, <1>2
<1>3. CASE Effective(plans', configs[u]) = Effective(plans, configs[u])
  <2>1. CASE told[u] = Effective(plans, configs[u])
    BY <1>3, <2>1
  <2>2. ASSUME NEW q \in Procs, Announces(task[q], configs, u)
        PROVE  \E r \in Procs : Announces(task'[r], configs, u)
    <3>1. q # p
      BY <2>2 DEF Announces
    <3>2. QED
      BY <1>1, <2>2, <3>1
  <2>3. QED
    BY <2>1, <2>2 DEF ToldOrDue
<1>4. QED
  BY <1>2, <1>3

LEMMA DueAfterPage ==
  ASSUME PlansInv, ToldOrDue, NEW p \in Procs, SyncPage(p)
  PROVE  ToldOrDue'
<1> DEFINE k == task[p]
           page == Page(k)
           new == IF Cardinality(page) < Batch THEN Idle ELSE [k EXCEPT !.offset = @ + Batch]
<1>1. /\ k.pc = "sync" /\ task \in [Procs -> Task] /\ k \in Task
      /\ told' = [u \in Users |-> IF u \in page THEN Effective(plans, configs[u]) ELSE told[u]]
      /\ silent' = (silent \ page) \cup (IF k.stirred THEN Members(k.plan) ELSE {})
      /\ task' = [task EXCEPT ![p] = new] /\ UNCHANGED <<plans, configs>>
  BY DEF SyncPage, Goto, PlansInv, Typed
<1>2. \A q \in Procs : task'[q] = IF q = p THEN new ELSE task[q]
  BY <1>1
<1>3. SUFFICES ASSUME NEW u \in Users \ silent'
               PROVE  \/ told'[u] = Effective(plans, configs[u])
                      \/ \E q \in Procs : Announces(task'[q], configs, u)
  BY <1>1 DEF ToldOrDue
<1>4. CASE u \in page
  BY <1>1, <1>4
<1>5. CASE u \notin page
  <2>1. u \notin silent /\ told'[u] = told[u] /\ ~(k.stirred /\ u \in Members(k.plan))
    BY <1>1, <1>3, <1>5
  <2>2. CASE told[u] = Effective(plans, configs[u])
    BY <2>1, <2>2
  <2>3. ASSUME NEW q \in Procs, q # p, Announces(task[q], configs, u)
        PROVE  \E r \in Procs : Announces(task'[r], configs, u)
    BY <1>2, <2>3
  <2>4. ASSUME Announces(k, configs, u) PROVE Announces(new, configs, u)
    <3>1. /\ MembersIn(configs, k.plan) = Members(k.plan)
          /\ Rank(configs, k.plan, u) = Cardinality({v \in Members(k.plan) : v < u})
      BY DEF Rank, MembersIn, Members
    <3>2. u \in Members(k.plan) /\ ~k.stirred /\ k.offset <= Rank(configs, k.plan, u)
      BY <1>1, <2>1, <2>4, <3>1 DEF Announces
    <3>3. Batch \in Nat /\ k.offset \in Nat /\ Rank(configs, k.plan, u) \in Nat
      <4>1. {v \in Members(k.plan) : v < u} \in SUBSET Users
        BY DEF Members
      <4>2. Cardinality({v \in Members(k.plan) : v < u}) \in Nat
        BY <4>1, PlansAssumption, FS_Subset, FS_CardinalityType
      <4>3. QED
        BY <1>1, <3>1, <4>2, PlansAssumption DEF Task
    <3>4. k.offset + Batch <= Rank(configs, k.plan, u)
      <4>1. ~(Rank(configs, k.plan, u) < k.offset + Batch)
        BY <1>5, <3>1, <3>2 DEF Page
      <4>2. QED
        BY <3>3, <4>1
    <3>5. Cardinality(page) = Batch
      BY <1>1, <3>1, <3>2, <3>4, PageIsFull
    <3>6. new = [k EXCEPT !.offset = @ + Batch]
      BY <3>3, <3>5
    <3>7. new.pc = "sync" /\ new.plan = k.plan /\ new.offset = k.offset + Batch
      BY <1>1, <3>6 DEF Task
    <3> HIDE DEF new
    <3>8. QED
      BY <3>1, <3>2, <3>4, <3>7 DEF Announces
  <2>5. QED
    BY <1>2, <2>1, <2>2, <2>3, <2>4 DEF ToldOrDue
<1>6. QED
  BY <1>4, <1>5

LEMMA DueAfterEvent ==
  ASSUME PlansInv, ToldOrDue, NEW p \in Procs, SyncFails(p) \/ FireEvent(p)
  PROVE  ToldOrDue'
<1> DEFINE k == task[p]
<1>1. /\ task \in [Procs -> Task] /\ k \in Task /\ told \in [Users -> Limited]
      /\ task' = [task EXCEPT ![p] = Idle] /\ UNCHANGED <<plans, configs>>
      /\ \A q \in Procs : q # p => task'[q] = task[q]
  BY DEF SyncFails, FireEvent, Goto, PlansInv, Typed
<1>2. SUFFICES ASSUME NEW u \in Users \ silent'
               PROVE  \/ told'[u] = Effective(plans, configs[u])
                      \/ \E q \in Procs : Announces(task'[q], configs, u)
  BY <1>1 DEF ToldOrDue
<1>3. CASE SyncFails(p)
  <2>1. u \notin silent /\ u \notin Members(k.plan) /\ told' = told /\ k.pc = "sync"
    BY <1>2, <1>3 DEF SyncFails
  <2>2. ~Announces(k, configs, u)
    BY <2>1 DEF Announces, Members, MembersIn
  <2>3. QED
    BY <1>1, <2>1, <2>2 DEF ToldOrDue
<1>4. CASE FireEvent(p)
  <2>1. /\ told' = [told EXCEPT ![k.user] = Effective(plans, configs[k.user])]
        /\ silent' = silent \ {k.user} /\ k.pc = "fire"
    BY <1>4 DEF FireEvent
  <2>2. CASE u = k.user
    BY <1>1, <2>1, <2>2
  <2>3. CASE u # k.user
    <3>1. u \notin silent /\ told'[u] = told[u] /\ ~Announces(k, configs, u)
      BY <1>1, <1>2, <2>1, <2>3 DEF Announces
    <3>2. QED
      BY <1>1, <3>1 DEF ToldOrDue
  <2>4. QED
    BY <2>2, <2>3
<1>5. QED
  BY <1>3, <1>4

\* Rows are written: who moves to another plan is silent if a synchronisation counted on
\* finding the user, and the synchronisations that are stirred have all their users due.
LEMMA DueAfterWrite ==
  ASSUME PlansInv, ToldOrDue, NEW p \in Procs, NEW cfgs, NEW next,
         NEW untold, Write(p, cfgs, next, untold), task[p].pc \notin {"sync", "fire"},
         \A u \in Users \ untold : cfgs[u] = configs[u] \/ (next.pc = "fire" /\ next.user = u)
  PROVE  ToldOrDue'
<1> DEFINE PlanIn(c, u) == IF c[u] = NoRow THEN NoRow ELSE c[u].plan
           movers == {u \in Users : PlanIn(cfgs, u) # PlanIn(configs, u)}
           shaken == {PlanIn(configs, u) : u \in movers} \cup {PlanIn(cfgs, u) : u \in movers}
           syncing == {task[q].plan : q \in {r \in Procs : task[r].pc = "sync"}}
           left == {u \in movers : PlanIn(configs, u) \in syncing}
<1>1. /\ configs' = cfgs /\ UNCHANGED <<plans, told>>
      /\ silent' = silent \cup (untold \cap (left \cup Changed))
      /\ task' = [q \in Procs |->
                        IF q = p THEN next
                        ELSE IF task[q].pc = "sync" /\ task[q].plan \in shaken
                             THEN [task[q] EXCEPT !.stirred = TRUE]
                        ELSE task[q]]
  BY Zenon DEF Write
<1>2. task'[p] = next
  BY <1>1
<1>3. ASSUME NEW q \in Procs, q # p
      PROVE  task'[q] = IF task[q].pc = "sync" /\ task[q].plan \in shaken
                        THEN [task[q] EXCEPT !.stirred = TRUE] ELSE task[q]
  BY <1>1, <1>3
<1>4. Changed = {u \in Users : Effective(plans, cfgs[u]) # Effective(plans, configs[u])}
  BY <1>1 DEF Changed
<1>5. SUFFICES ASSUME NEW u \in Users \ silent'
               PROVE  \/ told[u] = Effective(plans, cfgs[u])
                      \/ \E q \in Procs : Announces(task'[q], cfgs, u)
  BY <1>1 DEF ToldOrDue
<1>6. CASE next.pc = "fire" /\ next.user = u
  <2>1. Announces(next, cfgs, u)
    BY <1>6 DEF Announces
  <2>2. QED
    BY <1>2, <2>1
<1>7. CASE ~(next.pc = "fire" /\ next.user = u)
  <2>1. u \notin silent /\ u \notin left /\ Effective(plans, cfgs[u]) = Effective(plans, configs[u])
    <3>1. CASE u \in untold
      BY <1>1, <1>4, <1>5, <3>1
    <3>2. CASE u \notin untold
      <4>1. cfgs[u] = configs[u]
        BY <1>7, <3>2
      <4>2. QED
        BY <1>1, <1>5, <4>1
    <3>3. QED
      BY <3>1, <3>2
  <2>2. CASE told[u] = Effective(plans, configs[u])
    BY <2>1, <2>2
  <2>3. ASSUME NEW q \in Procs, Announces(task[q], configs, u)
        PROVE  Announces(task'[q], cfgs, u)
    <3> DEFINE k == task[q]
    <3>1. q # p /\ k \in Task
      BY <2>3 DEF Announces, PlansInv, Typed
    <3>2. CASE k.pc = "fire"
      <4>1. task'[q] = k
        BY <1>3, <3>1, <3>2
      <4>2. QED
        BY <2>3, <3>2, <4>1 DEF Announces
    <3>3. CASE k.pc # "fire"
      <4>1. /\ k.pc = "sync" /\ u \in MembersIn(configs, k.plan)
            /\ k.stirred \/ k.offset <= Rank(configs, k.plan, u)
        BY <2>3, <3>3 DEF Announces
      <4>2. k.plan \in PlanIds \cup {NoPlan} /\ k.plan # NoRow
        BY <3>1, RowAssumption DEF Task
      <4>3. PlanIn(configs, u) = k.plan
        BY <4>1 DEF MembersIn
      <4>4. u \notin movers
        <5>1. k.plan \in syncing
          BY <4>1
        <5>2. QED
          BY <2>1, <4>3, <5>1
      <4>5. PlanIn(cfgs, u) = k.plan
        BY <4>3, <4>4
      <4>6. u \in MembersIn(cfgs, k.plan)
        BY <4>2, <4>5 DEF MembersIn
      <4>7. CASE k.plan \in shaken
        <5>1. task'[q] = [k EXCEPT !.stirred = TRUE]
          BY <1>3, <3>1, <4>1, <4>7
        <5>2. task'[q].pc = "sync" /\ task'[q].plan = k.plan /\ task'[q].stirred
          BY <3>1, <4>1, <5>1 DEF Task
        <5>3. QED
          BY <4>6, <5>2 DEF Announces
      <4>8. CASE k.plan \notin shaken
        <5>1. task'[q] = k
          BY <1>3, <3>1, <4>8
        <5>2. \A v \in Users : PlanIn(cfgs, v) = k.plan <=> PlanIn(configs, v) = k.plan
          BY <4>8
        <5>3. MembersIn(cfgs, k.plan) = MembersIn(configs, k.plan)
          BY <4>2, <5>2 DEF MembersIn
        <5>4. QED
          BY <4>1, <5>1, <5>3 DEF Announces, Rank
      <4>9. QED
        BY <4>7, <4>8
    <3>4. QED
      BY <3>2, <3>3
  <2>4. QED
    BY <2>1, <2>2, <2>3 DEF ToldOrDue
<1>8. QED
  BY <1>6, <1>7

LEMMA FreshAfter ==
  ASSUME SavesFresh, task \in [Procs -> Task], NEW p \in Procs, NEW k,
         task' = [task EXCEPT ![p] = k], Fresh(k)
  PROVE  SavesFresh'
<1>1. \A q \in Procs : task'[q] = IF q = p THEN k ELSE task[q]
  OBVIOUS
<1>2. QED
  BY <1>1 DEF SavesFresh

LEMMA FreshAfterWrite ==
  ASSUME SavesFresh, task \in [Procs -> Task], NEW p \in Procs, NEW cfgs, NEW next, NEW untold,
         Write(p, cfgs, next, untold), next.pc \notin Early
  PROVE  SavesFresh'
<1>1. task'[p] = next
  BY DEF Write
<1>2. SUFFICES ASSUME NEW q \in Procs PROVE Fresh(task'[q])
  BY DEF SavesFresh
<1>3. CASE q = p
  BY <1>1, <1>3 DEF Fresh
<1>4. CASE q # p
  <2> DEFINE t == task[q]
             stirred == [t EXCEPT !.stirred = TRUE]
  <2>1. task'[q] = t \/ task'[q] = stirred
    BY <1>4 DEF Write
  <2>2. t \in Task /\ Fresh(t)
    BY DEF SavesFresh
  <2>3. /\ stirred.pc = t.pc /\ stirred.offset = t.offset /\ stirred.changed = t.changed
        /\ stirred.seen = t.seen /\ stirred.row = t.row
    BY <2>2 DEF Task
  <2> HIDE DEF t, stirred
  <2>4. QED
    BY <2>1, <2>2, <2>3 DEF Fresh
<1>5. QED
  BY <1>3, <1>4

\* A call goes on and nothing else changes.
LEMMA DueAfterKeep ==
  ASSUME PlansInv, Due, NEW p \in Procs, NEW k, Start(p, k) \/ Goto(p, k), Keep,
         task[p].pc \notin {"sync", "fire"}, Fresh(k)
  PROVE  Due'
<1>1. /\ task' = [task EXCEPT ![p] = k] /\ task \in [Procs -> Task]
      /\ UNCHANGED <<plans, configs, told, silent>>
  BY DEF Start, Goto, Keep, PlansInv, Typed
<1>2. ToldOrDue'
  <2>1. ToldOrDue
    BY DEF Due
  <2>2. UNCHANGED <<configs, told>> /\ silent \subseteq silent'
        /\ \A u \in Users \ silent' : Effective(plans', configs[u]) = Effective(plans, configs[u])
    BY <1>1
  <2>3. QED
    BY <1>1, <2>1, <2>2, DueAfterPlans
<1>3. SavesFresh'
  BY <1>1, FreshAfter DEF Due
<1>4. QED
  BY <1>2, <1>3 DEF Due

LEMMA DueAfterRow ==
  ASSUME PlansInv, Due, NEW p \in Procs, NEW cfgs, NEW next, NEW untold,
         Write(p, cfgs, next, untold), task[p].pc \notin {"sync", "fire"}, next.pc \notin Early,
         \A u \in Users \ untold : cfgs[u] = configs[u] \/ (next.pc = "fire" /\ next.user = u)
  PROVE  Due'
<1>1. task \in [Procs -> Task]
  BY DEF PlansInv, Typed
<1>2. QED
  BY <1>1, DueAfterWrite, FreshAfterWrite DEF Due

LEMMA DueAfterPut ==
  ASSUME PlansInv, Due, NEW p \in Procs, NEW u, NEW config, NEW next, NEW untold,
         Put(p, u, config, next, untold), task[p].pc \notin {"sync", "fire"}, next.pc \notin Early,
         u \in untold \/ (next.pc = "fire" /\ next.user = u)
  PROVE  Due'
<1> DEFINE cfgs == [configs EXCEPT ![u] = config]
<1>1. \A v \in Users : v # u => cfgs[v] = configs[v]
  BY DEF PlansInv, Typed, Configs
<1>2. Write(p, cfgs, next, untold)
  BY DEF Put
<1> HIDE DEF cfgs
<1>3. QED
  BY <1>1, <1>2, DueAfterRow

\* A plan changes: those whose limits change are announced, or known not to be.
LEMMA DueAfterPlan ==
  ASSUME PlansInv, Due, NEW p \in Procs, NEW k, task' = [task EXCEPT ![p] = k],
         task[p].pc \notin {"sync", "fire"}, Fresh(k),
         UNCHANGED <<configs, told>>, NEW untold, Quietly(untold),
         \A u \in Users \ untold :
             \/ Effective(plans', configs[u]) = Effective(plans, configs[u])
             \/ Announces(k, configs, u)
  PROVE  Due'
<1>1. task \in [Procs -> Task]
  BY DEF PlansInv, Typed
<1>2. silent' = silent \cup
          (untold \cap {u \in Users : Effective(plans', configs[u]) # Effective(plans, configs[u])})
  BY DEF Quietly, Changed
<1>3. ToldOrDue'
  <2>1. silent \subseteq silent'
    BY <1>2
  <2>2. \A u \in Users \ silent' :
             \/ Effective(plans', configs[u]) = Effective(plans, configs[u])
             \/ Announces(k, configs, u)
    BY <1>2
  <2>3. QED
    BY <1>1, <2>1, <2>2, DueAfterPlans DEF Due
<1>4. SavesFresh'
  BY <1>1, FreshAfter DEF Due
<1>5. QED
  BY <1>3, <1>4 DEF Due

\* A user on a plan whose row keeps its terms, or without a row, keeps the limits.
LEMMA LimitsStay ==
  ASSUME NEW rows, NEW rows2, NEW config,
         config # NoRow =>
             /\ config.plan # NoPlan
             /\ Live(rows2, config.plan) <=> Live(rows, config.plan)
             /\ Live(rows, config.plan) =>
                   /\ rows2[config.plan].terms = rows[config.plan].terms
                   /\ rows2[config.plan].active <=> rows[config.plan].active
  PROVE  Effective(rows2, config) = Effective(rows, config)
  BY DEF Effective

\* One plan's row is written: users on others keep their limits.
LEMMA OthersStay ==
  ASSUME PlansInv, NEW id \in PlanIds, NEW row, plans' = [plans EXCEPT ![id] = row],
         NEW u \in Users, u \notin Members(id), u \notin Members(NoPlan)
  PROVE  Effective(plans', configs[u]) = Effective(plans, configs[u])
<1>1. configs[u] # NoRow => configs[u].plan # NoPlan /\ configs[u].plan # id
  BY DEF Members
<1>2. configs[u] # NoRow => plans'[configs[u].plan] = plans[configs[u].plan]
  <2>1. configs[u] # NoRow => configs[u].plan \in PlanIds
    BY <1>1 DEF PlansInv, Typed, Configs, ConfigRow
  <2>2. QED
    BY <1>1, <2>1 DEF PlansInv, Typed, Rows
<1>3. configs[u] # NoRow => (Live(plans', configs[u].plan) <=> Live(plans, configs[u].plan))
  BY <1>2 DEF Live
<1>4. QED
  BY <1>1, <1>2, <1>3, LimitsStay

\* A synchronisation that starts has every user of its plan before it.
LEMMA FreshSync ==
  ASSUME NEW k, k.pc = "sync", k.offset = 0, NEW cfgs, NEW u \in MembersIn(cfgs, k.plan)
  PROVE  Announces(k, cfgs, u)
<1>1. Rank(cfgs, k.plan, u) \in Nat
  <2>1. {v \in MembersIn(cfgs, k.plan) : v < u} \in SUBSET Users
    BY DEF MembersIn
  <2>2. QED
    BY <2>1, PlansAssumption, FS_Subset, FS_CardinalityType DEF Rank
<1>2. QED
  BY <1>1 DEF Announces

LEMMA DueAfterSave ==
  ASSUME PlansInv, Due, NEW p \in Procs, SaveUpdate(p)
  PROVE  Due'
<1> DEFINE k == task[p]
<1>1. /\ k \in Task /\ k.pc = "save" /\ k.offset = 0 /\ UNCHANGED <<configs, told>>
      /\ ~k.changed => k.seen = k.row.terms
      /\ TaskFine(plans, configs, k) /\ plans \in Rows
  BY DEF SaveUpdate, PlansInv, Typed, TasksFine, Due, SavesFresh, Fresh, Early
<1>2. Idle.pc = "idle"
  BY DEF Idle
<1>3. CASE OneActiveDefault([plans EXCEPT ![k.plan] = k.row])
  <2>1. /\ task' = [task EXCEPT ![p] = Synced(k)] /\ Quietly(Untold(k))
        /\ plans' = [plans EXCEPT ![k.plan] = k.row]
    BY <1>3 DEF SaveUpdate, Goto
  <2>2. k.changed => Synced(k).pc = "sync" /\ Synced(k).offset = 0 /\ Synced(k).plan = k.plan
    BY <1>1 DEF Synced, Task
  <2>3. ~k.changed => Synced(k) = Idle
    BY DEF Synced
  <2>4. Fresh(Synced(k))
    BY <1>2, <2>2, <2>3 DEF Fresh, Early
  <2>5. k.plan \in PlanIds /\ plans[k.plan].terms \in Terms
    BY <1>1 DEF TaskFine, Rows, PlanRow
  <2>6. ASSUME NEW u \in Users \ Untold(k)
        PROVE  \/ Effective(plans', configs[u]) = Effective(plans, configs[u])
               \/ Announces(Synced(k), configs, u)
    <3>1. u \notin Members(NoPlan)
      BY <2>6 DEF Untold
    <3>2. CASE u \notin Members(k.plan)
      BY <2>1, <2>5, <3>1, <3>2, OthersStay
    <3>3. CASE u \in Members(k.plan)
      <4>1. k.changed
        BY <1>1, <2>5, <2>6, <3>3 DEF Untold
      <4>2. Members(k.plan) = MembersIn(configs, k.plan)
        BY DEF Members, MembersIn
      <4>3. QED
        BY <2>2, <3>3, <4>1, <4>2, FreshSync
    <3>4. QED
      BY <3>2, <3>3
  <2>7. QED
    BY <1>1, <2>1, <2>4, <2>6, DueAfterPlan
<1>4. CASE ~OneActiveDefault([plans EXCEPT ![k.plan] = k.row])
  <2>1. Goto(p, Idle) /\ Keep
    BY <1>4 DEF SaveUpdate, Keep
  <2>2. QED
    BY <1>1, <1>2, <2>1, DueAfterKeep DEF Fresh, Early
<1>5. QED
  BY <1>3, <1>4

\* A change of the default makes no plan and takes none away.
LEMMA CommitKeepsRows ==
  ASSUME PlansInv, NEW p \in Procs, CommitDefault(p)
  PROVE  \A id \in PlanIds : plans'[id] = NoRow <=> plans[id] = NoRow
<1> DEFINE k == task[p]
           old == Outgoing(k.snap)
           leaver == [k.snap[old] EXCEPT !.isDefault = FALSE]
           comer == [k.snap[k.plan] EXCEPT !.isDefault = TRUE]
<1>1. /\ plans \in Rows /\ k.snap \in Rows /\ Live(k.snap, k.plan)
      /\ \A id \in PlanIds : k.snap[id] # NoRow => plans[id] # NoRow
  BY DEF PlansInv, Typed, TasksFine, TaskFine, CommitDefault
<1>2. /\ old # NoPlan => old \in PlanIds /\ k.snap[old] # NoRow
      /\ k.plan \in PlanIds /\ k.snap[k.plan] # NoRow
  BY <1>1, OutgoingIsDefault DEF Live
<1>3. (old # NoPlan => leaver # NoRow) /\ comer # NoRow
  <2>1. (old # NoPlan => k.snap[old] \in PlanRow) /\ k.snap[k.plan] \in PlanRow
    BY <1>1, <1>2 DEF Rows
  <2>2. (old # NoPlan => leaver \in PlanRow) /\ comer \in PlanRow
    BY <2>1 DEF PlanRow
  <2>3. QED
    BY <2>2, RowAssumption
<1>4. \/ plans' = plans
      \/ plans' = [(IF old = NoPlan THEN plans ELSE [plans EXCEPT ![old] = leaver])
                       EXCEPT ![k.plan] = comer]
  BY DEF CommitDefault
<1> HIDE DEF old, leaver, comer
<1>5. CASE old = NoPlan
  BY <1>1, <1>2, <1>3, <1>4, <1>5 DEF Rows
<1>6. CASE old # NoPlan
  BY <1>1, <1>2, <1>3, <1>4, <1>6 DEF Rows
<1>7. QED
  BY <1>5, <1>6

LEMMA DueAfterCommit ==
  ASSUME PlansInv, Due, NEW p \in Procs, CommitDefault(p)
  PROVE  Due'
<1> DEFINE k == task[p]
           new == [Idle EXCEPT !.pc = "sync"]
           untold == UNION {Members(id) : id \in Stale(plans')}
<1>1. k.pc = "commit" /\ UNCHANGED <<configs, told>>
  BY DEF CommitDefault
<1>2. /\ Idle.pc = "idle" /\ new.pc = "sync" /\ new.offset = 0 /\ new.plan = NoPlan
  BY DEF Idle
<1>3. \/ task' = [task EXCEPT ![p] = new] /\ Quietly(untold)
      \/ Goto(p, Idle) /\ Keep
  BY DEF CommitDefault, Goto, Keep
<1>4. plans \in Rows /\ plans' \in Rows /\ configs \in Configs
  BY CommitStep DEF PlansInv, Typed
<1> HIDE DEF new, untold
<1>5. CASE task' = [task EXCEPT ![p] = new] /\ Quietly(untold)
  <2>1. ASSUME NEW u \in Users \ untold
        PROVE  \/ Effective(plans', configs[u]) = Effective(plans, configs[u])
               \/ Announces(new, configs, u)
    <3>1. CASE u \in Members(NoPlan)
      <4>1. Members(NoPlan) = MembersIn(configs, new.plan)
        BY <1>2 DEF Members, MembersIn
      <4>2. QED
        BY <1>2, <3>1, <4>1, FreshSync
    <3>2. CASE u \notin Members(NoPlan)
      <4> DEFINE id == configs[u].plan
      <4>1. SUFFICES ASSUME configs[u] # NoRow
                     PROVE  /\ id # NoPlan
                            /\ Live(plans', id) <=> Live(plans, id)
                            /\ Live(plans, id) =>
                                  /\ plans'[id].terms = plans[id].terms
                                  /\ plans'[id].active <=> plans[id].active
        BY LimitsStay
      <4>2. id # NoPlan /\ u \in Members(id)
        BY <3>2, <4>1 DEF Members
      <4>3. id \in PlanIds
        BY <1>4, <4>1, <4>2 DEF Configs, ConfigRow
      <4> HIDE DEF id
      <4>4. CASE plans[id] = NoRow
        BY <4>2, <4>3, <4>4, CommitKeepsRows DEF Live
      <4>5. CASE plans[id] # NoRow
        <5>1. plans'[id] \in PlanRow /\ plans'[id] # NoRow
          BY <1>4, <4>3, <4>5, CommitKeepsRows DEF Rows
        <5>2. id \notin Stale(plans')
          BY <2>1, <4>2 DEF untold
        <5>3. [plans'[id] EXCEPT !.isDefault = plans[id].isDefault] = plans[id]
          BY <4>3, <4>5, <5>2 DEF Stale
        <5>4. /\ plans'[id].terms = plans[id].terms /\ plans'[id].active = plans[id].active
              /\ plans'[id].deleted = plans[id].deleted
          BY <5>1, <5>3 DEF PlanRow
        <5>5. QED
          BY <4>2, <4>3, <4>5, <5>1, <5>4 DEF Live
      <4>6. QED
        BY <4>4, <4>5
    <3>3. QED
      BY <3>1, <3>2
  <2>2. Fresh(new)
    BY <1>2 DEF Fresh, Early
  <2>3. QED
    BY <1>1, <1>5, <2>1, <2>2, DueAfterPlan
<1>6. CASE Goto(p, Idle) /\ Keep
  BY <1>1, <1>2, <1>6, DueAfterKeep DEF Fresh, Early
<1>7. QED
  BY <1>3, <1>5, <1>6

\* Users without a plan stay with the default, as a new plan is never one.
LEMMA CreateKeepsDefault ==
  ASSUME PlansInv, NEW id \in PlanIds, NEW t \in Terms, NEW active \in BOOLEAN,
         plans[id] = NoRow, plans' = [plans EXCEPT ![id] = NewPlan(t, active)],
         NEW u \in Members(NoPlan)
  PROVE  Effective(plans', configs[u]) = Effective(plans, configs[u])
<1> DEFINE new == NewPlan(t, active)
           found == {d \in PlanIds : Live(plans, d) /\ plans[d].isDefault}
<1>1. plans \in Rows /\ ~new.isDefault
  BY DEF PlansInv, Typed, NewPlan
<1> HIDE DEF new
<1>2. \A d \in PlanIds : plans'[d] = IF d = id THEN new ELSE plans[d]
  BY <1>1 DEF Rows, new
<1>3. {d \in PlanIds : Live(plans', d) /\ plans'[d].isDefault} = found
  BY <1>1, <1>2 DEF Live
<1>4. Default(plans') = Default(plans)
  BY <1>3 DEF Default
<1>5. /\ Live(plans', Default(plans)) <=> Live(plans, Default(plans))
      /\ Live(plans, Default(plans)) => plans'[Default(plans)] = plans[Default(plans)]
  <2>1. found \in SUBSET Nat
    BY PlansAssumption
  <2>2. found # {} => Min(found) \in found
    BY <2>1, MinIsLeast
  <2>3. Default(plans) = NoPlan \/ Live(plans, Default(plans))
    BY <2>2 DEF Default
  <2>4. CASE Default(plans) = NoPlan
    BY <2>4, PlansAssumption DEF Live
  <2>5. CASE Live(plans, Default(plans))
    BY <1>2, <2>5 DEF Live
  <2>6. QED
    BY <2>3, <2>4, <2>5
<1>6. QED
  BY <1>4, <1>5 DEF Effective, Members

LEMMA DueInAdmin ==
  ASSUME PlansInv, Due, NEW p \in Procs, AdminRequest(p)
  PROVE  Due'
<1>1. Idle.pc = "idle" /\ Idle.offset = 0 /\ task[p].pc = "idle"
  BY DEF Idle, AdminRequest, CreateQuotaPlan, BeginUpdate, CountUsers, OpenDefault,
    ResetUserQuotaPlan, UpdateUserQuotaConfig, Start, Ready
<1>2. ASSUME NEW id \in PlanIds, NEW t \in Terms, NEW active \in BOOLEAN,
             CreateQuotaPlan(p, id, t, active)
      PROVE  Due'
  <2>1. /\ task' = [task EXCEPT ![p] = Idle] /\ UNCHANGED <<configs, told>>
        /\ Quietly(Members(id))
        /\ plans[id] = NoRow /\ plans' = [plans EXCEPT ![id] = NewPlan(t, active)]
    BY <1>2 DEF CreateQuotaPlan, Start
  <2>2. ASSUME NEW u \in Users \ Members(id)
        PROVE  Effective(plans', configs[u]) = Effective(plans, configs[u])
    <3>1. CASE u \in Members(NoPlan)
      BY <2>1, <3>1, CreateKeepsDefault
    <3>2. CASE u \notin Members(NoPlan)
      BY <2>1, <3>2, OthersStay
    <3>3. QED
      BY <3>1, <3>2
  <2>3. QED
    BY <1>1, <2>1, <2>2, DueAfterPlan DEF Fresh, Early
<1>3. ASSUME NEW id \in PlanIds, NEW t \in Terms, NEW active \in BOOLEAN,
             BeginUpdate(p, id, t, active)
      PROVE  Due'
  <2> DEFINE new == [Idle EXCEPT !.pc = "compare", !.plan = id, !.row = UpdatedPlan(plans[id], t, active)]
  <2>1. Start(p, new) /\ Keep /\ Fresh(new)
    BY <1>3 DEF BeginUpdate, Idle, Fresh, Early
  <2> HIDE DEF new
  <2>2. QED
    BY <1>1, <2>1, DueAfterKeep
<1>4. ASSUME NEW id \in PlanIds, CountUsers(p, id) PROVE Due'
  <2> DEFINE new == [Idle EXCEPT !.pc = "delete", !.plan = id]
  <2>1. Start(p, new) /\ Keep /\ Fresh(new)
    BY <1>4 DEF CountUsers, Idle, Fresh, Early
  <2> HIDE DEF new
  <2>2. QED
    BY <1>1, <2>1, DueAfterKeep
<1>5. ASSUME NEW id \in PlanIds, OpenDefault(p, id) PROVE Due'
  <2> DEFINE new == [Idle EXCEPT !.pc = "commit", !.plan = id, !.snap = plans]
  <2>1. Start(p, new) /\ Keep /\ Fresh(new)
    BY <1>5 DEF OpenDefault, Idle, Fresh, Early
  <2> HIDE DEF new
  <2>2. QED
    BY <1>1, <2>1, DueAfterKeep
<1>6. \A u : Fire(u).pc = "fire" /\ Fire(u).user = u /\ Fire(u).pc \notin Early
  BY DEF Fire, Idle, Early
<1>7. ASSUME NEW u \in Users, ResetUserQuotaPlan(p, u) PROVE Due'
  BY <1>1, <1>6, <1>7, DueAfterPut DEF ResetUserQuotaPlan
<1>8. ASSUME NEW u \in Users, NEW id \in PlanIds \cup {NoPlan}, NEW own \in Own,
             UpdateUserQuotaConfig(p, u, id, own)
      PROVE  Due'
  BY <1>1, <1>6, <1>8, DueAfterPut DEF UpdateUserQuotaConfig
<1>9. QED
  BY <1>2, <1>3, <1>4, <1>5, <1>7, <1>8 DEF AdminRequest

LEMMA DueInService ==
  ASSUME PlansInv, Due, NEW p \in Procs, ServiceCall(p)
  PROVE  Due'
<1>1. Idle.pc = "idle" /\ Idle.offset = 0 /\ task[p].pc = "idle" /\ Idle.pc \notin Early
  BY DEF Idle, ServiceCall, VerifyPlan, SetQuotaConfig, RemoveUserFromPlan, ReadDefault,
    MakeBareConfig, FindMissing, Start, Ready, Early
<1>2. \A u : Fire(u).pc = "fire" /\ Fire(u).user = u /\ Fire(u).pc \notin Early
  BY DEF Fire, Idle, Early
<1>3. ASSUME NEW u \in Users, NEW id \in PlanIds, VerifyPlan(p, u, id) PROVE Due'
  <2> DEFINE new == [Idle EXCEPT !.pc = "assign", !.plan = id, !.user = u]
  <2>1. Start(p, new) /\ Keep /\ Fresh(new)
    BY <1>3 DEF VerifyPlan, Idle, Fresh, Early
  <2> HIDE DEF new
  <2>2. QED
    BY <1>1, <2>1, DueAfterKeep
<1>4. ASSUME NEW u \in Users, ReadDefault(p, u) PROVE Due'
  <2> DEFINE new == [Idle EXCEPT !.pc = "make", !.plan = Default(plans), !.user = u, !.users = {u}]
  <2>1. Start(p, new) /\ Keep /\ Fresh(new)
    BY <1>4 DEF ReadDefault, Idle, Fresh, Early
  <2> HIDE DEF new
  <2>2. QED
    BY <1>1, <2>1, DueAfterKeep
<1>5. CASE FindMissing(p)
  <2> DEFINE new == [Idle EXCEPT !.pc = "batch", !.users = {u \in Users : configs[u] = NoRow}]
  <2>1. Start(p, new) /\ Keep /\ Fresh(new)
    BY <1>5 DEF FindMissing, Idle, Fresh, Early
  <2> HIDE DEF new
  <2>2. QED
    BY <1>1, <2>1, DueAfterKeep
<1>6. ASSUME NEW u \in Users, NEW id \in PlanIds, NEW own \in Own, SetQuotaConfig(p, u, id, own)
      PROVE  Due'
  BY <1>1, <1>2, <1>6, DueAfterPut DEF SetQuotaConfig
<1>7. ASSUME NEW u \in Users, RemoveUserFromPlan(p, u) PROVE Due'
  BY <1>1, <1>7, DueAfterPut DEF RemoveUserFromPlan
<1>8. ASSUME NEW u \in Users, MakeBareConfig(p, u) PROVE Due'
  BY <1>1, <1>8, DueAfterPut DEF MakeBareConfig
<1>9. QED
  BY <1>3, <1>4, <1>5, <1>6, <1>7, <1>8 DEF ServiceCall

LEMMA DueInStep ==
  ASSUME PlansInv, Due, NEW p \in Procs, Step(p)
  PROVE  Due'
<1> DEFINE k == task[p]
<1>1. /\ k \in Task /\ task \in [Procs -> Task] /\ Idle.pc = "idle" /\ Idle.pc \notin Early
      /\ Fresh(k)
  BY DEF PlansInv, Typed, Idle, Early, Due, SavesFresh
<1>2. Onwards(k).pc \notin Early
  BY DEF Onwards, Idle, Early
<1>3. CASE CompareUpdate(p)
  <2> DEFINE found == plans[k.plan].terms
             differ == LimitsChanged(found, k.row.terms)
             new == [k EXCEPT !.pc = "open", !.seen = found, !.changed = differ]
  <2>1. k.pc = "compare" /\ (Goto(p, new) \/ Goto(p, Idle)) /\ Keep
    BY <1>3 DEF CompareUpdate
  <2>2. /\ k.offset = 0
        /\ new.pc = "open" /\ new.offset = k.offset /\ new.seen = found /\ new.row = k.row
        /\ new.changed = differ
    BY <1>1, <2>1 DEF Task, Fresh, Early
  <2>3. ~differ => found = k.row.terms
    BY DEF LimitsChanged
  <2> HIDE DEF new, differ, found
  <2>4. Fresh(new)
    BY <2>2, <2>3 DEF Fresh
  <2>5. Fresh(Idle)
    BY <1>1 DEF Fresh
  <2>6. QED
    BY <1>1, <2>1, <2>4, <2>5, DueAfterKeep
<1>4. CASE OpenUpdate(p)
  <2> DEFINE row == [k.row EXCEPT !.isDefault = plans[k.plan].isDefault]
             new == [k EXCEPT !.pc = "save", !.row = row]
  <2>1. k.pc = "open" /\ Keep /\ k.row \in PlanRow
        /\ (Goto(p, [k EXCEPT !.pc = "save", !.row.isDefault = plans[k.plan].isDefault]) \/ Goto(p, Idle))
    BY <1>4 DEF OpenUpdate, PlansInv, TasksFine, TaskFine
  <2>2. new = [k EXCEPT !.pc = "save", !.row.isDefault = plans[k.plan].isDefault]
    BY <1>1 DEF Task
  <2>3. row.terms = k.row.terms
    BY <2>1 DEF PlanRow
  <2> HIDE DEF row
  <2>4. /\ new.offset = k.offset /\ new.changed = k.changed /\ new.seen = k.seen
        /\ new.row.terms = k.row.terms
    BY <1>1, <2>3 DEF Task
  <2> HIDE DEF new
  <2>5. Fresh(new) /\ Fresh(Idle)
    BY <1>1, <2>1, <2>4 DEF Fresh, Early
  <2>6. QED
    BY <1>1, <2>1, <2>2, <2>5, DueAfterKeep
<1>5. CASE DeleteQuotaPlan(p)
  <2>1. /\ k.pc = "delete" /\ task' = [task EXCEPT ![p] = Idle] /\ UNCHANGED <<configs, told>>
        /\ plans' = [plans EXCEPT ![k.plan].deleted = TRUE]
        /\ Quietly(Members(k.plan) \cup Members(NoPlan))
    BY <1>5 DEF DeleteQuotaPlan, Goto
  <2>2. k.plan \in PlanIds
    BY <2>1 DEF PlansInv, TasksFine, TaskFine
  <2>3. \A u \in Users \ (Members(k.plan) \cup Members(NoPlan)) :
            Effective(plans', configs[u]) = Effective(plans, configs[u])
    BY <2>1, <2>2, OthersStay
  <2>4. QED
    BY <1>1, <2>1, <2>3, DueAfterPlan DEF Fresh
<1>6. CASE SyncPage(p)
  <2>1. ToldOrDue'
    BY <1>6, DueAfterPage DEF Due
  <2>2. k.pc = "sync" /\ \E new : task' = [task EXCEPT ![p] = new]
                                  /\ (new = Idle \/ new = [k EXCEPT !.offset = @ + Batch])
    BY <1>6 DEF SyncPage, Goto
  <2>3. PICK new : task' = [task EXCEPT ![p] = new]
                  /\ (new = Idle \/ new = [k EXCEPT !.offset = @ + Batch])
    BY <2>2
  <2> DEFINE turned == [k EXCEPT !.offset = @ + Batch]
  <2>4. turned.pc \notin Early
    BY <1>1, <2>2 DEF Task, Early
  <2>5. new.pc \notin Early
    <3> HIDE DEF turned
    <3> QED BY <1>1, <2>3, <2>4 DEF turned
  <2>6. SavesFresh'
    BY <1>1, <2>3, <2>5, FreshAfter DEF Due, Fresh
  <2>7. QED
    BY <2>1, <2>6 DEF Due
<1>7. CASE SyncFails(p) \/ FireEvent(p)
  <2>1. ToldOrDue'
    BY <1>7, DueAfterEvent DEF Due
  <2>2. task' = [task EXCEPT ![p] = Idle]
    BY <1>7 DEF SyncFails, FireEvent, Goto
  <2>3. SavesFresh'
    BY <1>1, <2>2, FreshAfter DEF Due, Fresh
  <2>4. QED
    BY <2>1, <2>3 DEF Due
<1>8. CASE AssignUserToPlan(p)
  BY <1>1, <1>8, DueAfterPut DEF AssignUserToPlan
<1>9. CASE MakeConfig(p)
  BY <1>1, <1>2, <1>9, DueAfterPut DEF MakeConfig
<1>10. CASE InsertBatch(p)
  <2> DEFINE cfgs == [u \in Users |-> IF u \in k.users THEN [plan |-> k.plan, own |-> NoOwn]
                                      ELSE configs[u]]
  <2>1. /\ k.pc = "insert"
        /\ Write(p, cfgs, Idle, k.users) \/ Write(p, configs, Onwards(k), {})
    BY <1>10 DEF InsertBatch
  <2>2. \A u \in Users \ k.users : cfgs[u] = configs[u]
    OBVIOUS
  <2> HIDE DEF cfgs
  <2>3. QED
    BY <1>1, <1>2, <2>1, <2>2, DueAfterRow
<1>11. CASE ReadBatchDefault(p)
  <2> DEFINE new == [k EXCEPT !.pc = "insert", !.plan = Default(plans)]
  <2>1. k.pc = "batch" /\ Goto(p, new) /\ Keep /\ Fresh(new)
    BY <1>1, <1>11 DEF Fresh, ReadBatchDefault, Early, Task
  <2> HIDE DEF new
  <2>2. QED
    BY <1>1, <2>1, DueAfterKeep
<1>12. CASE ReadNextDefault(p)
  <2> DEFINE new == [k EXCEPT !.pc = "make", !.plan = Default(plans)]
  <2>1. k.pc = "each" /\ Goto(p, new) /\ Keep /\ Fresh(new)
    BY <1>1, <1>12 DEF Fresh, ReadNextDefault, Early, Task
  <2> HIDE DEF new
  <2>2. QED
    BY <1>1, <2>1, DueAfterKeep
<1>13. QED
  BY <1>3, <1>4, <1>5, <1>6, <1>7, <1>8, <1>9, <1>10, <1>11, <1>12, DueAfterSave, DueAfterCommit DEF Step

LEMMA DueStep == PlansInv /\ Due /\ [Next]_vars => Due'
<1> SUFFICES ASSUME PlansInv, Due, [Next]_vars PROVE Due'
  OBVIOUS
<1>1. CASE UNCHANGED vars
  BY <1>1, Zenon DEF vars, Due, ToldOrDue, SavesFresh, Fresh
<1>2. QED
  BY <1>1, DueInAdmin, DueInService, DueInStep DEF Next, Stop

LEMMA DueInit == Init => Due
  BY DEF Init, Due, ToldOrDue, SavesFresh, Fresh, Idle, Early

\* Once all announcements are out, users were told of the limits they have, but for the
\* changes that ToldIsCurrent lists.
THEOREM ToldInTheEnd == Spec => []ToldIsCurrent
<1>1. Due => ToldIsCurrent
  BY DEF Due, ToldOrDue, ToldIsCurrent, Announces
<1>2. QED
  BY <1>1, DueInit, DueStep, PlansInvHolds, PTL DEF Spec
===============================================================================
