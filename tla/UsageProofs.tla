------------------------------ MODULE UsageProofs ------------------------------
(***************************************************************************)
(* Proofs about the recording of usage, for any number of goroutines,      *)
(* users and amounts, in this order:                                       *)
(*   - the check of a group of users comes to an end (RoundInv);           *)
(*   - every variable keeps its type (Typed);                              *)
(*   - what a call charges adds up to what it was asked to, but for        *)
(*     rounding (Shares);                                                  *)
(*   - daily totals agree with the usage details (Balance);                *)
(*   - the answer of a group check is right (GroupInv);                    *)
(*   - a health report agrees with the checks (HealthInv).                 *)
(***************************************************************************)
EXTENDS Usage, SumTheorems, TLAPS

Fields == DOMAIN Idle

\* Users that were asked and kept, and those still to be asked, are the group of the
\* round, less those who were dropped.
RoundFine(k) ==
    k.pc = "ask" =>
        /\ k.kept \subseteq Users /\ k.todo \subseteq Users
        /\ k.kept \cap k.todo = {}
        /\ k.count \in Nat \ {0}
        /\ Cardinality(k.kept \cup k.todo) <= k.count

TaskFine(k) == DOMAIN k = Fields /\ RoundFine(k)

RoundInv ==
    /\ DOMAIN task = Procs
    /\ \A p \in Procs : TaskFine(task[p])

\* What GroupShrinks says of the task of one goroutine.
Shrinks(old, new) ==
    old.pc = "ask" /\ new.pc = "ask" /\ new.todo # old.todo =>
        \/ new.count < old.count
        \/ new.count = old.count /\ Cardinality(new.todo) < Cardinality(old.todo)

Progress(tasks) ==
    /\ DOMAIN tasks = Procs
    /\ \A p \in Procs : TaskFine(tasks[p]) /\ Shrinks(task[p], tasks[p])

LEMMA FieldsAre ==
  Fields = {"pc", "type", "share", "todo", "user", "day", "count", "asked", "billed", "lost",
            "group", "kept", "stirred", "answer", "remaining", "unlimited"}
  BY DEF Fields, Idle

LEMMA RoundInvInit == Init => RoundInv
<1>1. DOMAIN Idle = Fields /\ Idle.pc # "ask"
  BY DEF Fields, Idle
<1>2. TaskFine(Idle)
  BY <1>1 DEF TaskFine, RoundFine
<1>3. QED
  BY <1>2 DEF Init, RoundInv

\* One task changes.
LEMMA OneTask ==
  ASSUME RoundInv, NEW p \in Procs, NEW k, TaskFine(k), Shrinks(task[p], k)
  PROVE  Progress([task EXCEPT ![p] = k])
  BY DEF RoundInv, Progress, Shrinks

\* It is not, or no longer, a round of a group check.
LEMMA NoRound ==
  ASSUME RoundInv, NEW p \in Procs, NEW k, DOMAIN k = Fields, k.pc # "ask"
  PROVE  Progress([task EXCEPT ![p] = k])
<1>1. TaskFine(k) /\ Shrinks(task[p], k)
  BY DEF TaskFine, RoundFine, Shrinks
<1>2. QED
  BY <1>1, OneTask

\* To be stirred changes nothing of the rounds.
LEMMA StirFine ==
  ASSUME NEW tasks, Progress(tasks)
  PROVE  Progress(Stir(tasks))
<1>1. DOMAIN Stir(tasks) = Procs
  BY DEF Stir
<1>2. ASSUME NEW p \in Procs
      PROVE  TaskFine(Stir(tasks)[p]) /\ Shrinks(task[p], Stir(tasks)[p])
  <2> DEFINE new == Stir(tasks)[p]
  <2>1. DOMAIN tasks[p] = Fields
    BY DEF Progress, TaskFine
  <2>2. new = tasks[p] \/ new = [tasks[p] EXCEPT !.stirred = TRUE]
    BY DEF Stir
  <2> HIDE DEF new
  <2>3. /\ DOMAIN new = Fields
        /\ new.pc = tasks[p].pc /\ new.todo = tasks[p].todo
        /\ new.kept = tasks[p].kept /\ new.count = tasks[p].count
    BY <2>1, <2>2, FieldsAre
  <2>4. QED
    BY <2>3 DEF Progress, TaskFine, RoundFine, Shrinks, new
<1>3. QED
  BY <1>1, <1>2 DEF Progress

\* A round begins.
LEMMA RoundBegins ==
  ASSUME NEW k, DOMAIN k = Fields, NEW users \in SUBSET Users, users # {}
  PROVE  /\ TaskFine(Round(k, users))
         /\ Round(k, users).pc = "ask" /\ Round(k, users).todo = users
         /\ Round(k, users).count = Cardinality(users)
<1> DEFINE new == Round(k, users)
<1>1. /\ DOMAIN new = Fields
      /\ new.pc = "ask" /\ new.todo = users /\ new.kept = {} /\ new.count = Cardinality(users)
  BY FieldsAre DEF Round
<1>2. IsFiniteSet(users)
  BY UsageAssumption, FS_Subset
<1>3. Cardinality(users) \in Nat \ {0}
  BY <1>2, FS_CardinalityType, FS_EmptySet
<1> HIDE DEF new
<1>4. TaskFine(new)
  <2>1. new.kept \cup new.todo = users /\ new.kept \cap new.todo = {}
    BY <1>1
  <2>2. Cardinality(new.kept \cup new.todo) <= new.count /\ new.count \in Nat \ {0}
    BY <1>1, <1>3, <2>1
  <2>3. QED
    BY <1>1, <2>1, <2>2 DEF TaskFine, RoundFine
<1>5. QED
  BY <1>1, <1>4 DEF new

LEMMA AskUserStep ==
  ASSUME RoundInv, NEW p \in Procs, NEW u \in Users, AskUser(p, u)
  PROVE  Progress(task')
<1> DEFINE k == task[p]
           new == task'[p]
<1>1. /\ DOMAIN k = Fields /\ RoundFine(k) /\ k.pc = "ask" /\ u \in k.todo
      /\ DOMAIN task = Procs
  BY DEF AskUser, RoundInv, TaskFine
<1>2. PICK kept \in {k.kept, k.kept \cup {u}} :
        \/ task' = [task EXCEPT ![p] = Answer(k, "error")]
        \/ task' = [task EXCEPT ![p] = [k EXCEPT !.todo = @ \ {u}, !.kept = kept]]
  BY DEF AskUser
<1>3. CASE task' = [task EXCEPT ![p] = Answer(k, "error")]
  <2>1. DOMAIN Answer(k, "error") = Fields /\ Answer(k, "error").pc # "ask"
    BY <1>1, FieldsAre DEF Answer
  <2>2. QED
    BY <1>3, <2>1, NoRound
<1>4. CASE task' = [task EXCEPT ![p] = [k EXCEPT !.todo = @ \ {u}, !.kept = kept]]
  <2> DEFINE asked == [k EXCEPT !.todo = @ \ {u}, !.kept = kept]
  <2>1. /\ DOMAIN asked = Fields /\ asked.pc = "ask"
        /\ asked.todo = k.todo \ {u} /\ asked.kept = kept /\ asked.count = k.count
    BY <1>1, FieldsAre
  <2> HIDE DEF asked
  <2>2. /\ k.kept \subseteq Users /\ k.todo \subseteq Users /\ k.kept \cap k.todo = {}
        /\ k.count \in Nat \ {0} /\ Cardinality(k.kept \cup k.todo) <= k.count
    BY <1>1 DEF RoundFine
  <2>3. IsFiniteSet(k.todo) /\ IsFiniteSet(k.kept \cup k.todo)
    <3>1. k.kept \cup k.todo \subseteq Users
      BY <2>2
    <3>2. QED
      BY <2>2, <3>1, UsageAssumption, FS_Subset
  <2>4. Cardinality(asked.todo) < Cardinality(k.todo)
    <3>1. Cardinality(k.todo \ {u}) = Cardinality(k.todo) - 1 /\ Cardinality(k.todo) \in Nat
      BY <1>1, <2>3, FS_RemoveElement, FS_CardinalityType
    <3>2. QED
      BY <2>1, <3>1
  <2>5. Cardinality(asked.kept \cup asked.todo) <= asked.count
    <3>1. asked.kept \cup asked.todo \subseteq k.kept \cup k.todo
      BY <1>1, <1>2, <2>1
    <3>2. /\ IsFiniteSet(asked.kept \cup asked.todo)
          /\ Cardinality(asked.kept \cup asked.todo) <= Cardinality(k.kept \cup k.todo)
      BY <2>3, <3>1, FS_Subset
    <3>3. Cardinality(asked.kept \cup asked.todo) \in Nat /\ Cardinality(k.kept \cup k.todo) \in Nat
      BY <2>3, <3>2, FS_CardinalityType
    <3>4. QED
      BY <2>1, <2>2, <3>2, <3>3
  <2>6. TaskFine(asked)
    <3>1. asked.kept \subseteq Users /\ asked.todo \subseteq Users /\ asked.kept \cap asked.todo = {}
      BY <1>1, <1>2, <2>1, <2>2
    <3>2. QED
      BY <2>1, <2>2, <2>5, <3>1 DEF TaskFine, RoundFine
  <2>7. Shrinks(k, asked)
    BY <2>1, <2>4 DEF Shrinks
  <2>8. QED
    BY <1>4, <2>6, <2>7, OneTask DEF asked
<1>5. QED
  BY <1>2, <1>3, <1>4

\* What a round comes to.
LEMMA RoundEnds ==
  ASSUME RoundInv, NEW p \in Procs, NextRound(p)
  PROVE  LET k == task[p] IN
         /\ k.pc = "ask" /\ k.todo = {}
         /\ \/ k.kept = {} /\ task' = [task EXCEPT ![p] = Answer(k, "no")]
            \/ /\ k.kept # {} /\ Cardinality(k.kept) = k.count
               /\ task' = [task EXCEPT ![p] = Answer(k, "yes")]
            \/ /\ k.kept # {} /\ Cardinality(k.kept) # k.count
               /\ task' = [task EXCEPT ![p] = Round(k, k.kept)]
<1> DEFINE k == task[p]
<1>1. k.pc = "ask" /\ k.todo = {} /\ RoundFine(k)
  BY DEF NextRound, RoundInv, TaskFine
<1>2. task' = [task EXCEPT ![p] = CASE k.kept = {} -> Answer(k, "no")
                                    [] Cardinality(k.kept) = k.count -> Answer(k, "yes")
                                    [] OTHER -> Round(k, k.kept)]
  BY DEF NextRound
<1>3. CASE k.kept = {}
  <2>1. Cardinality(k.kept) # k.count
    BY <1>1, <1>3, FS_EmptySet DEF RoundFine
  <2>2. task' = [task EXCEPT ![p] = Answer(k, "no")]
    BY <1>2, <1>3, <2>1
  <2>3. QED
    BY <1>1, <1>3, <2>2
<1>4. CASE k.kept # {} /\ Cardinality(k.kept) = k.count
  BY <1>1, <1>2, <1>4
<1>5. CASE k.kept # {} /\ Cardinality(k.kept) # k.count
  BY <1>1, <1>2, <1>5
<1>6. QED
  BY <1>3, <1>4, <1>5

LEMMA NextRoundStep ==
  ASSUME RoundInv, NEW p \in Procs, NextRound(p)
  PROVE  Progress(task')
<1> DEFINE k == task[p]
<1>1. DOMAIN k = Fields /\ RoundFine(k) /\ k.pc = "ask" /\ k.todo = {} /\ DOMAIN task = Procs
  BY DEF NextRound, RoundInv, TaskFine
<1>2. CASE \E answer \in {"no", "yes"} : task' = [task EXCEPT ![p] = Answer(k, answer)]
  <2>1. PICK answer \in {"no", "yes"} : task' = [task EXCEPT ![p] = Answer(k, answer)]
    BY <1>2
  <2>2. DOMAIN Answer(k, answer) = Fields /\ Answer(k, answer).pc # "ask"
    BY <1>1, FieldsAre DEF Answer
  <2>3. QED
    BY <2>1, <2>2, NoRound
<1>3. CASE k.kept # {} /\ Cardinality(k.kept) # k.count /\ task' = [task EXCEPT ![p] = Round(k, k.kept)]
  <2>1. k.kept \in SUBSET Users /\ k.count \in Nat /\ Cardinality(k.kept) <= k.count
    <3>1. k.kept \cup k.todo = k.kept
      BY <1>1
    <3>2. QED
      BY <1>1, <3>1 DEF RoundFine
  <2>2. Cardinality(k.kept) \in Nat
    BY <2>1, UsageAssumption, FS_Subset, FS_CardinalityType
  <2>3. TaskFine(Round(k, k.kept)) /\ Round(k, k.kept).count < k.count
    <3>1. TaskFine(Round(k, k.kept)) /\ Round(k, k.kept).count = Cardinality(k.kept)
      BY <1>1, <1>3, <2>1, RoundBegins
    <3>2. QED
      BY <1>3, <2>1, <2>2, <3>1
  <2>4. Shrinks(k, Round(k, k.kept))
    BY <2>3 DEF Shrinks
  <2>5. QED
    BY <1>3, <2>3, <2>4, OneTask
<1>4. QED
  BY <1>2, <1>3, RoundEnds

\* Steps of recordings.
LEMMA RecordStep ==
  ASSUME RoundInv, NEW p \in Procs, Record(p)
  PROVE  Progress(task')
<1>1. DOMAIN task[p] = Fields
  BY DEF RoundInv, TaskFine
<1>2. ASSUME NEW u \in Users, CreateDetail(p, u) PROVE Progress(task')
  <2> DEFINE new == [task[p] EXCEPT !.pc = "daily", !.user = u, !.todo = @ \ {u},
                                    !.billed = @ + task[p].share]
  <2>1. task' = Stir([task EXCEPT ![p] = new])
    BY <1>2 DEF CreateDetail
  <2>2. DOMAIN new = Fields /\ new.pc # "ask"
    BY <1>1, FieldsAre
  <2> HIDE DEF new
  <2>3. QED
    BY <2>1, <2>2, NoRound, StirFine
<1>3. ASSUME NEW u \in Users, DetailFails(p, u) PROVE Progress(task')
  <2> DEFINE k == [task[p] EXCEPT !.todo = @ \ {u}, !.lost = @ + task[p].share]
             new == [k EXCEPT !.pc = Onwards(k)]
  <2>1. task' = [task EXCEPT ![p] = new]
    BY <1>3 DEF DetailFails
  <2>2. DOMAIN k = Fields
    BY <1>1
  <2>3. Onwards(k) # "ask"
    BY DEF Onwards
  <2> HIDE DEF k
  <2>4. DOMAIN new = Fields /\ new.pc # "ask"
    BY <2>2, <2>3, FieldsAre
  <2> HIDE DEF new
  <2>5. QED
    BY <2>1, <2>4, NoRound
<1>4. ASSUME Charged(p) PROVE Progress(task')
  <2> DEFINE new == [task[p] EXCEPT !.pc = Onwards(task[p]), !.user = Idle.user, !.day = 0]
  <2>1. task' = [task EXCEPT ![p] = new]
    BY <1>4 DEF Charged
  <2>2. Onwards(task[p]) # "ask"
    BY DEF Onwards
  <2>3. DOMAIN new = Fields /\ new.pc # "ask"
    BY <1>1, <2>2, FieldsAre
  <2> HIDE DEF new
  <2>4. QED
    BY <2>1, <2>3, NoRound
<1>5. ASSUME UpsertInsert(p) PROVE Progress(task')
  <2> DEFINE new == [task[p] EXCEPT !.pc = "update", !.day = Today]
  <2>1. task' = [task EXCEPT ![p] = new]
    BY <1>5 DEF UpsertInsert, RoundInv
  <2>2. DOMAIN new = Fields /\ new.pc # "ask"
    BY <1>1, FieldsAre
  <2> HIDE DEF new
  <2>3. QED
    BY <2>1, <2>2, NoRound
<1>6. QED
  BY <1>2, <1>3, <1>4, <1>5 DEF Record, UpsertMySQL, UpsertUpdate, DailyFails

\* Steps of health reports, and the end of any call.
LEMMA HealthStep ==
  ASSUME RoundInv, NEW p \in Procs, ReportHealth(p) \/ Return(p)
  PROVE  Progress(task')
<1>1. DOMAIN task[p] = Fields /\ DOMAIN Idle = Fields /\ Idle.pc = "idle"
  BY DEF RoundInv, TaskFine, Fields, Idle
<1>2. ASSUME NEW S \in SUBSET Users, NEW u \in Users, ReadWindows(p, S, u)
      PROVE  \E k : DOMAIN k = Fields /\ k.pc # "ask" /\ task' = [task EXCEPT ![p] = k]
  <2> DEFINE k == task[p]
  <2>1. k.pc = "health"
    BY <1>2 DEF ReadWindows
  <2>2. PICK n : \/ task' = [task EXCEPT ![p] = Answer(k, "error")]
                 \/ task' = [task EXCEPT ![p] = [k EXCEPT !.todo = @ \ S, !.remaining = n]]
    BY <1>2 DEF ReadWindows
  <2>3. DOMAIN Answer(k, "error") = Fields /\ Answer(k, "error").pc # "ask"
    BY <1>1, FieldsAre DEF Answer
  <2>4. /\ DOMAIN [k EXCEPT !.todo = @ \ S, !.remaining = n] = Fields
        /\ [k EXCEPT !.todo = @ \ S, !.remaining = n].pc # "ask"
    BY <1>1, <2>1, FieldsAre
  <2>5. QED
    BY <2>2, <2>3, <2>4
<1>3. ASSUME ReadGrants(p)
      PROVE  \E k : DOMAIN k = Fields /\ k.pc # "ask" /\ task' = [task EXCEPT ![p] = k]
  <2>1. PICK n : task' = [task EXCEPT ![p] = Answer([task[p] EXCEPT !.remaining = n], "healthy")]
    BY <1>3 DEF ReadGrants
  <2> DEFINE k == [task[p] EXCEPT !.remaining = n]
  <2>2. DOMAIN k = Fields
    BY <1>1
  <2> HIDE DEF k
  <2>3. DOMAIN Answer(k, "healthy") = Fields /\ Answer(k, "healthy").pc # "ask"
    BY <2>2, FieldsAre DEF Answer
  <2>4. QED
    BY <2>1, <2>3 DEF k
<1>4. ASSUME Return(p) PROVE Progress(task')
  <2>1. task' = [task EXCEPT ![p] = Idle]
    BY <1>4 DEF Return
  <2>2. QED
    BY <1>1, <2>1, NoRound
<1>5. QED
  BY <1>2, <1>3, <1>4, NoRound DEF ReportHealth

\* The beginning of a call.
LEMMA CallStep ==
  ASSUME RoundInv, NEW p \in Procs, Call(p)
  PROVE  Progress(task')
<1>1. DOMAIN Idle = Fields /\ Idle.pc = "idle"
  BY DEF Fields, Idle
<1>2. ASSUME NEW type, NEW share, NEW users, NEW bytes, Begin(p, type, share, users, bytes)
      PROVE  Progress(task')
  <2> DEFINE new == [Idle EXCEPT !.pc = "detail", !.type = type, !.share = share, !.todo = users,
                                 !.count = Cardinality(users), !.asked = bytes]
  <2>1. task' = [task EXCEPT ![p] = new]
    BY <1>2 DEF Begin
  <2>2. DOMAIN new = Fields /\ new.pc # "ask"
    BY DEF Fields, Idle
  <2> HIDE DEF new
  <2>3. QED
    BY <2>1, <2>2, NoRound
<1>3. ASSUME NEW S \in SUBSET Users, NEW t, NEW n, CheckGroup(p, t, S, n) PROVE Progress(task')
  <2> DEFINE k == [Idle EXCEPT !.type = t, !.asked = n, !.group = S]
  <2>1. task' = [task EXCEPT ![p] = Round(k, S)] /\ task[p].pc # "ask" /\ S # {}
    BY <1>3 DEF CheckGroup, IsFree
  <2>2. DOMAIN k = Fields
    BY <1>1
  <2> HIDE DEF k
  <2>3. TaskFine(Round(k, S))
    BY <2>1, <2>2, RoundBegins
  <2>4. Shrinks(task[p], Round(k, S))
    BY <2>1 DEF Shrinks
  <2>5. QED
    BY <2>1, <2>3, <2>4, OneTask
<1>4. ASSUME NEW S \in SUBSET Users, NEW stranger \in BOOLEAN, CheckHealth(p, S, stranger)
      PROVE  Progress(task')
  <2> DEFINE new == [Idle EXCEPT !.pc = "health", !.group = S, !.todo = Windowed(S),
                                 !.unlimited = Counted(S, {"UNLIMITED"}) # {}]
  <2>1. \/ task' = [task EXCEPT ![p] = Answer(Idle, "unauthorized")]
        \/ task' = [task EXCEPT ![p] = new]
    BY <1>4 DEF CheckHealth
  <2>2. DOMAIN Answer(Idle, "unauthorized") = Fields /\ Answer(Idle, "unauthorized").pc # "ask"
    BY FieldsAre DEF Answer, Fields, Idle
  <2>3. DOMAIN new = Fields /\ new.pc # "ask"
    BY FieldsAre DEF Fields, Idle
  <2> HIDE DEF new
  <2>4. QED
    BY <2>1, <2>2, <2>3, NoRound
<1>5. QED
  BY <1>2, <1>3, <1>4
     DEF Call, RecordFor, RecordUpload, RecordDownload, RecordAnonymousDownload, PinningUsers,
         RecordStorageChange, HandleStorageObjectPinned, HandleStorageObjectUnpinned

LEMMA NextProgress == RoundInv /\ [Next]_vars => Progress(task')
<1> SUFFICES ASSUME RoundInv, [Next]_vars PROVE Progress(task')
  OBVIOUS
<1>1. Progress(task)
  BY DEF RoundInv, Progress, Shrinks
<1>2. ASSUME NEW p \in Procs, Call(p) PROVE Progress(task')
  BY <1>2, CallStep
<1>3. ASSUME NEW p \in Procs, Record(p) PROVE Progress(task')
  BY <1>3, RecordStep
<1>4. ASSUME NEW p \in Procs, AskGroup(p) PROVE Progress(task')
  BY <1>4, AskUserStep, NextRoundStep DEF AskGroup
<1>5. ASSUME NEW p \in Procs, ReportHealth(p) \/ Return(p) PROVE Progress(task')
  BY <1>5, HealthStep
<1>6. ASSUME Tick \/ \E days \in Retentions : HandleCleanup(days) PROVE Progress(task')
  <2>1. task' = Stir(task)
    BY <1>6 DEF Tick, HandleCleanup, CleanupOldRecords
  <2>2. QED
    BY <1>1, <2>1, StirFine
<1>7. CASE UNCHANGED vars
  BY <1>1, <1>7 DEF vars
<1>8. QED
  BY <1>2, <1>3, <1>4, <1>5, <1>6, <1>7 DEF Next

LEMMA RoundInvStep == RoundInv /\ [Next]_vars => RoundInv'
  BY NextProgress DEF Progress, RoundInv

\* Rounds of group checks, whatever goes on.
THEOREM RoundInvHolds == Spec => []RoundInv
  BY RoundInvInit, RoundInvStep, PTL DEF Spec

-----------------------------------------------------------------------------
\* A group check comes to an end: each of its steps leaves fewer users in the group, or
\* the same group with fewer to ask, however many goroutines record, wait or clean up.
THEOREM GroupComesToAnEnd == Spec => GroupShrinks
<1>1. RoundInv /\ [Next]_vars =>
        \A p \in Procs :
            LET k == task[p] IN
            k.pc = "ask" /\ task'[p].pc = "ask" /\ task'[p].todo # k.todo =>
                \/ task'[p].count < k.count
                \/ task'[p].count = k.count /\ Cardinality(task'[p].todo) < Cardinality(k.todo)
  BY NextProgress DEF Progress, Shrinks
<1>2. QED
  BY <1>1, RoundInvHolds, PTL DEF Spec, GroupShrinks

-----------------------------------------------------------------------------
(* Types.                                                                  *)

Recording == {"detail", "daily", "update", "done"}
Places == Recording \cup {"idle", "ask", "health", "answered"}
Answers == {"", "error", "no", "yes", "unauthorized", "healthy"}
Rows == [Columns -> Nat]

Task == [pc : Places, type : UsageTypes \cup {""}, share : Nat, todo : SUBSET Users,
         user : Users \cup {0}, day : Days \cup {0}, count : Nat, asked : Nat, billed : Nat,
         lost : Nat, group : SUBSET Users, kept : SUBSET Users, stirred : BOOLEAN,
         answer : Answers, remaining : Nat, unlimited : BOOLEAN]

\* What the fields hold where they are looked at.
Placed(k) ==
    /\ k.pc \in Recording => k.type \in UsageTypes
    /\ k.pc \in {"daily", "update"} => k.user \in Users
    /\ k.pc = "update" => k.day \in Days
    /\ k.kept \subseteq k.group
    /\ k.pc = "ask" => k.type \in Types /\ k.todo \subseteq k.group
    /\ k.pc = "health" => k.todo \subseteq Windowed(k.group)

Typed ==
    /\ now \in Moments
    /\ <<dialect, accounts>> \in Deployments
    /\ recorded \in [Users -> [UsageTypes -> [Moments -> Nat]]]
    /\ cleaned \in [Users -> [UsageTypes -> Nat]]
    /\ daily \in [Users -> [Days -> Rows \cup {NoRow}]]
    /\ missed \in [Users -> [UsageTypes -> Nat]]
    /\ calls \in 0..MaxCalls
    /\ failures \in 0..MaxFailures
    /\ task \in [Procs -> Task]
    /\ \A p \in Procs : Placed(task[p])
    /\ \A p \in Procs : task[p].pc = "update" => daily[task[p].user][task[p].day] # NoRow

LEMMA TaskFields ==
  ASSUME NEW k \in Task
  PROVE  DOMAIN k = Fields
  BY FieldsAre DEF Task

LEMMA IdleTyped == Idle \in Task /\ Placed(Idle) /\ Idle.pc = "idle"
  BY DEF Idle, Task, Placed, Places, Recording, Answers

LEMMA DaysFinite == IsFiniteSet(Days) /\ Days \in SUBSET Int
<1>1. \A h \in Moments : Day(h) \in Int
  BY UsageAssumption, CalendarAssumption DEF Day
<1>2. IsFiniteSet(Days)
  <2> DEFINE f == [h \in Moments |-> Day(h)]
  <2>1. f \in [Moments -> Days] /\ \A d \in Days : \E h \in Moments : f[h] = d
    BY DEF Days
  <2>2. f \in Surjection(Moments, Days)
    BY <2>1, Zenon DEF Surjection
  <2> HIDE DEF f
  <2>3. QED
    BY <2>2, FiniteAssumption, FS_Surjection
<1>3. QED
  BY <1>1, <1>2 DEF Days

LEMMA AccountsAre ==
  ASSUME Typed, NEW u \in Users
  PROVE  /\ accounts[u].policy \in EnforcementPolicies
         /\ accounts[u].left \in [Types -> 0..MaxUint]
         /\ accounts[u].limits # Unresolved =>
                \A t \in Types : accounts[u].limits[t].bytes \in 0..MaxUint
<1>1. <<dialect, accounts>> \in Deployments
  BY DEF Typed
<1>2. PICK d \in Deployments : d = <<dialect, accounts>>
  BY <1>1
<1>3. d[2] = accounts
  BY <1>2
<1>4. /\ d[2][u].policy \in EnforcementPolicies
      /\ d[2][u].limits = Unresolved \/ \A t \in Types : d[2][u].limits[t].bytes \in 0..MaxUint
      /\ d[2][u].left \in [Types -> 0..MaxUint]
  BY UsageAssumption
<1>5. QED
  BY <1>3, <1>4

LEMMA MaxUintIs == MaxUint \in Nat /\ MaxInt < MaxUint
  BY UsageAssumption DEF MaxUint

LEMMA NumbersAre ==
  /\ MaxCalls \in Nat /\ MaxFailures \in Nat /\ Precision \in Nat
  /\ Moments \subseteq Nat /\ Retentions \subseteq Nat /\ Amounts \subseteq Nat \ {0}
  /\ MaxInt \in Nat \ {0} /\ Redundancy \in Nat \ {0} /\ MaxSharedWith \in Nat \ {0}
  BY UsageAssumption

LEMMA DivIsNat ==
  ASSUME NEW a \in Nat, NEW d \in Nat \ {0}
  PROVE  /\ a \div d \in Nat /\ a % d \in 0..(d - 1)
         /\ a = (a \div d) * d + (a % d)
<1>1. a \div d \in Int /\ a % d \in 0..(d - 1) /\ a = (a \div d) * d + (a % d)
  OBVIOUS
<1>2. a \div d >= 0
  OBVIOUS
<1>3. QED
  BY <1>1, <1>2

\* A value of a function of functions changes.
LEMMA Changed2 ==
  ASSUME NEW S, NEW T, NEW V, NEW f \in [S -> [T -> V]], NEW s \in S, NEW x \in T, NEW n \in V
  PROVE  [f EXCEPT ![s][x] = n] \in [S -> [T -> V]]
  OBVIOUS

LEMMA Changed3 ==
  ASSUME NEW R, NEW S, NEW T, NEW V, NEW f \in [R -> [S -> [T -> V]]],
         NEW r \in R, NEW s \in S, NEW x \in T, NEW n \in V
  PROVE  [f EXCEPT ![r][s][x] = n] \in [R -> [S -> [T -> V]]]
<1>1. [f[r] EXCEPT ![s][x] = n] \in [S -> [T -> V]]
  BY Changed2
<1>2. [f EXCEPT ![r] = [f[r] EXCEPT ![s][x] = n]] \in [R -> [S -> [T -> V]]]
  BY <1>1
<1>3. QED
  BY <1>2

\* One task changes, and perhaps all of them are stirred; rows of daily totals stay rows.
LEMMA TypedAfter ==
  ASSUME Typed, NEW p \in Procs, NEW k \in Task, Placed(k),
         task' = [task EXCEPT ![p] = k] \/ task' = Stir([task EXCEPT ![p] = k]),
         UNCHANGED <<dialect, accounts>>,
         now' \in Moments,
         recorded' \in [Users -> [UsageTypes -> [Moments -> Nat]]],
         cleaned' \in [Users -> [UsageTypes -> Nat]],
         missed' \in [Users -> [UsageTypes -> Nat]],
         daily' \in [Users -> [Days -> Rows \cup {NoRow}]],
         \A u \in Users, d \in Days : daily[u][d] # NoRow => daily'[u][d] # NoRow,
         k.pc = "update" => daily'[k.user][k.day] # NoRow,
         calls' \in 0..MaxCalls, failures' \in 0..MaxFailures
  PROVE  Typed'
<1> DEFINE mid == [task EXCEPT ![p] = k]
<1>1. /\ task \in [Procs -> Task]
      /\ \A q \in Procs : Placed(task[q])
      /\ \A q \in Procs : task[q].pc = "update" => daily[task[q].user][task[q].day] # NoRow
  BY DEF Typed
<1>2. /\ mid \in [Procs -> Task]
      /\ \A q \in Procs : Placed(mid[q])
      /\ \A q \in Procs : mid[q].pc = "update" => daily'[mid[q].user][mid[q].day] # NoRow
  <2>1. mid \in [Procs -> Task] /\ \A q \in Procs : mid[q] = IF q = p THEN k ELSE task[q]
    BY <1>1
  <2> HIDE DEF mid
  <2>2. ASSUME NEW q \in Procs PROVE Placed(mid[q])
    BY <1>1, <2>1
  <2>3. ASSUME NEW q \in Procs, mid[q].pc = "update"
        PROVE  daily'[mid[q].user][mid[q].day] # NoRow
    <3>1. CASE q = p
      BY <2>1, <2>3, <3>1
    <3>2. CASE q # p
      <4>1. task[q].user \in Users /\ task[q].day \in Days
        BY <1>1, <2>1, <2>3, <3>2 DEF Placed
      <4>2. QED
        BY <1>1, <2>1, <2>3, <3>2, <4>1
    <3>3. QED
      BY <3>1, <3>2
  <2>4. QED
    BY <2>1, <2>2, <2>3
<1> HIDE DEF mid
<1>3. /\ task' \in [Procs -> Task]
      /\ \A q \in Procs : Placed(task'[q])
      /\ \A q \in Procs : task'[q].pc = "update" => daily'[task'[q].user][task'[q].day] # NoRow
  <2>1. CASE task' = mid
    BY <1>2, <2>1
  <2>2. CASE task' = Stir(mid)
    <3>1. ASSUME NEW q \in Procs
          PROVE  /\ task'[q] \in Task /\ Placed(task'[q])
                 /\ task'[q].pc = mid[q].pc /\ task'[q].user = mid[q].user
                 /\ task'[q].day = mid[q].day
      <4> DEFINE j == mid[q]
                 stirred == [j EXCEPT !.stirred = TRUE]
      <4>1. j \in Task /\ Placed(j)
        BY <1>2
      <4>2. stirred \in Task
        BY <4>1 DEF Task
      <4>3. /\ stirred.pc = j.pc /\ stirred.user = j.user /\ stirred.day = j.day
            /\ stirred.type = j.type /\ stirred.kept = j.kept /\ stirred.group = j.group
            /\ stirred.todo = j.todo
        BY <4>1 DEF Task
      <4>4. task'[q] = j \/ task'[q] = stirred
        BY <2>2 DEF Stir
      <4> HIDE DEF stirred, j
      <4>5. Placed(stirred)
        BY <4>1, <4>3 DEF Placed
      <4>6. QED
        BY <4>1, <4>2, <4>3, <4>4, <4>5 DEF j
    <3>2. task' = [q \in Procs |-> task'[q]]
      BY <1>2, <2>2 DEF Stir
    <3>3. task' \in [Procs -> Task]
      BY <3>1, <3>2
    <3>4. QED
      BY <1>2, <3>1, <3>3
  <2>3. QED
    BY <2>1, <2>2 DEF mid
<1>4. ASSUME NEW q \in Procs PROVE Placed(task[q])'
  <2> DEFINE g == task[q].group
  <2>1. Windowed(g)' = Windowed(g')
    BY Zenon DEF Windowed, Counted, Resolved, Excluded
  <2>2. Placed(task'[q])
    BY <1>3
  <2>3. QED
    BY <2>1, <2>2, Zenon DEF Placed
<1>5. QED
  BY <1>3, <1>4 DEF Typed

LEMMA SharedIsNat ==
  ASSUME NEW b \in Nat, NEW n \in Nat
  PROVE  CalculateSharedBytes(b, n) \in Nat
<1>1. n # 0 => b \div n \in Nat
  BY DivIsNat
<1>2. QED
  BY <1>1 DEF CalculateSharedBytes

LEMMA RowAdded ==
  ASSUME NEW k \in Task
  PROVE  /\ ColumnOf(k.type) \in Columns
         /\ Zeros \in Rows /\ FirstRow(k) \in Rows
         /\ \A row \in Rows : AddTo(row, k) \in Rows
<1>1. ColumnOf(k.type) \in Columns
  BY DEF ColumnOf, Columns
<1>2. k.share \in Nat
  BY DEF Task
<1>3. Zeros \in Rows
  BY DEF Zeros, Rows
<1>4. ASSUME NEW row \in Rows PROVE AddTo(row, k) \in Rows
  <2> DEFINE c == ColumnOf(k.type)
             n == IF k.type # "STORAGE_REMOVE" THEN row[c] + k.share
                  ELSE IF row[c] < k.share THEN 0 ELSE row[c] - k.share
  <2>1. row[c] \in Nat
    BY <1>1 DEF Rows
  <2>2. n \in Nat
    BY <1>2, <2>1
  <2>3. AddTo(row, k) = [row EXCEPT ![c] = n]
    BY <1>1 DEF AddTo, Rows
  <2> HIDE DEF n, c
  <2>4. QED
    BY <2>2, <2>3 DEF Rows
<1>5. QED
  BY <1>1, <1>3, <1>4 DEF FirstRow

\* Steps that change one task only.
LEMMA OnlyTask ==
  ASSUME Typed, NEW p \in Procs, NEW k \in Task, Placed(k), k.pc # "update",
         task' = [task EXCEPT ![p] = k],
         UNCHANGED <<now, dialect, accounts, recorded, cleaned, daily, missed>>,
         calls' \in 0..MaxCalls, failures' \in 0..MaxFailures
  PROVE  Typed'
  BY TypedAfter DEF Typed

\* What a call begins with.
LEMMA BeginTyped ==
  ASSUME Typed, NEW p \in Procs, NEW type \in UsageTypes, NEW share \in Nat,
         NEW users \in SUBSET Users, NEW bytes \in Nat, Begin(p, type, share, users, bytes)
  PROVE  Typed'
<1> DEFINE new == [Idle EXCEPT !.pc = "detail", !.type = type, !.share = share, !.todo = users,
                               !.count = Cardinality(users), !.asked = bytes]
<1>1. Cardinality(users) \in Nat
  BY UsageAssumption, FS_Subset, FS_CardinalityType
<1>2. new \in Task /\ Placed(new) /\ new.pc = "detail"
  BY <1>1 DEF Idle, Task, Placed, Places, Recording, Answers
<1>3. /\ task' = [task EXCEPT ![p] = new]
      /\ UNCHANGED <<now, dialect, accounts, recorded, cleaned, daily, missed, failures>>
      /\ calls < MaxCalls /\ calls' = calls + 1
  BY DEF Begin
<1> HIDE DEF new
<1>4. calls' \in 0..MaxCalls
  BY <1>3, NumbersAre DEF Typed
<1>5. failures' \in 0..MaxFailures
  BY <1>3 DEF Typed
<1>6. new.pc # "update"
  BY <1>2
<1>7. QED
  BY <1>2, <1>3, <1>4, <1>5, <1>6, OnlyTask


LEMMA FailsTyped ==
  ASSUME Typed, Fails
  PROVE  failures' \in 0..MaxFailures
  BY NumbersAre DEF Typed, Fails

LEMMA CallsTyped ==
  ASSUME Typed, calls < MaxCalls, calls' = calls + 1
  PROVE  calls' \in 0..MaxCalls
  BY NumbersAre DEF Typed

LEMMA SizesAre ==
  ASSUME NEW o \in Objects
  PROVE  AtMost(Magnitude(AsInt64(StorageSizeToRecord(o[1], o[2]))), MaxInt) \in Nat
         /\ AtMost(Magnitude(AsInt64(-AsInt64(StorageSizeToRecord(o[1], o[2])))), MaxInt) \in Nat
<1>1. o \in (Nat \ {0}) \X ((Nat \X Nat) \cup {NoSlab})
  BY UsageAssumption
<1>2. PICK size \in Nat, slab \in (Nat \X Nat) \cup {NoSlab} : o[1] = size /\ o[2] = slab
  BY <1>1
<1>3. StorageSizeToRecord(size, slab) \in Nat
  <2>1. CASE slab = NoSlab
    BY <2>1, NumbersAre DEF StorageSizeToRecord, AtMost
  <2>2. CASE slab # NoSlab
    <3>1. PICK m \in Nat, n \in Nat : slab[1] = m /\ slab[2] = n
      BY <1>2, <2>2
    <3>2. CalculateScaledSize(size, m, n) \in Nat
      <4>1. CASE m = 0 \/ n = 0
        BY <4>1 DEF CalculateScaledSize
      <4>2. CASE m # 0 /\ n # 0
        <5>1. PICK a \in Nat, b \in Nat \ {0} : a = size * n /\ b = m * Redundancy
          BY <4>2, NumbersAre
        <5>2. CalculateScaledSize(size, m, n) = a \div b
          BY <4>2, <5>1 DEF CalculateScaledSize
        <5>3. QED
          BY <5>1, <5>2, DivIsNat
      <4>3. QED
        BY <4>1, <4>2
    <3>3. QED
      BY <2>2, <3>1, <3>2 DEF StorageSizeToRecord
  <2>3. QED
    BY <2>1, <2>2
<1>4. \A n \in Int : AsInt64(n) \in Int
  BY NumbersAre DEF AsInt64
<1>5. \A n \in Int : AtMost(Magnitude(n), MaxInt) \in Nat /\ -n \in Int
  BY NumbersAre DEF AtMost, Magnitude
<1>6. PICK x \in Int : x = AsInt64(StorageSizeToRecord(size, slab))
  BY <1>3, <1>4
<1>7. QED
  BY <1>2, <1>4, <1>5, <1>6

\* A round begins with its users to ask.
LEMMA RoundTyped ==
  ASSUME NEW k \in Task, NEW S \in SUBSET Users
  PROVE  LET new == Round(k, S) IN
         /\ new \in Task /\ new.pc = "ask" /\ new.todo = S /\ new.kept = {}
         /\ new.group = k.group /\ new.type = k.type
<1>1. k.asked \in Nat
  BY DEF Task
<1>2. PICK count \in Nat, share \in Nat :
        count = Cardinality(S) /\ share = CalculateSharedBytes(k.asked, count)
  BY <1>1, SharedIsNat, UsageAssumption, FS_Subset, FS_CardinalityType
<1> DEFINE new == [k EXCEPT !.pc = "ask", !.todo = S, !.kept = {}, !.count = count, !.share = share]
<1>3. Round(k, S) = new
  BY <1>2 DEF Round
<1>4. PICK none \in SUBSET Users, ask \in Places : none = {} /\ ask = "ask"
  BY DEF Places
<1>5. new = [k EXCEPT !.pc = ask, !.todo = S, !.kept = none, !.count = count, !.share = share]
  BY <1>4
<1>6. new \in Task
  BY <1>5, ZenonT(60) DEF Task
<1>7. /\ new.pc = "ask" /\ new.todo = S /\ new.kept = {}
      /\ new.group = k.group /\ new.type = k.type
  BY DEF Task
<1> HIDE DEF new
<1>8. QED
  BY <1>3, <1>6, <1>7

LEMMA CallTyped ==
  ASSUME Typed, NEW p \in Procs, Call(p)
  PROVE  Typed'
<1>1. {"UPLOAD", "DOWNLOAD", "STORAGE_ADD", "STORAGE_REMOVE"} = UsageTypes
  BY UsageAssumption DEF UsageTypes
<1>2. ASSUME NEW u \in Users, NEW n \in Amounts, RecordUpload(p, u, n) \/ RecordDownload(p, u, n)
      PROVE  Typed'
  <2>1. n \in Nat /\ {u} \in SUBSET Users
    BY NumbersAre
  <2>2. QED
    BY <1>1, <1>2, <2>1, BeginTyped DEF RecordUpload, RecordDownload
<1>3. ASSUME NEW S \in SUBSET Users, NEW n \in Amounts, RecordAnonymousDownload(p, S, n)
      PROVE  Typed'
  <2>1. n \in Nat /\ Cardinality(S) \in Nat
    BY NumbersAre, UsageAssumption, FS_Subset, FS_CardinalityType
  <2>2. PICK share \in Nat : share = CalculateSharedBytes(n, Cardinality(S))
    BY <2>1, SharedIsNat
  <2>3. Begin(p, "DOWNLOAD", share, S, n)
    BY <1>3, <2>2 DEF RecordAnonymousDownload
  <2>4. QED
    BY <1>1, <2>1, <2>2, <2>3, BeginTyped
<1>4. ASSUME NEW u \in Users, NEW n, AtMost(Magnitude(n), MaxInt) \in Nat, RecordStorageChange(p, u, n)
      PROVE  Typed'
  <2>1. PICK bytes \in Nat : bytes = AtMost(Magnitude(n), MaxInt)
    BY <1>4
  <2>2. Begin(p, IF n < 0 THEN "STORAGE_REMOVE" ELSE "STORAGE_ADD", bytes, {u}, bytes)
    BY <1>4, <2>1 DEF RecordStorageChange
  <2>3. PICK type \in UsageTypes : type = IF n < 0 THEN "STORAGE_REMOVE" ELSE "STORAGE_ADD"
    BY <1>1
  <2>4. {u} \in SUBSET Users
    OBVIOUS
  <2>5. QED
    BY <2>1, <2>2, <2>3, <2>4, BeginTyped
<1>5. ASSUME NEW u \in Users, NEW o \in Objects,
             HandleStorageObjectPinned(p, u, o[1], o[2]) \/ HandleStorageObjectUnpinned(p, u, o[1], o[2])
      PROVE  Typed'
  BY <1>4, <1>5, SizesAre DEF HandleStorageObjectPinned, HandleStorageObjectUnpinned
<1>6. ASSUME NEW S \in SUBSET Users, NEW r \in Requests, CheckGroup(p, r[1], S, r[2]) PROVE Typed'
  <2>1. PICK t \in Types, n \in Nat : r[1] = t /\ r[2] = n
    BY UsageAssumption
  <2> DEFINE k == [Idle EXCEPT !.type = t, !.asked = n, !.group = S]
             new == Round(k, S)
  <2>2. k \in Task /\ k.group = S /\ k.type = t
    BY <2>1 DEF Idle, Task, Places, Recording, Answers, UsageTypes
  <2>3. task' = [task EXCEPT ![p] = new] /\ calls < MaxCalls /\ calls' = calls + 1
        /\ UNCHANGED <<now, dialect, accounts, recorded, cleaned, daily, missed, failures>>
    BY <1>6, <2>1 DEF CheckGroup
  <2> HIDE DEF k
  <2>4. /\ new \in Task /\ new.pc = "ask" /\ new.todo = S /\ new.kept = {}
        /\ new.group = S /\ new.type = t
    BY <2>2, RoundTyped
  <2> HIDE DEF new
  <2>5. Placed(new)
    BY <2>4 DEF Placed, Recording
  <2>6. calls' \in 0..MaxCalls /\ failures' \in 0..MaxFailures
    BY <2>3, CallsTyped DEF Typed
  <2>7. QED
    BY <2>3, <2>4, <2>5, <2>6, OnlyTask
<1>7. ASSUME NEW S \in SUBSET Users, NEW stranger \in BOOLEAN, CheckHealth(p, S, stranger)
      PROVE  Typed'
  <2> DEFINE new == [Idle EXCEPT !.pc = "health", !.group = S, !.todo = Windowed(S),
                                 !.unlimited = Counted(S, {"UNLIMITED"}) # {}]
             other == Answer(Idle, "unauthorized")
  <2>1. /\ task' = [task EXCEPT ![p] = new] \/ task' = [task EXCEPT ![p] = other]
        /\ calls < MaxCalls /\ calls' = calls + 1
        /\ UNCHANGED <<now, dialect, accounts, recorded, cleaned, daily, missed, failures>>
    BY <1>7 DEF CheckHealth
  <2>2. Windowed(S) \in SUBSET Users
    BY DEF Windowed, Counted
  <2>3. new \in Task /\ new.pc = "health" /\ new.todo = Windowed(S) /\ new.group = S /\ new.kept = {}
    BY <2>2 DEF Idle, Task, Places, Recording, Answers
  <2>4. other \in Task /\ other.pc = "answered" /\ other.kept = {}
    BY DEF Answer, Idle, Task, Places, Recording, Answers
  <2> HIDE DEF new, other
  <2>5. Placed(new) /\ Placed(other)
    BY <2>3, <2>4 DEF Placed, Recording
  <2>6. calls' \in 0..MaxCalls /\ failures' \in 0..MaxFailures
    BY <2>1, CallsTyped DEF Typed
  <2>7. QED
    BY <2>1, <2>3, <2>4, <2>5, <2>6, OnlyTask
<1>8. QED
  BY <1>2, <1>3, <1>5, <1>6, <1>7 DEF Call, RecordFor, PinningUsers

LEMMA DetailsTyped ==
  ASSUME Typed, NEW p \in Procs, NEW u \in Users, CreateDetail(p, u) \/ DetailFails(p, u)
  PROVE  Typed'
<1> DEFINE k == task[p]
<1>1. k \in Task /\ Placed(k) /\ k.pc = "detail" /\ k.type \in UsageTypes
  BY DEF Typed, CreateDetail, DetailFails, Placed, Recording
<1>2. k.kept \subseteq k.group
  BY <1>1 DEF Placed
<1>3. k.share \in Nat /\ k.lost \in Nat /\ k.billed \in Nat /\ k.todo \in SUBSET Users
  BY <1>1 DEF Task
<1>4. PICK billed \in Nat, lost \in Nat, todo \in SUBSET Users :
        billed = k.billed + k.share /\ lost = k.lost + k.share /\ todo = k.todo \ {u}
  <2>1. k.billed + k.share \in Nat /\ k.lost + k.share \in Nat
    BY <1>3
  <2>2. k.todo \ {u} \in SUBSET Users
    BY <1>3
  <2>3. QED
    BY <2>1, <2>2
<1>5. CASE CreateDetail(p, u)
  <2> DEFINE new == [k EXCEPT !.pc = "daily", !.user = u, !.todo = todo, !.billed = billed]
  <2>1. /\ task' = Stir([task EXCEPT ![p] = new])
        /\ recorded' = [recorded EXCEPT ![u][k.type][now] = recorded[u][k.type][now] + k.share]
        /\ UNCHANGED <<now, dialect, accounts, cleaned, daily, missed, calls, failures>>
    BY <1>5, <1>4 DEF CreateDetail
  <2>2. new \in Task
    BY <1>1 DEF Task, Places, Recording
  <2>3. new.pc = "daily" /\ new.user = u /\ new.type = k.type /\ new.kept = k.kept /\ new.group = k.group
    BY <1>1 DEF Task
  <2> HIDE DEF new
  <2>4. Placed(new)
    BY <1>1, <1>2, <2>3 DEF Placed, Recording
  <2>5. recorded[u][k.type][now] + k.share \in Nat
    <3>1. recorded \in [Users -> [UsageTypes -> [Moments -> Nat]]] /\ now \in Moments
      BY DEF Typed
    <3>2. recorded[u][k.type][now] \in Nat
      BY <1>1, <3>1
    <3>3. QED
      BY <1>3, <3>2
  <2>6. recorded' \in [Users -> [UsageTypes -> [Moments -> Nat]]]
    <3>1. recorded \in [Users -> [UsageTypes -> [Moments -> Nat]]] /\ now \in Moments
      BY DEF Typed
    <3>2. PICK n \in Nat : n = recorded[u][k.type][now] + k.share
      BY <2>5
    <3>3. recorded' = [recorded EXCEPT ![u][k.type][now] = n]
      BY <2>1, <3>2
    <3>4. QED
      BY <1>1, <3>1, <3>3, Changed3
  <2>7. new.pc # "update"
    BY <2>3
  <2>8. QED
    BY <2>1, <2>2, <2>4, <2>6, <2>7, TypedAfter DEF Typed
<1>6. CASE DetailFails(p, u)
  <2> DEFINE mid == [k EXCEPT !.todo = todo, !.lost = lost]
             new == [mid EXCEPT !.pc = Onwards(mid)]
  <2>1. /\ task' = [task EXCEPT ![p] = new]
        /\ UNCHANGED <<now, dialect, accounts, recorded, cleaned, daily, missed, calls>>
        /\ Fails \/ UNCHANGED failures
    BY <1>6, <1>4 DEF DetailFails
  <2>2. mid \in Task /\ mid.type = k.type /\ mid.kept = k.kept /\ mid.group = k.group
    BY <1>1 DEF Task
  <2> HIDE DEF mid
  <2>3. PICK pc \in {"done", "detail"} : new = [mid EXCEPT !.pc = pc]
    BY DEF Onwards
  <2>4. /\ new \in Task /\ new.pc = pc /\ new.type = k.type /\ new.kept = k.kept
        /\ new.group = k.group
    BY <2>2, <2>3 DEF Task, Places, Recording
  <2> HIDE DEF new
  <2>5. Placed(new)
    BY <1>1, <1>2, <2>4 DEF Placed, Recording
  <2>6. failures' \in 0..MaxFailures /\ calls' \in 0..MaxCalls
    BY <2>1, FailsTyped DEF Typed
  <2>7. new.pc # "update"
    BY <2>4
  <2>8. QED
    BY <2>1, <2>4, <2>5, <2>6, <2>7, OnlyTask
<1>7. QED
  BY <1>5, <1>6

\* A row is written, or a failure is noted, and it is the next user's turn.
LEMMA ChargedTyped ==
  ASSUME Typed, NEW p \in Procs, task[p].pc \in {"daily", "update"}, Charged(p),
         UNCHANGED <<now, dialect, accounts, recorded, cleaned, calls>>,
         missed' \in [Users -> [UsageTypes -> Nat]],
         daily' \in [Users -> [Days -> Rows \cup {NoRow}]],
         \A u \in Users, d \in Days : daily[u][d] # NoRow => daily'[u][d] # NoRow,
         failures' \in 0..MaxFailures
  PROVE  Typed'
<1> DEFINE k == task[p]
           new == [k EXCEPT !.pc = Onwards(k), !.user = Idle.user, !.day = 0]
<1>1. k \in Task /\ Placed(k) /\ k.type \in UsageTypes /\ k.kept \subseteq k.group
  BY DEF Typed, Placed, Recording
<1>2. task' = [task EXCEPT ![p] = new]
  BY DEF Charged
<1>3. Idle.user = 0
  BY DEF Idle
<1>4. PICK pc \in {"done", "detail"} : new = [k EXCEPT !.pc = pc, !.user = 0, !.day = 0]
  BY <1>3 DEF Onwards
<1>5. new \in Task /\ new.pc = pc /\ new.type = k.type /\ new.kept = k.kept /\ new.group = k.group
  BY <1>1, <1>4 DEF Task, Places, Recording
<1> HIDE DEF new
<1>6. Placed(new)
  BY <1>1, <1>5 DEF Placed, Recording
<1>7. new.pc # "update"
  BY <1>5
<1>8. QED
  BY <1>2, <1>5, <1>6, <1>7, TypedAfter DEF Typed

\* One row of daily totals is written.
LEMMA RowWritten ==
  ASSUME Typed, NEW u \in Users, NEW d \in Days, NEW row \in Rows,
         daily' = [daily EXCEPT ![u][d] = row]
  PROVE  /\ daily' \in [Users -> [Days -> Rows \cup {NoRow}]]
         /\ daily'[u][d] # NoRow
         /\ \A v \in Users, e \in Days : daily[v][e] # NoRow => daily'[v][e] # NoRow
<1>1. daily \in [Users -> [Days -> Rows \cup {NoRow}]]
  BY DEF Typed
<1>2. row # NoRow
  BY UsageAssumption DEF Rows
<1>3. row \in Rows \cup {NoRow}
  OBVIOUS
<1>4. daily' \in [Users -> [Days -> Rows \cup {NoRow}]]
  BY <1>1, <1>3, Changed2
<1>5. \A v \in Users, e \in Days : daily'[v][e] = IF v = u /\ e = d THEN row ELSE daily[v][e]
  BY <1>1
<1>6. QED
  BY <1>2, <1>4, <1>5

LEMMA RowOrNone ==
  ASSUME Typed, NEW u \in Users, NEW d \in Days, daily[u][d] # NoRow
  PROVE  daily[u][d] \in Rows
  BY DEF Typed

LEMMA TodayIs == ASSUME Typed PROVE Today \in Days
  BY DEF Typed, Today, Days

LEMMA UpsertTyped ==
  ASSUME Typed, NEW p \in Procs,
         UpsertMySQL(p) \/ UpsertInsert(p) \/ UpsertUpdate(p) \/ DailyFails(p)
  PROVE  Typed'
<1> DEFINE k == task[p]
<1>1. /\ k \in Task /\ Placed(k) /\ k.pc \in {"daily", "update"}
      /\ k.user \in Users /\ k.type \in UsageTypes
      /\ k.pc = "update" => k.day \in Days /\ daily[k.user][k.day] # NoRow
  <2>1. k \in Task /\ Placed(k) /\ k.pc \in {"daily", "update"}
    BY DEF Typed, UpsertMySQL, UpsertInsert, UpsertUpdate, DailyFails
  <2>2. QED
    BY <2>1 DEF Typed, Placed, Recording
<1>2. failures \in 0..MaxFailures /\ calls \in 0..MaxCalls
  BY DEF Typed
<1>3. CASE UpsertMySQL(p)
  <2>1. PICK row \in Rows : daily' = [daily EXCEPT ![k.user][Today] = row]
    BY <1>1, <1>3, RowAdded, RowOrNone, TodayIs DEF UpsertMySQL
  <2>2. /\ Charged(p)
        /\ UNCHANGED <<now, dialect, accounts, recorded, cleaned, missed, calls, failures>>
    BY <1>3 DEF UpsertMySQL
  <2>3. missed' \in [Users -> [UsageTypes -> Nat]]
    BY <2>2 DEF Typed
  <2>4. QED
    BY <1>1, <1>2, <2>1, <2>2, <2>3, RowWritten, TodayIs, ChargedTyped
<1>4. CASE UpsertInsert(p)
  <2> DEFINE new == [k EXCEPT !.pc = "update", !.day = Today]
  <2>1. PICK row \in Rows : daily' = [daily EXCEPT ![k.user][Today] = row]
    <3>1. Zeros \in Rows
      BY <1>1, RowAdded
    <3>2. daily' = [daily EXCEPT ![k.user][Today] =
                        IF daily[k.user][Today] = NoRow THEN Zeros ELSE daily[k.user][Today]]
      BY <1>4 DEF UpsertInsert
    <3>3. QED
      BY <1>1, <3>1, <3>2, RowOrNone, TodayIs
  <2>2. UNCHANGED <<now, dialect, accounts, recorded, cleaned, missed, calls, failures>>
    BY <1>4 DEF UpsertInsert
  <2>3. task' = [task EXCEPT ![p] = new]
    <3>1. task' = [task EXCEPT ![p].pc = "update", ![p].day = Today]
      BY <1>4 DEF UpsertInsert
    <3>2. task \in [Procs -> Task]
      BY DEF Typed
    <3>3. QED
      BY <3>1, <3>2
  <2>4. /\ new \in Task /\ new.pc = "update" /\ new.user = k.user /\ new.day = Today
        /\ new.type = k.type /\ new.kept = k.kept /\ new.group = k.group
    BY <1>1, TodayIs DEF Task, Places, Recording
  <2> HIDE DEF new
  <2>5. Placed(new)
    BY <1>1, <2>4, TodayIs DEF Placed, Recording
  <2>6. /\ daily' \in [Users -> [Days -> Rows \cup {NoRow}]]
        /\ daily'[new.user][new.day] # NoRow
        /\ \A v \in Users, e \in Days : daily[v][e] # NoRow => daily'[v][e] # NoRow
    BY <1>1, <2>1, <2>4, RowWritten, TodayIs
  <2>7. QED
    BY <2>2, <2>3, <2>4, <2>5, <2>6, TypedAfter DEF Typed
<1>5. CASE UpsertUpdate(p)
  <2>1. k.pc = "update"
    BY <1>5 DEF UpsertUpdate
  <2>2. PICK row \in Rows : daily' = [daily EXCEPT ![k.user][k.day] = row]
    <3>1. daily' = [daily EXCEPT ![k.user][k.day] = AddTo(daily[k.user][k.day], k)]
      BY <1>5 DEF UpsertUpdate
    <3>2. QED
      BY <1>1, <2>1, <3>1, RowAdded, RowOrNone
  <2>3. /\ Charged(p)
        /\ UNCHANGED <<now, dialect, accounts, recorded, cleaned, missed, calls, failures>>
    BY <1>5 DEF UpsertUpdate
  <2>4. missed' \in [Users -> [UsageTypes -> Nat]]
    BY <2>3 DEF Typed
  <2>5. QED
    BY <1>1, <1>2, <2>1, <2>2, <2>3, <2>4, RowWritten, ChargedTyped
<1>6. CASE DailyFails(p)
  <2>1. /\ missed' = [missed EXCEPT ![k.user][k.type] = missed[k.user][k.type] + k.share]
        /\ Charged(p) /\ Fails
        /\ UNCHANGED <<now, dialect, accounts, recorded, cleaned, daily, calls>>
    BY <1>6 DEF DailyFails
  <2>2. missed[k.user][k.type] + k.share \in Nat
    <3>1. missed[k.user][k.type] \in Nat
      BY <1>1 DEF Typed
    <3>2. k.share \in Nat
      BY <1>1 DEF Task
    <3>3. QED
      BY <3>1, <3>2
  <2>3. missed' \in [Users -> [UsageTypes -> Nat]]
    BY <1>1, <2>1, <2>2, Changed2 DEF Typed
  <2>4. daily' = daily /\ daily \in [Users -> [Days -> Rows \cup {NoRow}]]
    BY <2>1 DEF Typed
  <2>5. QED
    BY <1>1, <2>1, <2>3, <2>4, FailsTyped, ChargedTyped
<1>7. QED
  BY <1>3, <1>4, <1>5, <1>6

LEMMA AnswerTyped ==
  ASSUME NEW k \in Task, Placed(k), NEW answer \in Answers
  PROVE  /\ Answer(k, answer) \in Task /\ Placed(Answer(k, answer))
         /\ Answer(k, answer).pc = "answered" /\ Answer(k, answer).answer = answer
         /\ \A field \in Fields \ {"pc", "answer"} : Answer(k, answer)[field] = k[field]
<1> DEFINE new == [k EXCEPT !.pc = "answered", !.answer = answer]
<1>1. Answer(k, answer) = new
  BY DEF Answer
<1>2. new \in Task /\ new.pc = "answered" /\ new.kept = k.kept /\ new.group = k.group
      /\ new.answer = answer
  BY DEF Task, Places
<1>3. \A field \in Fields \ {"pc", "answer"} : new[field] = k[field]
  BY FieldsAre DEF Task
<1> HIDE DEF new
<1>4. Placed(new)
  BY <1>2 DEF Placed, Recording
<1>5. QED
  BY <1>1, <1>2, <1>3, <1>4

LEMMA AskGroupTyped ==
  ASSUME Typed, RoundInv, NEW p \in Procs, AskGroup(p)
  PROVE  Typed'
<1> DEFINE k == task[p]
<1>1. /\ k \in Task /\ Placed(k) /\ k.pc = "ask"
      /\ k.type \in Types /\ k.todo \subseteq k.group /\ k.kept \subseteq k.group
      /\ k.group \subseteq Users
  <2>1. k \in Task /\ Placed(k) /\ k.pc = "ask"
    BY DEF Typed, AskGroup, AskUser, NextRound
  <2>2. QED
    BY <2>1 DEF Placed, Task
<1>2. /\ UNCHANGED <<now, dialect, accounts, recorded, cleaned, daily, missed, calls, failures>>
      /\ failures' \in 0..MaxFailures /\ calls' \in 0..MaxCalls
  BY DEF AskGroup, AskUser, NextRound, Typed
<1>3. ASSUME NEW answer \in Answers, task' = [task EXCEPT ![p] = Answer(k, answer)]
      PROVE  Typed'
  BY <1>1, <1>2, <1>3, AnswerTyped, OnlyTask
<1>4. ASSUME NEW u \in Users, AskUser(p, u) PROVE Typed'
  <2>1. u \in k.todo
    BY <1>4 DEF AskUser
  <2>2. PICK todo \in SUBSET k.group, kept \in SUBSET k.group :
          \/ task' = [task EXCEPT ![p] = Answer(k, "error")]
          \/ task' = [task EXCEPT ![p] = [k EXCEPT !.todo = todo, !.kept = kept]]
    <3>1. k.todo \ {u} \in SUBSET k.group /\ k.kept \cup {u} \in SUBSET k.group
          /\ k.kept \in SUBSET k.group
      BY <1>1, <2>1
    <3>2. PICK kept \in SUBSET k.group :
            \/ task' = [task EXCEPT ![p] = Answer(k, "error")]
            \/ task' = [task EXCEPT ![p] = [k EXCEPT !.todo = k.todo \ {u}, !.kept = kept]]
      BY <1>4, <3>1 DEF AskUser
    <3>3. QED
      BY <3>1, <3>2
  <2> DEFINE new == [k EXCEPT !.todo = todo, !.kept = kept]
  <2>3. /\ new \in Task /\ new.pc = "ask" /\ new.type = k.type /\ new.group = k.group
        /\ new.todo = todo /\ new.kept = kept
    BY <1>1 DEF Task
  <2>4. task' = [task EXCEPT ![p] = Answer(k, "error")] \/ task' = [task EXCEPT ![p] = new]
    BY <2>2
  <2> HIDE DEF new
  <2>5. Placed(new) /\ new.pc # "update"
    BY <1>1, <2>3 DEF Placed, Recording
  <2>6. "error" \in Answers
    BY DEF Answers
  <2>7. QED
    BY <1>2, <1>3, <2>3, <2>4, <2>5, <2>6, OnlyTask
<1>5. ASSUME NextRound(p) PROVE Typed'
  <2> DEFINE new == Round(k, k.kept)
  <2>1. \/ task' = [task EXCEPT ![p] = Answer(k, "no")]
        \/ task' = [task EXCEPT ![p] = Answer(k, "yes")]
        \/ task' = [task EXCEPT ![p] = new]
    BY <1>5, RoundEnds
  <2>2. k.kept \in SUBSET Users /\ k.asked \in Nat
    <3>1. k.asked \in Nat
      BY <1>1 DEF Task
    <3>2. QED
      BY <1>1, <3>1
  <2>3. /\ new \in Task /\ new.pc = "ask" /\ new.type = k.type /\ new.group = k.group
        /\ new.todo = k.kept /\ new.kept = {}
    BY <1>1, <2>2, RoundTyped
  <2>4. "no" \in Answers /\ "yes" \in Answers
    BY DEF Answers
  <2> HIDE DEF new
  <2>5. Placed(new) /\ new.pc # "update"
    BY <1>1, <2>3 DEF Placed, Recording
  <2>6. QED
    BY <1>2, <1>3, <2>1, <2>3, <2>4, <2>5, OnlyTask
<1>6. QED
  BY <1>4, <1>5 DEF AskGroup

\* The usage in a window.
LEMMA UsageIsNat ==
  ASSUME Typed, NEW u \in Users, NEW t \in UsageTypes, NEW w
  PROVE  UsageForWindow(u, t, w) \in Nat
<1> DEFINE f == recorded[u][t]
           S == {h \in Moments : GetWindowBounds(w, now).start <= h /\ h < GetWindowBounds(w, now).end}
<1>1. \A h \in Moments : f[h] \in Nat
  BY DEF Typed
<1>2. IsFiniteSet(S) /\ \A h \in S : f[h] \in Nat
  BY <1>1, FiniteAssumption, FS_Subset
<1>3. UsageForWindow(u, t, w) = SumFunctionOnSet(f, S)
  BY DEF UsageForWindow
<1> HIDE DEF f, S
<1>4. QED
  BY <1>2, <1>3, SumIsNat

LEMMA StorageAdd == "STORAGE_ADD" \in Types /\ Types \subseteq UsageTypes
  BY UsageAssumption DEF UsageTypes

\* The limit on storage of a user whose usage is read.
LEMMA WindowedAre ==
  ASSUME Typed, NEW group \in SUBSET Users, NEW u \in Windowed(group)
  PROVE  /\ u \in group /\ Resolved(u) /\ accounts[u].limits # Unresolved
         /\ accounts[u].policy \in {"HARD_LIMITS", "THRESHOLD"}
         /\ accounts[u].limits["STORAGE_ADD"].bytes \in 1..MaxUint
<1>1. u \in group /\ Resolved(u) /\ accounts[u].policy \in {"HARD_LIMITS", "THRESHOLD"}
      /\ accounts[u].limits["STORAGE_ADD"].bytes > 0
  BY DEF Windowed, Counted
<1>2. accounts[u].limits # Unresolved
  BY <1>1 DEF Resolved
<1>3. PICK bytes \in 0..MaxUint : bytes = accounts[u].limits["STORAGE_ADD"].bytes
  <2>1. u \in Users
    BY <1>1
  <2>2. QED
    BY <1>2, <2>1, AccountsAre, StorageAdd
<1>4. bytes > 0
  BY <1>1, <1>3
<1>5. QED
  BY <1>1, <1>2, <1>3, <1>4, MaxUintIs

LEMMA RemainingIs ==
  ASSUME NEW bytes \in Nat \ {0}, NEW shown \in Nat
  PROVE  /\ Remaining(bytes, shown) \in 0..bytes
         /\ Remaining(bytes, shown) = IF shown < bytes THEN bytes - shown ELSE 0
  BY DEF Remaining

\* What remains to those whose usage is read together.
LEMMA ReadIsNat ==
  ASSUME Typed, NEW group \in SUBSET Users, NEW users \in SUBSET Windowed(group), NEW w,
         NEW f, f = [u \in users |-> Remaining(accounts[u].limits["STORAGE_ADD"].bytes,
                                               UsageForWindow(u, "STORAGE_ADD", w))]
  PROVE  SumFunction(f) \in Nat
<1>1. ASSUME NEW u \in users PROVE f[u] \in Nat
  <2>1. PICK bytes \in Nat \ {0} : bytes = accounts[u].limits["STORAGE_ADD"].bytes
    BY WindowedAre, MaxUintIs
  <2>2. PICK shown \in Nat : shown = UsageForWindow(u, "STORAGE_ADD", w)
    <3>1. u \in Users
      BY DEF Windowed, Counted
    <3>2. QED
      BY <3>1, UsageIsNat, StorageAdd
  <2>3. f[u] = Remaining(bytes, shown)
    BY <2>1, <2>2
  <2>4. QED
    BY <2>3, RemainingIs
<1>2. IsFiniteSet(users)
  <2>1. users \subseteq Users
    BY DEF Windowed, Counted
  <2>2. QED
    BY <2>1, UsageAssumption, FS_Subset
<1>3. DOMAIN f = users
  OBVIOUS
<1>4. SumFunction(f) = SumFunctionOnSet(f, users)
  BY <1>3 DEF SumFunction
<1>5. QED
  BY <1>1, <1>2, <1>4, SumIsNat

LEMMA GrantsAreNat ==
  ASSUME Typed, NEW users \in SUBSET Users, NEW f, f = [u \in users |-> AvailableBytes(u)]
  PROVE  SumFunction(f) \in Nat
<1>1. ASSUME NEW u \in users PROVE f[u] \in Nat
  BY AccountsAre, StorageAdd, MaxUintIs DEF AvailableBytes
<1>2. IsFiniteSet(users)
  BY UsageAssumption, FS_Subset
<1>3. DOMAIN f = users
  OBVIOUS
<1>4. SumFunction(f) = SumFunctionOnSet(f, users)
  BY <1>3 DEF SumFunction
<1>5. QED
  BY <1>1, <1>2, <1>4, SumIsNat

LEMMA HealthTyped ==
  ASSUME Typed, NEW p \in Procs, ReportHealth(p)
  PROVE  Typed'
<1> DEFINE k == task[p]
<1>1. /\ k \in Task /\ Placed(k) /\ k.pc = "health"
      /\ k.todo \subseteq Windowed(k.group) /\ k.kept \subseteq k.group
      /\ k.group \in SUBSET Users /\ k.remaining \in Nat
  <2>1. k \in Task /\ Placed(k) /\ k.pc = "health"
    BY DEF Typed, ReportHealth, ReadWindows, ReadGrants
  <2>2. QED
    BY <2>1 DEF Placed, Task
<1>2. /\ UNCHANGED <<now, dialect, accounts, recorded, cleaned, daily, missed, calls, failures>>
      /\ failures' \in 0..MaxFailures /\ calls' \in 0..MaxCalls
  BY DEF ReportHealth, ReadWindows, ReadGrants, Typed
<1>3. "error" \in Answers /\ "healthy" \in Answers
  BY DEF Answers
<1>4. ASSUME NEW users \in SUBSET Users, NEW first \in Users, ReadWindows(p, users, first)
      PROVE  Typed'
  <2> DEFINE w == accounts[first].limits["STORAGE_ADD"].window
             f == [u \in users |-> Remaining(accounts[u].limits["STORAGE_ADD"].bytes,
                                             UsageForWindow(u, "STORAGE_ADD", w))]
  <2>1. users \subseteq k.todo
    BY <1>4 DEF ReadWindows
  <2>2. \/ task' = [task EXCEPT ![p] = Answer(k, "error")]
        \/ task' = [task EXCEPT ![p] = [k EXCEPT !.todo = k.todo \ users,
                                                 !.remaining = k.remaining + SumFunction(f)]]
    BY <1>4 DEF ReadWindows
  <2>3. SumFunction(f) \in Nat
    <3>1. users \in SUBSET Windowed(k.group)
      BY <1>1, <2>1
    <3>2. PICK g : g = f
      OBVIOUS
    <3>3. SumFunction(g) \in Nat
      BY <1>1, <3>1, <3>2, ReadIsNat
    <3>4. QED
      BY <3>2, <3>3
  <2> HIDE DEF f
  <2>4. PICK n \in Nat, todo \in SUBSET Windowed(k.group) :
          n = k.remaining + SumFunction(f) /\ todo = k.todo \ users
    <3>1. k.remaining + SumFunction(f) \in Nat
      BY <1>1, <2>3
    <3>2. k.todo \ users \in SUBSET Windowed(k.group)
      BY <1>1
    <3>3. QED
      BY <3>1, <3>2
  <2> DEFINE new == [k EXCEPT !.todo = todo, !.remaining = n]
  <2>5. task' = [task EXCEPT ![p] = Answer(k, "error")] \/ task' = [task EXCEPT ![p] = new]
    BY <2>2, <2>4
  <2>6. Windowed(k.group) \subseteq Users
    BY <1>1 DEF Windowed, Counted
  <2>7. /\ new \in Task /\ new.pc = "health" /\ new.todo = todo /\ new.group = k.group
        /\ new.kept = k.kept
    BY <1>1, <2>6 DEF Task
  <2> HIDE DEF new
  <2>8. Placed(new) /\ new.pc # "update"
    BY <1>1, <2>7 DEF Placed, Recording
  <2>9. CASE task' = [task EXCEPT ![p] = new]
    BY <1>2, <2>7, <2>8, <2>9, OnlyTask
  <2>10. CASE task' = [task EXCEPT ![p] = Answer(k, "error")]
    BY <1>1, <1>2, <1>3, <2>10, AnswerTyped, OnlyTask
  <2>11. QED
    BY <2>5, <2>9, <2>10
<1>5. ASSUME ReadGrants(p) PROVE Typed'
  <2> DEFINE users == Counted(k.group, {"ALLOWANCE"})
             f == [u \in users |-> AvailableBytes(u)]
  <2>1. task' = [task EXCEPT ![p] =
                    Answer([k EXCEPT !.remaining = k.remaining + SumFunction(f)], "healthy")]
    BY <1>5 DEF ReadGrants
  <2>2. SumFunction(f) \in Nat
    <3>1. users \in SUBSET Users
      BY <1>1 DEF Counted
    <3>2. PICK g : g = f
      OBVIOUS
    <3>3. SumFunction(g) \in Nat
      BY <3>1, <3>2, GrantsAreNat
    <3>4. QED
      BY <3>2, <3>3
  <2> HIDE DEF f
  <2>3. PICK n \in Nat : n = k.remaining + SumFunction(f)
    BY <1>1, <2>2
  <2> DEFINE new == [k EXCEPT !.remaining = n]
  <2>4. task' = [task EXCEPT ![p] = Answer(new, "healthy")]
    BY <2>1, <2>3
  <2>5. new \in Task /\ new.pc = k.pc /\ new.kept = k.kept /\ new.group = k.group
        /\ new.todo = k.todo
    BY <1>1 DEF Task
  <2> HIDE DEF new
  <2>6. Placed(new)
    BY <1>1, <2>5 DEF Placed, Recording
  <2>7. QED
    BY <1>2, <1>3, <2>4, <2>5, <2>6, AnswerTyped, OnlyTask
<1>6. QED
  BY <1>4, <1>5 DEF ReportHealth

\* Tasks that are stirred only.
LEMMA StirTyped ==
  ASSUME Typed, task' = Stir(task) \/ task' = task, UNCHANGED <<dialect, accounts, daily, missed, calls, failures>>,
         now' \in Moments,
         recorded' \in [Users -> [UsageTypes -> [Moments -> Nat]]],
         cleaned' \in [Users -> [UsageTypes -> Nat]]
  PROVE  Typed'
<1>1. task \in [Procs -> Task]
  BY DEF Typed
<1>2. CASE Procs = {}
  <2>1. task' \in [Procs -> Task]
    BY <1>1, <1>2 DEF Stir
  <2>2. QED
    BY <1>2, <2>1 DEF Typed
<1>3. CASE Procs # {}
  <2>1. PICK p \in Procs : TRUE
    BY <1>3
  <2>2. task = [task EXCEPT ![p] = task[p]]
    BY <1>1
  <2>3. task[p] \in Task /\ Placed(task[p])
    BY DEF Typed
  <2>4. task[p].pc = "update" => daily'[task[p].user][task[p].day] # NoRow
    BY DEF Typed
  <2>5. PICK k \in Task : k = task[p]
    BY <2>3
  <2>6. task' = [task EXCEPT ![p] = k] \/ task' = Stir([task EXCEPT ![p] = k])
    BY <2>2, <2>5
  <2>7. QED
    BY <2>3, <2>4, <2>5, <2>6, TypedAfter DEF Typed
<1>4. QED
  BY <1>2, <1>3

LEMMA CleanupTyped ==
  ASSUME Typed, NEW days, CleanupOldRecords(days)
  PROVE  Typed'
<1> DEFINE old == {h \in Moments : h < now - days * DayHours}
<1>1. recorded \in [Users -> [UsageTypes -> [Moments -> Nat]]]
      /\ cleaned \in [Users -> [UsageTypes -> Nat]] /\ now \in Moments
  BY DEF Typed
<1>2. /\ recorded' = [u \in Users |-> [t \in UsageTypes |-> [h \in Moments |->
                          IF h \in old THEN 0 ELSE recorded[u][t][h]]]]
      /\ cleaned' = [u \in Users |-> [t \in UsageTypes |->
                          cleaned[u][t] + SumFunctionOnSet(recorded[u][t], old)]]
      /\ task' = Stir(task)
      /\ UNCHANGED <<now, dialect, accounts, daily, missed, calls, failures>>
  BY DEF CleanupOldRecords
<1>3. IsFiniteSet(old) /\ old \subseteq Moments
  BY FiniteAssumption, FS_Subset
<1> HIDE DEF old
<1>4. ASSUME NEW u \in Users, NEW t \in UsageTypes
      PROVE  cleaned[u][t] + SumFunctionOnSet(recorded[u][t], old) \in Nat
  <2>1. \A h \in old : recorded[u][t][h] \in Nat
    BY <1>1, <1>3
  <2>2. SumFunctionOnSet(recorded[u][t], old) \in Nat
    BY <1>3, <2>1, SumIsNat
  <2>3. cleaned[u][t] \in Nat
    BY <1>1
  <2>4. QED
    BY <2>2, <2>3
<1>5. cleaned' \in [Users -> [UsageTypes -> Nat]]
  BY <1>2, <1>4
<1>6. recorded' \in [Users -> [UsageTypes -> [Moments -> Nat]]]
  BY <1>1, <1>2
<1>7. now' \in Moments
  BY <1>1, <1>2
<1>8. QED
  BY <1>2, <1>5, <1>6, <1>7, StirTyped

LEMMA TypedInit == Init => Typed
<1> SUFFICES ASSUME Init PROVE Typed
  OBVIOUS
<1>1. <<dialect, accounts>> \in Deployments
  <2>1. PICK d \in Deployments : dialect = d[1] /\ accounts = d[2]
    BY DEF Init
  <2>2. d = <<d[1], d[2]>>
    BY UsageAssumption
  <2>3. QED
    BY <2>1, <2>2
<1>2. task \in [Procs -> Task] /\ \A p \in Procs : Placed(task[p]) /\ task[p].pc = "idle"
  BY IdleTyped DEF Init
<1>3. 0 \in 0..MaxCalls /\ 0 \in 0..MaxFailures
  BY NumbersAre
<1>4. \A p \in Procs : task[p].pc # "update"
  BY <1>2
<1>5. QED
  BY <1>1, <1>2, <1>3, <1>4 DEF Init, Typed

LEMMA TypedStep == Typed /\ RoundInv /\ [Next]_vars => Typed'
<1> SUFFICES ASSUME Typed, RoundInv, [Next]_vars PROVE Typed'
  OBVIOUS
<1>1. ASSUME NEW p \in Procs, Record(p) PROVE Typed'
  BY <1>1, DetailsTyped, UpsertTyped DEF Record
<1>2. ASSUME NEW p \in Procs, Return(p) PROVE Typed'
  <2>1. calls' \in 0..MaxCalls /\ failures' \in 0..MaxFailures
    BY <1>2 DEF Typed, Return
  <2>2. Idle.pc # "update"
    BY IdleTyped
  <2>3. QED
    BY <1>2, <2>1, <2>2, IdleTyped, OnlyTask DEF Return
<1>3. ASSUME Tick PROVE Typed'
  BY <1>3, StirTyped DEF Tick, Typed
<1>4. CASE UNCHANGED vars
  BY <1>4, StirTyped DEF vars, Typed
<1>5. ASSUME NEW days \in Retentions, HandleCleanup(days) PROVE Typed'
  BY <1>5, CleanupTyped DEF HandleCleanup
<1>6. QED
  BY <1>1, <1>2, <1>3, <1>4, <1>5, CallTyped, AskGroupTyped, HealthTyped DEF Next

\* The variables, and the fields of every task, keep their types; a row of daily totals
\* that is to be updated is there.
THEOREM TypedHolds == Spec => []Typed
  BY TypedInit, TypedStep, RoundInvHolds, PTL DEF Spec

LEMMA TypedMeans == Typed => TypeOK
<1> SUFFICES ASSUME Typed PROVE TypeOK
  OBVIOUS
<1>1. ASSUME NEW p \in Procs
      PROVE  /\ DOMAIN task[p] = DOMAIN Idle
             /\ task[p].pc \in {"idle", "detail", "daily", "update", "done", "ask", "health", "answered"}
             /\ task[p].pc \in {"daily", "update"} => task[p].user \in Users
             /\ {task[p].share, task[p].billed, task[p].lost, task[p].remaining} \subseteq Nat
             /\ task[p].todo \subseteq Users /\ task[p].kept \subseteq task[p].group
  <2>1. task[p] \in Task /\ Placed(task[p])
    BY DEF Typed
  <2>2. DOMAIN task[p] = DOMAIN Idle
    BY <2>1, TaskFields DEF Fields
  <2>3. QED
    BY <2>1, <2>2 DEF Task, Placed, Places, Recording
<1>2. QED
  BY <1>1, Zenon DEF Typed, TypeOK, Rows

\* No recording, check, report or cleanup, in whatever order, takes a variable out of its
\* type; sums of usage and shares included.
THEOREM TypesAreKept == Spec => []TypeOK
  BY TypedHolds, TypedMeans, PTL

-----------------------------------------------------------------------------
(* Steps of recordings, and other steps.                                   *)

\* Of the user's number of bytes.
LEMMA WholeToOne ==
  ASSUME NEW n \in Nat, NEW u
  PROVE  Cardinality({u}) = 1 /\ CalculateSharedBytes(n, Cardinality({u})) = n
<1>1. Cardinality({u}) = 1
  BY FS_Singleton
<1>2. PICK one \in Nat \ {0} : one = 1
  OBVIOUS
<1>3. n \div one \in Nat /\ n % one \in 0..(one - 1) /\ n = (n \div one) * one + (n % one)
  BY DivIsNat
<1>4. n \div 1 = n /\ n % 1 = 0
  BY <1>2, <1>3
<1>5. QED
  BY <1>1, <1>4 DEF CalculateSharedBytes

Begins(p) ==
    \E type \in UsageTypes, users \in SUBSET Users, bytes \in Nat :
        users # {} /\ Begin(p, type, CalculateSharedBytes(bytes, Cardinality(users)), users, bytes)

\* A step of another call than a recording.
Elsewhere(p) ==
    /\ task[p].pc \in {"idle", "done", "ask", "health", "answered"}
    /\ task' = [task EXCEPT ![p] = task'[p]] /\ task'[p].pc \in Places \ Recording
    /\ UNCHANGED <<now, dialect, accounts, recorded, cleaned, daily, missed>>

LEMMA ElsewhereIs ==
  ASSUME Typed, NEW p \in Procs, NEW k, k.pc \in Places \ Recording,
         task' = [task EXCEPT ![p] = k], task[p].pc \in {"idle", "done", "ask", "health", "answered"},
         UNCHANGED <<now, dialect, accounts, recorded, cleaned, daily, missed>>
  PROVE  Elsewhere(p)
<1>1. task \in [Procs -> Task]
  BY DEF Typed
<1>2. task'[p] = k
  BY <1>1
<1>3. QED
  BY <1>2 DEF Elsewhere

LEMMA AnswerPlace ==
  ASSUME NEW k \in Task, NEW answer
  PROVE  Answer(k, answer).pc \in Places \ Recording /\ Answer(k, answer).pc = "answered"
  BY DEF Answer, Task, Places, Recording

LEMMA CallRecords ==
  ASSUME NEW p \in Procs, Call(p),
         ~\E S \in PinningUsers, r \in Requests : CheckGroup(p, r[1], S, r[2]),
         ~\E S \in PinningUsers, stranger \in BOOLEAN : CheckHealth(p, S, stranger)
  PROVE  Begins(p)
<1>1. {"UPLOAD", "DOWNLOAD", "STORAGE_ADD", "STORAGE_REMOVE"} = UsageTypes
  BY UsageAssumption DEF UsageTypes
<1>2. ASSUME NEW type \in UsageTypes, NEW u \in Users, NEW n \in Nat, Begin(p, type, n, {u}, n)
      PROVE  Begins(p)
  <2>1. CalculateSharedBytes(n, Cardinality({u})) = n
    BY WholeToOne
  <2>2. {u} \in SUBSET Users /\ {u} # {}
    OBVIOUS
  <2>3. Begin(p, type, CalculateSharedBytes(n, Cardinality({u})), {u}, n)
    BY <1>2, <2>1
  <2>4. QED
    BY <2>2, <2>3 DEF Begins
<1>3. ASSUME NEW u \in Users, NEW n \in Amounts, RecordUpload(p, u, n) \/ RecordDownload(p, u, n)
      PROVE  Begins(p)
  <2>1. n \in Nat
    BY NumbersAre
  <2>2. QED
    BY <1>1, <1>2, <1>3, <2>1 DEF RecordUpload, RecordDownload
<1>4. ASSUME NEW S \in SUBSET Users, NEW n \in Amounts, RecordAnonymousDownload(p, S, n)
      PROVE  Begins(p)
  <2>1. n \in Nat
    BY NumbersAre
  <2>2. QED
    BY <1>1, <1>4, <2>1 DEF RecordAnonymousDownload, Begins
<1>5. ASSUME NEW u \in Users, NEW n, AtMost(Magnitude(n), MaxInt) \in Nat, RecordStorageChange(p, u, n)
      PROVE  Begins(p)
  <2>1. PICK bytes \in Nat : bytes = AtMost(Magnitude(n), MaxInt)
    BY <1>5
  <2>2. Begin(p, IF n < 0 THEN "STORAGE_REMOVE" ELSE "STORAGE_ADD", bytes, {u}, bytes)
    BY <1>5, <2>1 DEF RecordStorageChange
  <2>3. PICK type \in UsageTypes : type = IF n < 0 THEN "STORAGE_REMOVE" ELSE "STORAGE_ADD"
    BY <1>1
  <2>4. QED
    BY <1>2, <2>1, <2>2, <2>3
<1>6. ASSUME NEW u \in Users, NEW o \in Objects,
             HandleStorageObjectPinned(p, u, o[1], o[2]) \/ HandleStorageObjectUnpinned(p, u, o[1], o[2])
      PROVE  Begins(p)
  BY <1>5, <1>6, SizesAre DEF HandleStorageObjectPinned, HandleStorageObjectUnpinned
<1>7. QED
  BY <1>3, <1>4, <1>6 DEF Call, RecordFor

LEMMA CallIs ==
  ASSUME Typed, NEW p \in Procs, Call(p)
  PROVE  Begins(p) \/ Elsewhere(p)
<1>1. ASSUME NEW S \in SUBSET Users, NEW t, NEW n, CheckGroup(p, t, S, n) PROVE Elsewhere(p)
  <2> DEFINE k == [Idle EXCEPT !.type = t, !.asked = n, !.group = S]
             new == Round(k, S)
  <2>1. new.pc \in Places \ Recording
    BY DEF Round, Idle, Places, Recording
  <2>2. /\ task' = [task EXCEPT ![p] = new] /\ task[p].pc \in {"idle", "done"}
        /\ UNCHANGED <<now, dialect, accounts, recorded, cleaned, daily, missed>>
    BY <1>1 DEF CheckGroup, IsFree
  <2> HIDE DEF new
  <2>3. QED
    BY <2>1, <2>2, ElsewhereIs
<1>2. ASSUME NEW S \in SUBSET Users, NEW stranger \in BOOLEAN, CheckHealth(p, S, stranger)
      PROVE  Elsewhere(p)
  <2> DEFINE new == [Idle EXCEPT !.pc = "health", !.group = S, !.todo = Windowed(S),
                                 !.unlimited = Counted(S, {"UNLIMITED"}) # {}]
             other == Answer(Idle, "unauthorized")
  <2>1. /\ task' = [task EXCEPT ![p] = new] \/ task' = [task EXCEPT ![p] = other]
        /\ task[p].pc \in {"idle", "done"}
        /\ UNCHANGED <<now, dialect, accounts, recorded, cleaned, daily, missed>>
    BY <1>2 DEF CheckHealth, IsFree
  <2>2. new.pc \in Places \ Recording
    BY DEF Idle, Places, Recording
  <2>3. other.pc \in Places \ Recording
    BY IdleTyped, AnswerPlace
  <2> HIDE DEF new, other
  <2>4. QED
    BY <2>1, <2>2, <2>3, ElsewhereIs
<1>3. QED
  BY <1>1, <1>2, CallRecords DEF PinningUsers

LEMMA OthersAre ==
  ASSUME Typed, RoundInv, NEW p \in Procs, AskGroup(p) \/ ReportHealth(p) \/ Return(p)
  PROVE  Elsewhere(p)
<1> DEFINE k == task[p]
<1>1. /\ k \in Task /\ k.pc \in {"ask", "health", "answered"}
      /\ UNCHANGED <<now, dialect, accounts, recorded, cleaned, daily, missed>>
  BY DEF Typed, AskGroup, ReportHealth, AskUser, NextRound, ReadWindows, ReadGrants, Return
<1>2. ASSUME NEW j \in Task, NEW answer, task' = [task EXCEPT ![p] = Answer(j, answer)]
      PROVE  Elsewhere(p)
  BY <1>1, <1>2, AnswerPlace, ElsewhereIs
<1>3. ASSUME NEW u \in Users, AskUser(p, u) PROVE Elsewhere(p)
  <2>1. PICK kept :
          \/ task' = [task EXCEPT ![p] = Answer(k, "error")]
          \/ task' = [task EXCEPT ![p] = [k EXCEPT !.todo = k.todo \ {u}, !.kept = kept]]
    BY <1>3 DEF AskUser
  <2> DEFINE new == [k EXCEPT !.todo = k.todo \ {u}, !.kept = kept]
  <2>2. new.pc \in Places \ Recording
    <3>1. k.pc = "ask"
      BY <1>3 DEF AskUser
    <3>2. new.pc = k.pc
      BY <1>1 DEF Task
    <3>3. QED
      BY <3>1, <3>2 DEF Places, Recording
  <2> HIDE DEF new
  <2>3. QED
    BY <1>1, <1>2, <2>1, <2>2, ElsewhereIs DEF new
<1>4. ASSUME NextRound(p) PROVE Elsewhere(p)
  <2>1. Round(k, k.kept).pc \in Places \ Recording
    BY <1>1 DEF Round, Task, Places, Recording
  <2>2. QED
    BY <1>1, <1>2, <1>4, <2>1, RoundEnds, ElsewhereIs
<1>5. ASSUME NEW S \in SUBSET Users, NEW u \in Users, ReadWindows(p, S, u) PROVE Elsewhere(p)
  <2>1. PICK n :
          \/ task' = [task EXCEPT ![p] = Answer(k, "error")]
          \/ task' = [task EXCEPT ![p] = [k EXCEPT !.todo = k.todo \ S, !.remaining = n]]
    BY <1>5 DEF ReadWindows
  <2> DEFINE new == [k EXCEPT !.todo = k.todo \ S, !.remaining = n]
  <2>2. new.pc \in Places \ Recording
    <3>1. k.pc = "health"
      BY <1>5 DEF ReadWindows
    <3>2. new.pc = k.pc
      BY <1>1 DEF Task
    <3>3. QED
      BY <3>1, <3>2 DEF Places, Recording
  <2> HIDE DEF new
  <2>3. QED
    BY <1>1, <1>2, <2>1, <2>2, ElsewhereIs DEF new
<1>6. ASSUME ReadGrants(p) PROVE Elsewhere(p)
  <2>1. PICK n : task' = [task EXCEPT ![p] = Answer([k EXCEPT !.remaining = n], "healthy")]
    BY <1>6 DEF ReadGrants
  <2> DEFINE mid == [k EXCEPT !.remaining = n]
  <2>2. Answer(mid, "healthy").pc = "answered"
    <3>1. DOMAIN mid = Fields
      BY <1>1, TaskFields
    <3> HIDE DEF mid
    <3>2. QED
      BY <3>1, FieldsAre DEF Answer
  <2> HIDE DEF mid
  <2>3. "answered" \in Places \ Recording
    BY DEF Places, Recording
  <2>4. QED
    BY <1>1, <2>1, <2>2, <2>3, ElsewhereIs DEF mid
<1>7. ASSUME Return(p) PROVE Elsewhere(p)
  <2>1. Idle.pc \in Places \ Recording
    BY IdleTyped DEF Places, Recording
  <2>2. QED
    BY <1>1, <1>7, <2>1, ElsewhereIs DEF Return
<1>8. QED
  BY <1>3, <1>4, <1>5, <1>6, <1>7 DEF AskGroup, ReportHealth

LEMMA StepsAre ==
  ASSUME Typed, RoundInv, [Next]_vars
  PROVE  \/ \E p \in Procs : Begins(p) \/ Elsewhere(p)
         \/ \E p \in Procs, u \in Users : CreateDetail(p, u) \/ DetailFails(p, u)
         \/ \E p \in Procs : UpsertMySQL(p) \/ UpsertInsert(p) \/ UpsertUpdate(p) \/ DailyFails(p)
         \/ Tick \/ UNCHANGED vars
         \/ \E days \in Retentions : CleanupOldRecords(days)
  BY CallIs, OthersAre, Zenon DEF Next, Record, HandleCleanup

\* What a step of a recording does to its task.
LEMMA CreateDetailIs ==
  ASSUME Typed, NEW p \in Procs, NEW u \in Users, CreateDetail(p, u)
  PROVE  LET k == task[p] IN
         /\ k.pc = "detail" /\ k.type \in UsageTypes /\ u \in k.todo /\ ValidDetail(k)
         /\ \E new \in Task :
               /\ task' = Stir([task EXCEPT ![p] = new])
               /\ new.pc = "daily" /\ new.user = u /\ new.todo = k.todo \ {u}
               /\ new.billed = k.billed + k.share /\ new.lost = k.lost
               /\ new.type = k.type /\ new.share = k.share /\ new.count = k.count
               /\ new.asked = k.asked
<1> DEFINE k == task[p]
<1>1. k \in Task /\ Placed(k) /\ k.pc = "detail" /\ k.type \in UsageTypes /\ u \in k.todo /\ ValidDetail(k)
  BY DEF Typed, CreateDetail, Placed, Recording
<1>2. k.share \in Nat /\ k.billed \in Nat /\ k.todo \in SUBSET Users
  BY <1>1 DEF Task
<1>3. PICK billed \in Nat, todo \in SUBSET Users : billed = k.billed + k.share /\ todo = k.todo \ {u}
  <2>1. k.billed + k.share \in Nat
    BY <1>2
  <2>2. k.todo \ {u} \in SUBSET Users
    BY <1>2
  <2>3. QED
    BY <2>1, <2>2
<1> DEFINE new == [k EXCEPT !.pc = "daily", !.user = u, !.todo = todo, !.billed = billed]
<1>4. task' = Stir([task EXCEPT ![p] = new])
  BY <1>3 DEF CreateDetail
<1>5. new \in Task
  BY <1>1 DEF Task, Places, Recording
<1>6. /\ new.pc = "daily" /\ new.user = u /\ new.todo = todo
      /\ new.billed = billed /\ new.lost = k.lost
      /\ new.type = k.type /\ new.share = k.share /\ new.count = k.count
      /\ new.asked = k.asked
  BY <1>1 DEF Task
<1> HIDE DEF new
<1>7. QED
  BY <1>1, <1>3, <1>4, <1>5, <1>6

LEMMA DetailFailsIs ==
  ASSUME Typed, NEW p \in Procs, NEW u \in Users, DetailFails(p, u)
  PROVE  LET k == task[p] IN
         /\ k.pc = "detail" /\ k.type \in UsageTypes /\ u \in k.todo
         /\ \E new \in Task :
               /\ task' = [task EXCEPT ![p] = new]
               /\ new.pc \in {"done", "detail"} /\ new.todo = k.todo \ {u}
               /\ new.pc = "done" <=> new.todo = {}
               /\ new.billed = k.billed /\ new.lost = k.lost + k.share
               /\ new.type = k.type /\ new.share = k.share /\ new.count = k.count
               /\ new.asked = k.asked
<1> DEFINE k == task[p]
<1>1. k \in Task /\ Placed(k) /\ k.pc = "detail" /\ k.type \in UsageTypes /\ u \in k.todo
  BY DEF Typed, DetailFails, Placed, Recording
<1>2. k.share \in Nat /\ k.lost \in Nat /\ k.todo \in SUBSET Users
  BY <1>1 DEF Task
<1>3. PICK lost \in Nat, todo \in SUBSET Users : lost = k.lost + k.share /\ todo = k.todo \ {u}
  <2>1. k.lost + k.share \in Nat
    BY <1>2
  <2>2. k.todo \ {u} \in SUBSET Users
    BY <1>2
  <2>3. QED
    BY <2>1, <2>2
<1> DEFINE mid == [k EXCEPT !.todo = todo, !.lost = lost]
<1>4. task' = [task EXCEPT ![p] = [mid EXCEPT !.pc = Onwards(mid)]]
  BY <1>3 DEF DetailFails
<1>5. /\ mid \in Task /\ mid.todo = todo /\ mid.billed = k.billed /\ mid.lost = lost
      /\ mid.type = k.type /\ mid.share = k.share /\ mid.count = k.count
      /\ mid.asked = k.asked
  BY <1>1 DEF Task
<1> HIDE DEF mid
<1>6. PICK pc \in {"done", "detail"} : pc = Onwards(mid) /\ (pc = "done" <=> todo = {})
  BY <1>5 DEF Onwards
<1> DEFINE new == [mid EXCEPT !.pc = pc]
<1>7. /\ new \in Task /\ new.pc = pc /\ new.todo = todo /\ new.billed = k.billed /\ new.lost = lost
      /\ new.type = k.type /\ new.share = k.share /\ new.count = k.count
      /\ new.asked = k.asked
  BY <1>5 DEF Task, Places, Recording
<1>8. task' = [task EXCEPT ![p] = new]
  BY <1>4, <1>6
<1> HIDE DEF new
<1>9. QED
  BY <1>1, <1>3, <1>6, <1>7, <1>8

LEMMA ChargedIs ==
  ASSUME Typed, NEW p \in Procs, Charged(p), task[p].pc \in {"daily", "update"}
  PROVE  LET k == task[p] IN
         \E new \in Task :
               /\ task' = [task EXCEPT ![p] = new]
               /\ new.pc \in {"done", "detail"} /\ new.todo = k.todo
               /\ new.pc = "done" <=> new.todo = {}
               /\ new.billed = k.billed /\ new.lost = k.lost
               /\ new.type = k.type /\ new.share = k.share /\ new.count = k.count
               /\ new.asked = k.asked
<1> DEFINE k == task[p]
<1>1. k \in Task
  BY DEF Typed
<1>2. PICK pc \in {"done", "detail"} : pc = Onwards(k) /\ (pc = "done" <=> k.todo = {})
  BY DEF Onwards
<1>3. Idle.user = 0
  BY DEF Idle
<1> DEFINE new == [k EXCEPT !.pc = pc, !.user = 0, !.day = 0]
<1>4. task' = [task EXCEPT ![p] = new]
  BY <1>2, <1>3 DEF Charged
<1>5. /\ new \in Task /\ new.pc = pc /\ new.todo = k.todo /\ new.billed = k.billed
      /\ new.lost = k.lost
      /\ new.type = k.type /\ new.share = k.share /\ new.count = k.count
      /\ new.asked = k.asked
  BY <1>1 DEF Task, Places, Recording
<1> HIDE DEF new
<1>6. QED
  BY <1>2, <1>4, <1>5

LEMMA UpsertInsertIs ==
  ASSUME Typed, NEW p \in Procs, UpsertInsert(p)
  PROVE  LET k == task[p] IN
         \E new \in Task :
               /\ task' = [task EXCEPT ![p] = new]
               /\ new.pc = "update" /\ new.user = k.user /\ new.day = Today /\ new.todo = k.todo
               /\ new.billed = k.billed /\ new.lost = k.lost
               /\ new.type = k.type /\ new.share = k.share /\ new.count = k.count
               /\ new.asked = k.asked
<1> DEFINE k == task[p]
           new == [k EXCEPT !.pc = "update", !.day = Today]
<1>1. k \in Task /\ task \in [Procs -> Task] /\ Today \in Days
  BY TodayIs DEF Typed
<1>2. task' = [task EXCEPT ![p] = new]
  <2>1. task' = [task EXCEPT ![p].pc = "update", ![p].day = Today]
    BY DEF UpsertInsert
  <2>2. QED
    BY <1>1, <2>1
<1>3. /\ new \in Task /\ new.pc = "update" /\ new.user = k.user /\ new.day = Today
      /\ new.todo = k.todo
      /\ new.billed = k.billed /\ new.lost = k.lost
      /\ new.type = k.type /\ new.share = k.share /\ new.count = k.count
      /\ new.asked = k.asked
  BY <1>1 DEF Task, Places, Recording
<1> HIDE DEF new
<1>4. QED
  BY <1>2, <1>3

LEMMA BeginIs ==
  ASSUME NEW p, NEW type, NEW share, NEW users, NEW bytes, Begin(p, type, share, users, bytes)
  PROVE  \E new :
               /\ task' = [task EXCEPT ![p] = new] /\ IsFree(p)
               /\ new.pc = "detail" /\ new.todo = users /\ new.type = type /\ new.share = share
               /\ new.count = Cardinality(users) /\ new.asked = bytes
               /\ new.billed = 0 /\ new.lost = 0
               /\ UNCHANGED <<now, dialect, accounts, recorded, cleaned, daily, missed, failures>>
<1> DEFINE new == [Idle EXCEPT !.pc = "detail", !.type = type, !.share = share, !.todo = users,
                               !.count = Cardinality(users), !.asked = bytes]
<1>1. /\ new.pc = "detail" /\ new.todo = users /\ new.type = type /\ new.share = share
      /\ new.count = Cardinality(users) /\ new.asked = bytes
      /\ new.billed = 0 /\ new.lost = 0
  BY DEF Idle
<1>2. /\ task' = [task EXCEPT ![p] = new] /\ IsFree(p)
      /\ UNCHANGED <<now, dialect, accounts, recorded, cleaned, daily, missed, failures>>
  BY DEF Begin
<1> HIDE DEF new
<1>3. QED
  BY <1>1, <1>2

-----------------------------------------------------------------------------
(* Shares.                                                                 *)

\* Who is no longer to be charged has been, or could not be.
ShareFine(k) ==
    k.pc \in Recording =>
        /\ k.todo \in SUBSET Users
        /\ {k.count, k.asked, k.share, k.billed, k.lost} \subseteq Nat
        /\ Cardinality(k.todo) <= k.count /\ k.count > 0
        /\ k.share = CalculateSharedBytes(k.asked, k.count)
        /\ k.billed + k.lost = (k.count - Cardinality(k.todo)) * k.share
        /\ k.pc = "done" => k.todo = {}

Shares == \A p \in Procs : ShareFine(task[p])

LEMMA StirKeeps ==
  ASSUME NEW tasks, NEW p \in Procs, tasks[p] \in Task
  PROVE  /\ Stir(tasks)[p] \in Task
         /\ \A field \in Fields \ {"stirred"} : Stir(tasks)[p][field] = tasks[p][field]
         /\ tasks[p].pc \in Recording \cup {"idle"} => Stir(tasks)[p] = tasks[p]
<1> DEFINE k == tasks[p]
           new == [k EXCEPT !.stirred = TRUE]
<1>1. Stir(tasks)[p] = IF k.pc \in {"ask", "health", "answered"} THEN new ELSE k
  BY DEF Stir
<1>2. new \in Task /\ \A field \in Fields \ {"stirred"} : new[field] = k[field]
  BY FieldsAre DEF Task
<1> HIDE DEF new
<1>3. QED
  BY <1>1, <1>2 DEF Recording

LEMMA SharesAfter ==
  ASSUME Typed, Shares, NEW p \in Procs, NEW k, ShareFine(k), task' = [task EXCEPT ![p] = k]
  PROVE  Shares'
<1>1. task \in [Procs -> Task]
  BY DEF Typed
<1>2. \A q \in Procs : task'[q] = IF q = p THEN k ELSE task[q]
  BY <1>1
<1>3. QED
  BY <1>2 DEF Shares

LEMMA SharesStirred ==
  ASSUME NEW tasks \in [Procs -> Task], \A q \in Procs : ShareFine(tasks[q]), task' = Stir(tasks)
  PROVE  Shares'
<1>1. ASSUME NEW q \in Procs PROVE ShareFine(task'[q])
  <2>1. tasks[q] \in Task /\ ShareFine(tasks[q])
    OBVIOUS
  <2>2. CASE tasks[q].pc \in Recording
    BY <2>1, <2>2, StirKeeps
  <2>3. CASE tasks[q].pc \notin Recording
    <3>1. Stir(tasks)[q].pc = tasks[q].pc
      BY <2>1, StirKeeps, FieldsAre
    <3>2. QED
      BY <2>3, <3>1 DEF ShareFine
  <2>4. QED
    BY <2>2, <2>3
<1>2. QED
  BY <1>1 DEF Shares

\* One more user has been charged, or could not be.
LEMMA OneMore ==
  ASSUME NEW c \in Nat, NEW m \in Nat, NEW n \in Nat, n = m + 1, n <= c, NEW share \in Nat,
         NEW a \in Nat, a = (c - n) * share
  PROVE  a + share = (c - m) * share
<1>1. PICK x \in Nat : x = c - n
  OBVIOUS
<1>2. c - m = x + 1
  BY <1>1
<1>3. (x + 1) * share = x * share + share
  OBVIOUS
<1>4. QED
  BY <1>1, <1>2, <1>3

LEMMA SharesInit == Init => Shares
<1>1. "idle" \notin Recording
  BY DEF Recording
<1>2. QED
  BY <1>1, IdleTyped DEF Init, Shares, ShareFine

LEMMA SharesStep == Typed /\ RoundInv /\ Shares /\ [Next]_vars => Shares'
<1> SUFFICES ASSUME Typed, RoundInv, Shares, [Next]_vars PROVE Shares'
  OBVIOUS
<1>1. task \in [Procs -> Task]
  BY DEF Typed
<1>2. ASSUME NEW p \in Procs, Elsewhere(p) PROVE Shares'
  <2>1. ShareFine(task'[p])
    BY <1>2 DEF Elsewhere, ShareFine
  <2>2. QED
    BY <1>2, <2>1, SharesAfter DEF Elsewhere
<1>3. ASSUME NEW p \in Procs, Begins(p) PROVE Shares'
  <2>1. PICK type \in UsageTypes, users \in SUBSET Users, bytes \in Nat :
          users # {} /\ Begin(p, type, CalculateSharedBytes(bytes, Cardinality(users)), users, bytes)
    BY <1>3 DEF Begins
  <2>2. PICK count \in Nat : count = Cardinality(users) /\ IsFiniteSet(users)
    BY UsageAssumption, FS_Subset, FS_CardinalityType
  <2>3. count > 0
    BY <2>1, <2>2, FS_EmptySet
  <2>4. PICK share \in Nat : share = CalculateSharedBytes(bytes, count)
    BY SharedIsNat
  <2>5. PICK new : /\ task' = [task EXCEPT ![p] = new]
                   /\ new.todo = users /\ new.share = share
                   /\ new.count = count /\ new.asked = bytes
                   /\ new.billed = 0 /\ new.lost = 0 /\ new.pc = "detail"
    BY <2>1, <2>2, <2>4, BeginIs
  <2>6. 0 = (count - count) * share
    <3>1. count - count = 0 /\ 0 * share = 0
      BY <2>2, <2>4
    <3>2. QED
      BY <3>1
  <2>7. ShareFine(new)
    BY <2>2, <2>3, <2>4, <2>5, <2>6 DEF ShareFine
  <2>8. QED
    BY <2>5, <2>7, SharesAfter
<1>4. ASSUME NEW p \in Procs, NEW u \in Users, CreateDetail(p, u) \/ DetailFails(p, u) PROVE Shares'
  <2> DEFINE k == task[p]
  <2>1. k \in Task /\ k.pc = "detail" /\ u \in k.todo
    BY <1>1, <1>4 DEF CreateDetail, DetailFails
  <2>2. /\ k.todo \in SUBSET Users /\ k.count \in Nat /\ k.asked \in Nat /\ k.share \in Nat
        /\ k.billed \in Nat /\ k.lost \in Nat
        /\ Cardinality(k.todo) <= k.count /\ k.count > 0
        /\ k.share = CalculateSharedBytes(k.asked, k.count)
        /\ k.billed + k.lost = (k.count - Cardinality(k.todo)) * k.share
    BY <2>1 DEF Shares, ShareFine, Recording
  <2>3. PICK m \in Nat, n \in Nat :
          m = Cardinality(k.todo \ {u}) /\ n = Cardinality(k.todo) /\ n = m + 1
    <3>1. IsFiniteSet(k.todo)
      BY <2>2, UsageAssumption, FS_Subset
    <3>2. /\ IsFiniteSet(k.todo \ {u}) /\ Cardinality(k.todo) \in Nat
          /\ Cardinality(k.todo \ {u}) = Cardinality(k.todo) - 1
      BY <2>1, <3>1, FS_RemoveElement, FS_CardinalityType
    <3>3. Cardinality(k.todo \ {u}) \in Nat
      BY <3>2, FS_CardinalityType
    <3>4. QED
      BY <3>2, <3>3
  <2>4. (k.billed + k.lost) + k.share = (k.count - m) * k.share
    <3>1. PICK a \in Nat : a = k.billed + k.lost
      BY <2>2
    <3>2. a + k.share = (k.count - m) * k.share
      BY <2>2, <2>3, <3>1, OneMore
    <3>3. QED
      BY <3>1, <3>2
  <2>5. k.todo \ {u} \in SUBSET Users
    BY <2>2
  <2>6. ASSUME NEW new, new.pc \in {"done", "detail", "daily"}, new.pc = "done" => new.todo = {},
               new.todo = k.todo \ {u}, new.share = k.share, new.count = k.count,
               new.asked = k.asked,
               \/ new.billed = k.billed + k.share /\ new.lost = k.lost
               \/ new.billed = k.billed /\ new.lost = k.lost + k.share
        PROVE  ShareFine(new)
    <3>1. new.billed \in Nat /\ new.lost \in Nat
          /\ new.billed + new.lost = (k.billed + k.lost) + k.share
      BY <2>2, <2>6
    <3>2. new.billed + new.lost = (k.count - m) * k.share
      BY <2>4, <3>1
    <3>3. m <= k.count
      BY <2>2, <2>3
    <3>4. QED
      BY <2>2, <2>3, <2>5, <2>6, <3>1, <3>2, <3>3 DEF ShareFine
  <2>7. CASE CreateDetail(p, u)
    <3>1. PICK new \in Task :
               /\ task' = Stir([task EXCEPT ![p] = new])
               /\ new.pc = "daily" /\ new.user = u /\ new.todo = k.todo \ {u}
               /\ new.billed = k.billed + k.share /\ new.lost = k.lost
               /\ new.type = k.type /\ new.share = k.share /\ new.count = k.count
               /\ new.asked = k.asked
      BY <2>7, CreateDetailIs
    <3>2. ShareFine(new)
      BY <2>6, <3>1
    <3> DEFINE mid == [task EXCEPT ![p] = new]
    <3>3. mid \in [Procs -> Task] /\ \A q \in Procs : mid[q] = IF q = p THEN new ELSE task[q]
      BY <1>1
    <3>4. \A q \in Procs : ShareFine(mid[q])
      BY <3>2, <3>3 DEF Shares
    <3>5. task' = Stir(mid)
      BY <3>1
    <3> HIDE DEF mid
    <3>6. QED
      BY <3>3, <3>4, <3>5, SharesStirred
  <2>8. CASE DetailFails(p, u)
    <3>1. PICK new \in Task :
               /\ task' = [task EXCEPT ![p] = new]
               /\ new.pc \in {"done", "detail"} /\ new.todo = k.todo \ {u}
               /\ new.pc = "done" <=> new.todo = {}
               /\ new.billed = k.billed /\ new.lost = k.lost + k.share
               /\ new.share = k.share /\ new.count = k.count /\ new.asked = k.asked
      BY <2>8, DetailFailsIs
    <3>2. ShareFine(new)
      BY <2>6, <3>1
    <3>3. QED
      BY <3>1, <3>2, SharesAfter
  <2>9. QED
    BY <1>4, <2>7, <2>8
<1>5. ASSUME NEW p \in Procs, UpsertMySQL(p) \/ UpsertInsert(p) \/ UpsertUpdate(p) \/ DailyFails(p)
      PROVE  Shares'
  <2> DEFINE k == task[p]
  <2>1. k.pc \in {"daily", "update"} /\ (Charged(p) \/ UpsertInsert(p))
    BY <1>5 DEF UpsertMySQL, UpsertInsert, UpsertUpdate, DailyFails
  <2>2. PICK new \in Task :
               /\ task' = [task EXCEPT ![p] = new]
               /\ new.pc \in Recording /\ new.todo = k.todo
               /\ new.pc = "done" => new.todo = {}
               /\ new.billed = k.billed /\ new.lost = k.lost
               /\ new.share = k.share /\ new.count = k.count /\ new.asked = k.asked
    <3>1. CASE Charged(p)
      BY <2>1, <3>1, ChargedIs DEF Recording
    <3>2. CASE UpsertInsert(p)
      BY <2>1, <3>2, UpsertInsertIs DEF Recording
    <3>3. QED
      BY <2>1, <3>1, <3>2
  <2>3. ShareFine(k) /\ k.pc \in Recording
    BY <2>1 DEF Shares, Recording
  <2>4. ShareFine(new)
    BY <2>2, <2>3 DEF ShareFine
  <2>5. QED
    BY <2>2, <2>4, SharesAfter
<1>6. CASE Tick \/ UNCHANGED vars
  <2>1. task' = Stir(task) \/ task' = task
    BY <1>6 DEF Tick, vars
  <2>2. QED
    BY <1>1, <2>1, SharesStirred DEF Shares
<1>7. ASSUME NEW days \in Retentions, CleanupOldRecords(days) PROVE Shares'
  <2>1. task' = Stir(task)
    BY <1>7 DEF CleanupOldRecords
  <2>2. QED
    BY <1>1, <2>1, SharesStirred DEF Shares
<1>8. QED
  BY <1>2, <1>3, <1>4, <1>5, <1>6, <1>7, StepsAre

\* What every recording has charged so far.
THEOREM SharesHold == Spec => []Shares
  BY SharesInit, SharesStep, TypedHolds, RoundInvHolds, PTL DEF Spec

\* A whole is what its shares add up to, but for rounding.
LEMMA SharesAddUp ==
  ASSUME NEW asked \in Nat, NEW count \in Nat \ {0}, NEW shared \in Nat,
         shared = count * CalculateSharedBytes(asked, count)
  PROVE  IF Precision = 0 THEN shared <= asked /\ asked < shared + count
         ELSE asked <= shared /\ shared < asked + count
<1>1. PICK q \in Nat, r \in 0..(count - 1) :
        q = asked \div count /\ r = asked % count /\ asked = q * count + r
  BY DivIsNat
<1>2. CalculateSharedBytes(asked, count) = q + (IF Precision > 0 /\ r # 0 THEN 1 ELSE 0)
  BY <1>1 DEF CalculateSharedBytes
<1>3. CASE Precision > 0 /\ r # 0
  <2>1. shared = count * (q + 1)
    BY <1>2, <1>3
  <2>2. count * (q + 1) = q * count + count
    BY <1>1
  <2>3. QED
    BY <1>1, <1>3, <2>1, <2>2, NumbersAre
<1>4. CASE ~(Precision > 0 /\ r # 0)
  <2>1. shared = count * q
    BY <1>1, <1>2, <1>4
  <2>2. count * q = q * count
    BY <1>1
  <2>3. PICK x \in Nat : x = q * count
    BY <1>1
  <2>4. shared = x /\ asked = x + r
    BY <1>1, <2>1, <2>2, <2>3
  <2>5. QED
    BY <1>1, <1>4, <2>4, NumbersAre
<1>5. QED
  BY <1>3, <1>4

LEMMA SharesMean == Shares => WholeIsShared
<1> SUFFICES ASSUME Shares, NEW p \in Procs, task[p].pc = "done"
             PROVE  LET k == task[p]
                        shared == k.billed + k.lost
                    IN  IF Precision = 0 THEN shared <= k.asked /\ k.asked < shared + k.count
                        ELSE k.asked <= shared /\ shared < k.asked + k.count
  BY DEF WholeIsShared
<1> DEFINE k == task[p]
<1>1. /\ k.count \in Nat \ {0} /\ k.asked \in Nat /\ k.billed \in Nat /\ k.lost \in Nat
      /\ k.share = CalculateSharedBytes(k.asked, k.count) /\ k.share \in Nat
      /\ k.billed + k.lost = (k.count - Cardinality(k.todo)) * k.share
      /\ k.todo = {}
  BY DEF Shares, ShareFine, Recording
<1>2. Cardinality(k.todo) = 0
  BY <1>1, FS_EmptySet
<1>3. PICK shared \in Nat : shared = k.billed + k.lost
  BY <1>1
<1>4. k.count - 0 = k.count
  BY <1>1
<1>5. shared = k.count * CalculateSharedBytes(k.asked, k.count)
  BY <1>1, <1>2, <1>3, <1>4
<1>6. QED
  BY <1>1, <1>3, <1>5, SharesAddUp

\* When a recording is over, what it charged, with what it could not charge, is what it was
\* asked to, but for the rounding of CalculateSharedBytes.
THEOREM SharesAreWhole == Spec => []WholeIsShared
  BY SharesHold, SharesMean, PTL

-----------------------------------------------------------------------------
(* Daily totals and details.                                               *)

\* What a task is about to add to the daily totals of u.
Part(k, u, t) ==
    IF k.pc \in {"daily", "update"} /\ k.user = u /\ k.type = t THEN k.share ELSE 0

Cell(row, c) == IF row = NoRow THEN 0 ELSE row[c]

Pending(tasks, u, t) == SumFunctionOnSet([p \in Procs |-> Part(tasks[p], u, t)], Procs)
Total(days, u, c) == SumFunctionOnSet([d \in Days |-> Cell(days[u][d], c)], Days)
Written(details, u, t) == SumFunctionOnSet(details[u][t], Moments)

\* The two sides of the balance.
Accounted(u, t) == Total(daily, u, ColumnOf(t)) + Pending(task, u, t) + missed[u][t]
Entered(u, t) == Written(recorded, u, t) + cleaned[u][t]

LEMMA PartIsNat ==
  ASSUME NEW k \in Task, NEW u, NEW t
  PROVE  Part(k, u, t) \in Nat
  BY DEF Part, Task

LEMMA CellIsNat ==
  ASSUME NEW row \in Rows \cup {NoRow}, NEW c \in Columns
  PROVE  Cell(row, c) \in Nat
  BY DEF Cell, Rows

LEMMA PendingIsNat ==
  ASSUME NEW tasks \in [Procs -> Task], NEW u, NEW t
  PROVE  Pending(tasks, u, t) \in Nat
<1> DEFINE f == [p \in Procs |-> Part(tasks[p], u, t)]
<1>1. \A p \in Procs : f[p] \in Nat
  BY PartIsNat
<1> HIDE DEF f
<1>2. SumFunctionOnSet(f, Procs) \in Nat
  BY <1>1, FiniteAssumption, SumIsNat
<1>3. QED
  BY <1>2 DEF Pending, f

LEMMA TotalIsNat ==
  ASSUME NEW days \in [Users -> [Days -> Rows \cup {NoRow}]], NEW u \in Users, NEW c \in Columns
  PROVE  Total(days, u, c) \in Nat
<1> DEFINE f == [d \in Days |-> Cell(days[u][d], c)]
<1>1. \A d \in Days : f[d] \in Nat
  BY CellIsNat
<1> HIDE DEF f
<1>2. SumFunctionOnSet(f, Days) \in Nat
  BY <1>1, DaysFinite, SumIsNat
<1>3. QED
  BY <1>2 DEF Total, f

LEMMA WrittenIsNat ==
  ASSUME NEW details \in [Users -> [UsageTypes -> [Moments -> Nat]]], NEW u \in Users,
         NEW t \in UsageTypes
  PROVE  Written(details, u, t) \in Nat
<1> DEFINE f == details[u][t]
<1>1. \A h \in Moments : f[h] \in Nat
  OBVIOUS
<1> HIDE DEF f
<1>2. SumFunctionOnSet(f, Moments) \in Nat
  BY <1>1, FiniteAssumption, SumIsNat
<1>3. QED
  BY <1>2 DEF Written, f

\* One task changes.
LEMMA PendingChange ==
  ASSUME NEW tasks \in [Procs -> Task], NEW p \in Procs, NEW k, NEW u, NEW t, Part(k, u, t) \in Nat,
         NEW new,
         new[p] = k, \A q \in Procs \ {p} : new[q] = tasks[q]
  PROVE  Pending(new, u, t) = Pending(tasks, u, t) - Part(tasks[p], u, t) + Part(k, u, t)
<1> DEFINE f == [q \in Procs |-> Part(tasks[q], u, t)]
           g == [q \in Procs |-> Part(new[q], u, t)]
<1>1. \A q \in Procs : f[q] \in Nat
  BY PartIsNat
<1>2. g[p] = Part(k, u, t) /\ \A q \in Procs \ {p} : g[q] = f[q]
  OBVIOUS
<1>3. f[p] = Part(tasks[p], u, t)
  OBVIOUS
<1>4. Pending(new, u, t) = SumFunctionOnSet(g, Procs)
      /\ Pending(tasks, u, t) = SumFunctionOnSet(f, Procs)
  BY DEF Pending
<1> HIDE DEF f, g
<1>5. g[p] \in Nat
  BY <1>2
<1>6. SumFunctionOnSet(g, Procs) = SumFunctionOnSet(f, Procs) - f[p] + g[p]
  BY <1>1, <1>2, <1>5, FiniteAssumption, SumOfChange
<1>7. QED
  BY <1>2, <1>3, <1>4, <1>6

LEMMA PendingStirred ==
  ASSUME NEW tasks \in [Procs -> Task], NEW u, NEW t
  PROVE  Pending(Stir(tasks), u, t) = Pending(tasks, u, t)
<1> DEFINE f == [q \in Procs |-> Part(tasks[q], u, t)]
           g == [q \in Procs |-> Part(Stir(tasks)[q], u, t)]
<1>1. ASSUME NEW q \in Procs PROVE f[q] \in Nat /\ g[q] = f[q]
  <2>1. tasks[q] \in Task
    OBVIOUS
  <2>2. f[q] \in Nat
    BY PartIsNat
  <2>3. \A field \in Fields \ {"stirred"} : Stir(tasks)[q][field] = tasks[q][field]
    BY <2>1, StirKeeps
  <2>4. Part(Stir(tasks)[q], u, t) = Part(tasks[q], u, t)
    BY <2>3, FieldsAre DEF Part
  <2>5. QED
    BY <2>2, <2>4
<1>2. Pending(Stir(tasks), u, t) = SumFunctionOnSet(g, Procs)
      /\ Pending(tasks, u, t) = SumFunctionOnSet(f, Procs)
  BY DEF Pending
<1> HIDE DEF f, g
<1>3. SumFunctionOnSet(g, Procs) = SumFunctionOnSet(f, Procs)
  BY <1>1, FiniteAssumption, SumOfSame
<1>4. QED
  BY <1>2, <1>3

RowChanges(days, new, u, d, row) ==
    \A w \in Users, e \in Days : new[w][e] = IF w = u /\ e = d THEN row ELSE days[w][e]

\* One row changes.
LEMMA TotalChange ==
  ASSUME NEW days \in [Users -> [Days -> Rows \cup {NoRow}]], NEW u \in Users, NEW d \in Days,
         NEW row \in Rows \cup {NoRow}, NEW v \in Users, NEW c \in Columns,
         NEW new,
         RowChanges(days, new, u, d, row)
  PROVE  /\ v = u => Total(new, v, c) = Total(days, u, c) - Cell(days[u][d], c) + Cell(row, c)
         /\ v # u => Total(new, v, c) = Total(days, v, c)
<1> DEFINE f == [e \in Days |-> Cell(days[v][e], c)]
           g == [e \in Days |-> Cell(new[v][e], c)]
<1>1. \A e \in Days : new[v][e] = IF v = u /\ e = d THEN row ELSE days[v][e]
  BY DEF RowChanges
<1>2. Total(new, v, c) = SumFunctionOnSet(g, Days) /\ Total(days, v, c) = SumFunctionOnSet(f, Days)
  BY DEF Total
<1>3. \A e \in Days : f[e] = Cell(days[v][e], c) /\ g[e] = Cell(new[v][e], c)
  OBVIOUS
<1>4. \A e \in Days : f[e] \in Nat
  BY <1>3, CellIsNat
<1> HIDE DEF f, g
<1>5. CASE v = u
  <2>1. /\ g[d] = Cell(row, c) /\ f[d] = Cell(days[u][d], c)
        /\ \A e \in Days \ {d} : g[e] = f[e]
    BY <1>1, <1>3, <1>5
  <2>2. g[d] \in Nat
    BY <2>1, CellIsNat
  <2>3. SumFunctionOnSet(g, Days) = SumFunctionOnSet(f, Days) - f[d] + g[d]
    <3>1. IsFiniteSet(Days) /\ \A e \in Days \ {d} : g[e] = f[e]
      BY <2>1, DaysFinite
    <3>2. QED
      BY <1>4, <2>2, <3>1, SumOfChange
  <2>4. Total(new, v, c) = Total(days, v, c) - Cell(days[u][d], c) + Cell(row, c)
    BY <1>2, <2>1, <2>3
  <2>5. QED
    BY <1>5, <2>4
<1>6. CASE v # u
  <2>1. \A e \in Days : g[e] = f[e]
    BY <1>1, <1>3, <1>6
  <2>2. SumFunctionOnSet(g, Days) = SumFunctionOnSet(f, Days)
    BY <1>4, <2>1, DaysFinite, SumOfSame
  <2>3. QED
    BY <1>2, <1>6, <2>2
<1>7. QED
  BY <1>5, <1>6

DetailChanges(details, new, u, s, h, n) ==
    \A w \in Users, r \in UsageTypes, e \in Moments :
        new[w][r][e] = IF w = u /\ r = s /\ e = h THEN details[w][r][e] + n ELSE details[w][r][e]

\* A detail is written.
LEMMA WrittenChange ==
  ASSUME NEW details \in [Users -> [UsageTypes -> [Moments -> Nat]]], NEW u \in Users,
         NEW s \in UsageTypes, NEW h \in Moments, NEW n \in Nat, NEW v \in Users, NEW t \in UsageTypes,
         NEW new, DetailChanges(details, new, u, s, h, n)
  PROVE  /\ v = u /\ t = s => Written(new, v, t) = Written(details, v, t) + n
         /\ ~(v = u /\ t = s) => Written(new, v, t) = Written(details, v, t)
<1> DEFINE f == details[v][t]
           g == new[v][t]
<1>1. \A e \in Moments : g[e] = IF v = u /\ t = s /\ e = h THEN f[e] + n ELSE f[e]
  BY DEF DetailChanges
<1>2. Written(new, v, t) = SumFunctionOnSet(g, Moments)
      /\ Written(details, v, t) = SumFunctionOnSet(f, Moments)
  BY DEF Written
<1>3. \A e \in Moments : f[e] \in Nat
  OBVIOUS
<1> HIDE DEF f, g
<1>4. SumFunctionOnSet(f, Moments) \in Nat
  BY <1>3, FiniteAssumption, SumIsNat
<1>5. CASE v = u /\ t = s
  <2>1. g[h] = f[h] + n /\ \A e \in Moments \ {h} : g[e] = f[e]
    BY <1>1, <1>5
  <2>2. g[h] \in Nat
    BY <1>3, <2>1
  <2>3. SumFunctionOnSet(g, Moments) = SumFunctionOnSet(f, Moments) - f[h] + g[h]
    <3>1. IsFiniteSet(Moments) /\ \A e \in Moments \ {h} : g[e] = f[e]
      BY <2>1, FiniteAssumption
    <3>2. QED
      BY <1>3, <2>2, <3>1, SumOfChange
  <2>4. f[h] \in Nat
    BY <1>3
  <2>5. SumFunctionOnSet(g, Moments) = SumFunctionOnSet(f, Moments) + n
    BY <1>4, <2>1, <2>3, <2>4
  <2>6. QED
    BY <1>2, <1>5, <2>5
<1>6. CASE ~(v = u /\ t = s)
  <2>1. \A e \in Moments : g[e] = f[e]
    BY <1>1, <1>6
  <2>2. SumFunctionOnSet(g, Moments) = SumFunctionOnSet(f, Moments)
    BY <1>3, <2>1, FiniteAssumption, SumOfSame
  <2>3. QED
    BY <1>2, <1>6, <2>2
<1>7. QED
  BY <1>5, <1>6

\* The definitions of the model, in these terms.
LEMMA SumsAre ==
  ASSUME Typed, NEW u \in Users, NEW t \in UsageTypes, NEW c
  PROVE  /\ DailyTotal(u, c) = Total(daily, u, c)
         /\ UnderWay(u, t) = Pending(task, u, t)
         /\ Ever(u, t) = Entered(u, t)
<1>1. DailyTotal(u, c) = Total(daily, u, c)
  <2> DEFINE f == [d \in Days |-> IF daily[u][d] = NoRow THEN 0 ELSE daily[u][d][c]]
             g == [d \in Days |-> Cell(daily[u][d], c)]
  <2>1. f = g /\ DOMAIN f = Days
    BY DEF Cell
  <2>2. DailyTotal(u, c) = SumFunctionOnSet(f, DOMAIN f)
    BY DEF DailyTotal, SumFunction
  <2>3. Total(daily, u, c) = SumFunctionOnSet(g, Days)
    BY DEF Total
  <2> HIDE DEF f, g
  <2>4. QED
    BY <2>1, <2>2, <2>3
<1>2. UnderWay(u, t) = Pending(task, u, t)
  <2> DEFINE f == [p \in Procs |->
                    IF task[p].pc \in {"daily", "update"} /\ task[p].user = u /\ task[p].type = t
                    THEN task[p].share ELSE 0]
             g == [p \in Procs |-> Part(task[p], u, t)]
  <2>1. f = g /\ DOMAIN f = Procs
    BY DEF Part
  <2>2. UnderWay(u, t) = SumFunctionOnSet(f, DOMAIN f)
    BY DEF UnderWay, SumFunction
  <2>3. Pending(task, u, t) = SumFunctionOnSet(g, Procs)
    BY DEF Pending
  <2> HIDE DEF f, g
  <2>4. QED
    BY <2>1, <2>2, <2>3
<1>3. Ever(u, t) = Entered(u, t)
  <2>1. DOMAIN recorded[u][t] = Moments
    BY DEF Typed
  <2>2. QED
    BY <2>1 DEF Ever, TotalBytesByType, SumFunction, Entered, Written
<1>4. QED
  BY <1>1, <1>2, <1>3

\* What a row gains from a task.
Gain(k, t) == IF k.type = t THEN k.share ELSE 0

LEMMA TypesAre ==
  /\ Types = {"UPLOAD", "DOWNLOAD", "STORAGE_ADD"}
  /\ UsageTypes = {"UPLOAD", "DOWNLOAD", "STORAGE_ADD", "STORAGE_REMOVE"}
  BY UsageAssumption DEF UsageTypes

LEMMA ColumnsAre ==
  /\ ColumnOf("UPLOAD") = "uploaded" /\ ColumnOf("DOWNLOAD") = "downloaded"
  /\ ColumnOf("STORAGE_ADD") = "stored" /\ ColumnOf("STORAGE_REMOVE") = "stored"
  /\ \A t \in UsageTypes : ColumnOf(t) \in Columns
  BY TypesAre DEF ColumnOf, Columns

\* A row gains what it is charged with; less only if storage is removed.
LEMMA RowGains ==
  ASSUME NEW k \in Task, k.type \in UsageTypes, NEW row \in Rows, NEW t \in Types
  PROVE  /\ AddTo(row, k)[ColumnOf(t)] <= row[ColumnOf(t)] + Gain(k, t)
         /\ t # "STORAGE_ADD" => AddTo(row, k)[ColumnOf(t)] = row[ColumnOf(t)] + Gain(k, t)
<1> DEFINE c == ColumnOf(k.type)
           n == IF k.type # "STORAGE_REMOVE" THEN row[c] + k.share
                ELSE IF row[c] < k.share THEN 0 ELSE row[c] - k.share
<1>1. /\ c \in Columns /\ ColumnOf(t) \in Columns
      /\ \A x \in Columns : row[x] \in Nat
      /\ k.share \in Nat
  BY TypesAre, ColumnsAre DEF Rows, Task
<1>2. AddTo(row, k) = [row EXCEPT ![c] = n]
  BY <1>1 DEF AddTo, Rows
<1>3. AddTo(row, k)[ColumnOf(t)] = IF ColumnOf(t) = c THEN n ELSE row[ColumnOf(t)]
  BY <1>1, <1>2 DEF Rows
<1>4. row[c] \in Nat /\ row[ColumnOf(t)] \in Nat
  BY <1>1
<1>5. CASE k.type = t
  <2>1. k.type # "STORAGE_REMOVE" /\ ColumnOf(t) = c
    BY <1>5, TypesAre
  <2>2. AddTo(row, k)[ColumnOf(t)] = row[ColumnOf(t)] + k.share
    BY <1>3, <2>1
  <2>3. QED
    BY <1>1, <1>4, <1>5, <2>2 DEF Gain
<1>6. CASE k.type # t /\ ColumnOf(t) # c
  BY <1>1, <1>3, <1>4, <1>6 DEF Gain
<1>7. CASE k.type # t /\ ColumnOf(t) = c
  <2>1. t = "STORAGE_ADD" /\ k.type = "STORAGE_REMOVE"
    BY <1>7, TypesAre, ColumnsAre
  <2>2. AddTo(row, k)[ColumnOf(t)] = IF row[c] < k.share THEN 0 ELSE row[c] - k.share
    BY <1>3, <1>7, <2>1
  <2>3. AddTo(row, k)[ColumnOf(t)] <= row[ColumnOf(t)]
    BY <1>1, <1>4, <1>7, <2>2
  <2>4. QED
    BY <1>4, <1>7, <2>1, <2>3 DEF Gain
<1>8. QED
  BY <1>5, <1>6, <1>7

\* So does the first row of the day.
LEMMA FirstRowGains ==
  ASSUME NEW k \in Task, k.type \in UsageTypes, NEW t \in Types
  PROVE  /\ FirstRow(k)[ColumnOf(t)] <= Gain(k, t)
         /\ t # "STORAGE_ADD" => FirstRow(k)[ColumnOf(t)] = Gain(k, t)
<1>1. ColumnOf(t) \in Columns /\ Zeros \in Rows /\ Zeros[ColumnOf(t)] = 0
  BY TypesAre, ColumnsAre, RowAdded DEF Zeros
<1>2. Gain(k, t) \in Nat
  BY DEF Gain, Task
<1>3. CASE k.type = "STORAGE_REMOVE"
  <2>1. FirstRow(k)[ColumnOf(t)] = 0 /\ Gain(k, t) = 0
    BY <1>1, <1>3, TypesAre DEF FirstRow, Gain
  <2>2. QED
    BY <2>1
<1>4. CASE k.type # "STORAGE_REMOVE"
  <2>1. /\ AddTo(Zeros, k)[ColumnOf(t)] <= Zeros[ColumnOf(t)] + Gain(k, t)
        /\ t # "STORAGE_ADD" => AddTo(Zeros, k)[ColumnOf(t)] = Zeros[ColumnOf(t)] + Gain(k, t)
    BY <1>1, RowGains
  <2>2. 0 + Gain(k, t) = Gain(k, t)
    BY <1>2
  <2>3. QED
    BY <1>1, <1>4, <2>1, <2>2 DEF FirstRow
<1>5. QED
  BY <1>3, <1>4

LEMMA BalanceTyped ==
  ASSUME Typed, NEW u \in Users, NEW t \in Types
  PROVE  /\ Total(daily, u, ColumnOf(t)) \in Nat
         /\ Pending(task, u, t) \in Nat
         /\ missed[u][t] \in Nat
         /\ Written(recorded, u, t) \in Nat
         /\ cleaned[u][t] \in Nat
<1>1. t \in UsageTypes /\ ColumnOf(t) \in Columns
  BY TypesAre, ColumnsAre
<1>2. /\ recorded \in [Users -> [UsageTypes -> [Moments -> Nat]]]
      /\ cleaned \in [Users -> [UsageTypes -> Nat]]
      /\ daily \in [Users -> [Days -> Rows \cup {NoRow}]]
      /\ missed \in [Users -> [UsageTypes -> Nat]]
      /\ task \in [Procs -> Task]
  BY DEF Typed
<1>3. missed[u][t] \in Nat /\ cleaned[u][t] \in Nat
  BY <1>1, <1>2
<1>4. QED
  BY <1>1, <1>2, <1>3, TotalIsNat, PendingIsNat, WrittenIsNat

\* The balance of one user and type: what it says of uploads and downloads, and of
\* storage added.
Balanced(u, t) ==
    /\ Accounted(u, t) <= Entered(u, t)
    /\ t # "STORAGE_ADD" => Accounted(u, t) = Entered(u, t)

\* A step that adds to either side of the balance, or moves bytes within one.
LEMMA BalanceKept ==
  ASSUME Typed, NEW u \in Users, NEW t \in Types, Balanced(u, t),
         NEW total \in Int, NEW part \in Int, NEW miss \in Int, NEW entered \in Int,
         Total(daily, u, ColumnOf(t))' = Total(daily, u, ColumnOf(t)) + total,
         Pending(task, u, t)' = Pending(task, u, t) + part,
         missed'[u][t] = missed[u][t] + miss,
         Entered(u, t)' = Entered(u, t) + entered,
         total + part + miss <= entered,
         t # "STORAGE_ADD" => total + part + miss = entered
  PROVE  Balanced(u, t)'
<1>1. PICK a \in Nat, b \in Nat, c \in Nat, d \in Nat :
        /\ a = Total(daily, u, ColumnOf(t)) /\ b = Pending(task, u, t)
        /\ c = missed[u][t] /\ d = Entered(u, t)
  <2>1. Entered(u, t) \in Nat
    <3>1. PICK x \in Nat, y \in Nat : x = Written(recorded, u, t) /\ y = cleaned[u][t]
      BY BalanceTyped
    <3>2. QED
      BY <3>1 DEF Entered
  <2>2. QED
    BY <2>1, BalanceTyped
<1>2. Accounted(u, t) = a + b + c
  BY <1>1 DEF Accounted
<1>3. Accounted(u, t)' = (a + total) + (b + part) + (c + miss) /\ Entered(u, t)' = d + entered
  BY <1>1 DEF Accounted
<1>4. a + b + c <= d /\ (t # "STORAGE_ADD" => a + b + c = d)
  BY <1>1, <1>2 DEF Balanced
<1>5. (a + total) + (b + part) + (c + miss) <= d + entered
      /\ (t # "STORAGE_ADD" => (a + total) + (b + part) + (c + miss) = d + entered)
  BY <1>4
<1>6. QED
  BY <1>3, <1>5 DEF Balanced

\* A step that changes neither side.
LEMMA BalanceSame ==
  ASSUME Typed, NEW u \in Users, NEW t \in Types, Balanced(u, t),
         Pending(task', u, t) = Pending(task, u, t),
         UNCHANGED <<recorded, cleaned, daily, missed>>
  PROVE  Balanced(u, t)'
<1>1. Accounted(u, t)' = Accounted(u, t)
  BY DEF Accounted
<1>2. Entered(u, t)' = Entered(u, t)
  BY DEF Entered
<1>3. QED
  BY <1>1, <1>2 DEF Balanced

Balance == \A u \in Users, t \in Types : Balanced(u, t)

\* A task changes that neither was nor is about to write a daily total.
LEMMA BalanceTask ==
  ASSUME Typed, NEW u \in Users, NEW t \in Types, Balanced(u, t), NEW p \in Procs, NEW k,
         task' = [task EXCEPT ![p] = k], Part(k, u, t) = Part(task[p], u, t),
         UNCHANGED <<recorded, cleaned, daily, missed>>
  PROVE  Balanced(u, t)'
<1>1. task \in [Procs -> Task] /\ task[p] \in Task
  BY DEF Typed
<1>2. PICK n \in Nat : n = Part(task[p], u, t)
  BY <1>1, PartIsNat
<1>3. PICK a \in Nat : a = Pending(task, u, t)
  BY BalanceTyped
<1>4. task'[p] = k /\ \A q \in Procs \ {p} : task'[q] = task[q]
  BY <1>1
<1>5. Pending(task', u, t) = Pending(task, u, t) - Part(task[p], u, t) + Part(k, u, t)
  <2>1. task \in [Procs -> Task] /\ Part(k, u, t) \in Nat
    BY <1>1, <1>2
  <2>2. PICK tasks : tasks = task'
    OBVIOUS
  <2>3. tasks[p] = k /\ \A q \in Procs \ {p} : tasks[q] = task[q]
    BY <1>4, <2>2
  <2>4. Pending(tasks, u, t) = Pending(task, u, t) - Part(task[p], u, t) + Part(k, u, t)
    BY <2>1, <2>3, PendingChange
  <2>5. QED
    BY <2>2, <2>4
<1>6. Pending(task', u, t) = Pending(task, u, t)
  BY <1>2, <1>3, <1>5
<1>7. QED
  BY <1>6, BalanceSame

LEMMA BalanceStirred ==
  ASSUME Typed, NEW u \in Users, NEW t \in Types, Balanced(u, t),
         task' = Stir(task) \/ task' = task,
         UNCHANGED <<recorded, cleaned, daily, missed>>
  PROVE  Balanced(u, t)'
<1>1. task \in [Procs -> Task]
  BY DEF Typed
<1>2. Pending(task', u, t) = Pending(task, u, t)
  BY <1>1, PendingStirred
<1>3. QED
  BY <1>2, BalanceSame

LEMMA BalanceCreated ==
  ASSUME Typed, NEW v \in Users, NEW t \in Types, Balanced(v, t),
         NEW p \in Procs, NEW u \in Users, CreateDetail(p, u)
  PROVE  Balanced(v, t)'
<1> DEFINE k == task[p]
<1>1. task \in [Procs -> Task] /\ k \in Task /\ now \in Moments
      /\ recorded \in [Users -> [UsageTypes -> [Moments -> Nat]]]
  BY DEF Typed
<1>2. PICK new \in Task :
         /\ task' = Stir([task EXCEPT ![p] = new])
         /\ new.pc = "daily" /\ new.user = u /\ new.todo = k.todo \ {u}
         /\ new.billed = k.billed + k.share /\ new.lost = k.lost
         /\ new.type = k.type /\ new.share = k.share /\ new.count = k.count
         /\ new.asked = k.asked
  BY CreateDetailIs
<1>3. /\ recorded' = [recorded EXCEPT ![u][k.type][now] = @ + k.share]
      /\ UNCHANGED <<cleaned, daily, missed>> /\ k.pc = "detail" /\ k.type \in UsageTypes
  BY CreateDetailIs DEF CreateDetail
<1>4. k.share \in Nat
  BY <1>1 DEF Task
<1>5. PICK n \in Nat : n = IF v = u /\ t = k.type THEN k.share ELSE 0
  BY <1>4
<1>6. Written(recorded', v, t) = Written(recorded, v, t) + n
  <2>1. t \in UsageTypes
    BY TypesAre
  <2>2. PICK s \in UsageTypes, share \in Nat, h \in Moments : s = k.type /\ share = k.share /\ h = now
    BY <1>1, <1>3, <1>4
  <2>3. PICK details : details = recorded'
    OBVIOUS
  <2>4. DetailChanges(recorded, details, u, s, h, share)
    BY <1>1, <1>3, <2>2, <2>3 DEF DetailChanges
  <2>5. recorded \in [Users -> [UsageTypes -> [Moments -> Nat]]]
    BY <1>1
  <2>6. /\ v = u /\ t = s => Written(details, v, t) = Written(recorded, v, t) + share
        /\ ~(v = u /\ t = s) => Written(details, v, t) = Written(recorded, v, t)
    BY <2>1, <2>4, <2>5, WrittenChange
  <2>7. PICK x \in Nat : x = Written(recorded, v, t)
    BY BalanceTyped
  <2>8. QED
    BY <1>5, <2>2, <2>6, <2>3, <2>7
<1>7. Entered(v, t)' = Entered(v, t) + n
  <2>1. PICK x \in Nat, y \in Nat : x = Written(recorded, v, t) /\ y = cleaned[v][t]
    BY BalanceTyped
  <2>2. Entered(v, t) = x + y /\ Entered(v, t)' = (x + n) + y
    BY <1>3, <1>6, <2>1 DEF Entered
  <2>3. QED
    BY <2>2
<1>8. Part(new, v, t) = n /\ Part(k, v, t) = 0
  BY <1>2, <1>3, <1>5 DEF Part
<1>9. Pending(task, v, t)' = Pending(task, v, t) + n
  <2> DEFINE mid == [task EXCEPT ![p] = new]
  <2>1. mid \in [Procs -> Task]
    BY <1>1
  <2>2. Pending(mid, v, t) = Pending(task, v, t) - Part(k, v, t) + Part(new, v, t)
    <3>1. Part(new, v, t) \in Nat
      BY <1>8
    <3>2. task \in [Procs -> Task] /\ mid[p] = new /\ \A q \in Procs \ {p} : mid[q] = task[q]
      BY <1>1
    <3>3. PICK tasks : tasks = mid
      OBVIOUS
    <3> HIDE DEF mid
    <3>4. Pending(tasks, v, t) = Pending(task, v, t) - Part(task[p], v, t) + Part(new, v, t)
      BY <3>1, <3>2, <3>3, PendingChange
    <3>5. QED
      BY <3>3, <3>4
  <2>3. task' = Stir(mid)
    BY <1>2
  <2> HIDE DEF mid
  <2>4. Pending(task', v, t) = Pending(mid, v, t)
    BY <2>1, <2>3, PendingStirred
  <2>5. PICK x \in Nat : x = Pending(task, v, t)
    BY BalanceTyped
  <2>6. QED
    BY <1>8, <2>2, <2>4, <2>5
<1>10. PICK none \in Int : none = 0
  OBVIOUS
<1>11. /\ Total(daily, v, ColumnOf(t))' = Total(daily, v, ColumnOf(t)) + none
       /\ missed'[v][t] = missed[v][t] + none
  BY <1>3, <1>10, BalanceTyped
<1>12. none + n + none <= n /\ none + n + none = n
  BY <1>5, <1>10
<1>13. QED
  BY <1>7, <1>9, <1>11, <1>12, BalanceKept

\* A row of the day is written, and the task has written it.
LEMMA BalanceRow ==
  ASSUME Typed, NEW v \in Users, NEW t \in Types, Balanced(v, t),
         NEW p \in Procs, task[p].pc \in {"daily", "update"}, Charged(p),
         NEW d \in Days, NEW row \in Rows,
         daily' = [daily EXCEPT ![task[p].user][d] = row],
         row[ColumnOf(t)] <= Cell(daily[task[p].user][d], ColumnOf(t)) + Gain(task[p], t),
         t # "STORAGE_ADD" =>
            row[ColumnOf(t)] = Cell(daily[task[p].user][d], ColumnOf(t)) + Gain(task[p], t),
         UNCHANGED <<recorded, cleaned, missed>>
  PROVE  Balanced(v, t)'
<1> DEFINE k == task[p]
           u == k.user
           c == ColumnOf(t)
           old == daily[u][d]
<1>1. /\ task \in [Procs -> Task] /\ k \in Task /\ u \in Users
      /\ daily \in [Users -> [Days -> Rows \cup {NoRow}]]
  BY DEF Typed, Placed
<1>2. c \in Columns /\ row # NoRow
  <2>1. row # NoRow
    BY UsageAssumption DEF Rows
  <2>2. QED
    BY <2>1, TypesAre, ColumnsAre
<1>3. PICK x \in Nat, y \in Nat, g \in Nat :
        x = Cell(old, c) /\ y = Cell(row, c) /\ g = Gain(k, t)
  <2>1. Gain(k, t) \in Nat
    BY <1>1 DEF Gain, Task
  <2>2. old \in Rows \cup {NoRow} /\ row \in Rows \cup {NoRow}
    BY <1>1
  <2>3. QED
    BY <1>2, <2>1, <2>2, CellIsNat
<1>4. y <= x + g /\ (t # "STORAGE_ADD" => y = x + g)
  BY <1>2, <1>3 DEF Cell
<1>5. PICK new \in Task :
         task' = [task EXCEPT ![p] = new] /\ new.pc \in {"done", "detail"}
  BY ChargedIs
<1>6. Part(new, v, t) = 0 /\ Part(k, v, t) = IF v = u THEN g ELSE 0
  BY <1>3, <1>5 DEF Part, Gain
<1>7. PICK part \in Int : part = IF v = u THEN -g ELSE 0
  BY <1>3
<1>8. PICK total \in Int : total = IF v = u THEN y - x ELSE 0
  BY <1>3
<1>9. Pending(task, v, t)' = Pending(task, v, t) + part
  <2>1. PICK a \in Nat : a = Pending(task, v, t)
    BY BalanceTyped
  <2>2. Part(new, v, t) \in Nat
    BY <1>6
  <2>3. task'[p] = new /\ \A q \in Procs \ {p} : task'[q] = task[q]
    BY <1>1, <1>5
  <2>4. Pending(task', v, t) = Pending(task, v, t) - Part(k, v, t) + Part(new, v, t)
    BY <1>1, <2>2, <2>3, PendingChange
  <2>5. QED
    BY <1>6, <1>7, <2>1, <2>4
<1>10. Total(daily, v, c)' = Total(daily, v, c) + total
  <2>1. PICK a \in Nat : a = Total(daily, v, c)
    BY BalanceTyped
  <2>2. row \in Rows \cup {NoRow}
    OBVIOUS
  <2>3. PICK who \in Users, column \in Columns : who = u /\ column = c
    BY <1>1, <1>2
  <2>4. PICK days : days = daily'
    OBVIOUS
  <2>5. /\ RowChanges(daily, days, who, d, row)
        /\ daily \in [Users -> [Days -> Rows \cup {NoRow}]]
    BY <1>1, <2>3, <2>4 DEF RowChanges
  <2>6. /\ v = who => Total(days, v, column)
                = Total(daily, who, column) - Cell(daily[who][d], column) + Cell(row, column)
        /\ v # who => Total(days, v, column) = Total(daily, v, column)
    BY <2>2, <2>5, TotalChange
  <2>7. Total(daily', v, c)
          = IF v = u THEN Total(daily, u, c) - Cell(old, c) + Cell(row, c) ELSE Total(daily, v, c)
    BY <2>3, <2>6, <2>4
  <2>8. Total(daily', v, c)
          = IF v = u THEN Total(daily, u, c) - x + y ELSE Total(daily, v, c)
    BY <1>3, <2>7
  <2>9. QED
    BY <1>8, <2>1, <2>8
<1>11. PICK none \in Int : none = 0
  OBVIOUS
<1>12. Entered(v, t)' = Entered(v, t) + none /\ missed'[v][t] = missed[v][t] + none
  <2>1. PICK a \in Nat, b \in Nat, m \in Nat :
          a = Written(recorded, v, t) /\ b = cleaned[v][t] /\ m = missed[v][t]
    BY BalanceTyped
  <2>2. Entered(v, t) = a + b /\ Entered(v, t)' = a + b /\ missed'[v][t] = m
    BY <2>1 DEF Entered
  <2>3. QED
    BY <1>11, <2>1, <2>2
<1>13. total + part + none <= none /\ (t # "STORAGE_ADD" => total + part + none = none)
  BY <1>3, <1>4, <1>7, <1>8, <1>11
<1>14. QED
  BY <1>9, <1>10, <1>12, <1>13, BalanceKept

LEMMA ColumnHere ==
  ASSUME NEW t \in Types
  PROVE  t \in UsageTypes /\ ColumnOf(t) \in Columns
  BY TypesAre, ColumnsAre

\* Writing a row in one statement, or updating it.
LEMMA BalanceUpserted ==
  ASSUME Typed, NEW v \in Users, NEW t \in Types, Balanced(v, t),
         NEW p \in Procs, UpsertMySQL(p) \/ UpsertUpdate(p)
  PROVE  Balanced(v, t)'
<1> DEFINE k == task[p]
           c == ColumnOf(t)
<1>1. k \in Task /\ Placed(k) /\ k.pc \in {"daily", "update"}
  BY DEF Typed, UpsertMySQL, UpsertUpdate
<1>2. k.user \in Users /\ k.type \in UsageTypes /\ c \in Columns
  BY <1>1, ColumnHere DEF Placed, Recording
<1>3. /\ Charged(p) /\ UNCHANGED <<recorded, cleaned, missed>>
  BY DEF UpsertMySQL, UpsertUpdate
<1>4. Gain(k, t) \in Nat
  BY <1>1 DEF Gain, Task
<1>5. CASE UpsertMySQL(p)
  <2> DEFINE old == daily[k.user][Today]
             row == IF old = NoRow THEN FirstRow(k) ELSE AddTo(old, k)
  <2>1. daily' = [daily EXCEPT ![k.user][Today] = row]
    BY <1>5 DEF UpsertMySQL
  <2>2. old # NoRow => old \in Rows
    BY <1>2, RowOrNone, TodayIs
  <2>3. row \in Rows
    BY <1>1, <2>2, RowAdded
  <2>4. /\ row[c] <= Cell(old, c) + Gain(k, t)
        /\ t # "STORAGE_ADD" => row[c] = Cell(old, c) + Gain(k, t)
    <3>1. CASE old = NoRow
      <4>1. 0 + Gain(k, t) = Gain(k, t)
        BY <1>4
      <4>2. /\ FirstRow(k)[c] <= Gain(k, t)
            /\ t # "STORAGE_ADD" => FirstRow(k)[c] = Gain(k, t)
        BY <1>1, <1>2, FirstRowGains
      <4>3. Cell(old, c) = 0 /\ row = FirstRow(k)
        BY <3>1 DEF Cell
      <4>4. QED
        BY <4>1, <4>2, <4>3
    <3>2. CASE old # NoRow
      <4>1. /\ AddTo(old, k)[c] <= old[c] + Gain(k, t)
            /\ t # "STORAGE_ADD" => AddTo(old, k)[c] = old[c] + Gain(k, t)
        BY <1>1, <1>2, <2>2, <3>2, RowGains
      <4>2. Cell(old, c) = old[c] /\ row = AddTo(old, k)
        BY <3>2 DEF Cell
      <4>3. QED
        BY <4>1, <4>2
    <3>3. QED
      BY <3>1, <3>2
  <2> HIDE DEF row
  <2>5. Today \in Days
    BY TodayIs
  <2>6. QED
    BY <1>1, <1>3, <2>1, <2>3, <2>4, <2>5, BalanceRow
<1>6. CASE UpsertUpdate(p)
  <2>1. k.pc = "update" /\ k.day \in Days
    BY <1>1, <1>6 DEF UpsertUpdate, Placed
  <2> DEFINE old == daily[k.user][k.day]
             row == AddTo(old, k)
  <2>2. daily' = [daily EXCEPT ![k.user][k.day] = row]
    BY <1>6 DEF UpsertUpdate
  <2>3. old \in Rows /\ old # NoRow
    <3>1. old # NoRow
      BY <2>1 DEF Typed
    <3>2. QED
      BY <1>2, <2>1, <3>1, RowOrNone
  <2>4. row \in Rows
    BY <1>1, <2>3, RowAdded
  <2>5. /\ row[c] <= Cell(old, c) + Gain(k, t)
        /\ t # "STORAGE_ADD" => row[c] = Cell(old, c) + Gain(k, t)
    <3>1. /\ AddTo(old, k)[c] <= old[c] + Gain(k, t)
          /\ t # "STORAGE_ADD" => AddTo(old, k)[c] = old[c] + Gain(k, t)
      BY <1>1, <1>2, <2>3, RowGains
    <3>2. Cell(old, c) = old[c]
      BY <2>3 DEF Cell
    <3>3. QED
      BY <3>1, <3>2
  <2> HIDE DEF row
  <2>6. QED
    BY <1>1, <1>3, <2>1, <2>2, <2>4, <2>5, BalanceRow
<1>7. QED
  BY <1>5, <1>6

\* A row of zeros counts like none.
LEMMA BalanceInserted ==
  ASSUME Typed, NEW v \in Users, NEW t \in Types, Balanced(v, t),
         NEW p \in Procs, UpsertInsert(p)
  PROVE  Balanced(v, t)'
<1> DEFINE k == task[p]
           c == ColumnOf(t)
<1>1. /\ k \in Task /\ Placed(k) /\ k.pc = "daily" /\ task \in [Procs -> Task]
      /\ daily \in [Users -> [Days -> Rows \cup {NoRow}]]
  BY DEF Typed, UpsertInsert
<1>2. k.user \in Users /\ c \in Columns
  BY <1>1, ColumnHere DEF Placed
<1>3. PICK who \in Users, d \in Days : who = k.user /\ d = Today
  BY <1>2, TodayIs
<1>4. daily' = [daily EXCEPT ![who][d] = IF daily[who][d] = NoRow THEN Zeros ELSE daily[who][d]]
      /\ UNCHANGED <<recorded, cleaned, missed>>
  BY <1>3 DEF UpsertInsert
<1>5. Total(daily', v, c) = Total(daily, v, c)
  <2>1. Zeros \in Rows /\ Zeros # NoRow /\ Zeros[c] = 0
    <3>1. Zeros \in Rows
      BY <1>1, RowAdded
    <3>2. QED
      BY <1>2, <3>1, UsageAssumption DEF Zeros, Rows
  <2>2. ASSUME NEW e \in Days PROVE Cell(daily'[v][e], c) = Cell(daily[v][e], c)
    <3>1. CASE v = who /\ e = d
      <4>1. daily'[v][e] = IF daily[v][e] = NoRow THEN Zeros ELSE daily[v][e]
        BY <1>1, <1>4, <3>1
      <4>2. QED
        BY <2>1, <4>1 DEF Cell
    <3>2. CASE ~(v = who /\ e = d)
      <4>1. daily'[v][e] = daily[v][e]
        BY <1>1, <1>4, <3>2
      <4>2. QED
        BY <4>1
    <3>3. QED
      BY <3>1, <3>2
  <2> DEFINE f == [e \in Days |-> Cell(daily[v][e], c)]
             g == [e \in Days |-> Cell(daily'[v][e], c)]
  <2>3. f = g
    BY <2>2
  <2>4. Total(daily', v, c) = SumFunctionOnSet(g, Days) /\ Total(daily, v, c) = SumFunctionOnSet(f, Days)
    BY DEF Total
  <2> HIDE DEF f, g
  <2>5. QED
    BY <2>3, <2>4
<1>6. Pending(task', v, t) = Pending(task, v, t)
  <2>1. PICK new \in Task :
               /\ task' = [task EXCEPT ![p] = new]
               /\ new.pc = "update" /\ new.user = k.user /\ new.day = Today /\ new.todo = k.todo
               /\ new.billed = k.billed /\ new.lost = k.lost
               /\ new.type = k.type /\ new.share = k.share /\ new.count = k.count
               /\ new.asked = k.asked
    BY UpsertInsertIs
  <2>2. Part(new, v, t) = Part(k, v, t)
    BY <1>1, <2>1 DEF Part
  <2>3. PICK n \in Nat : n = Part(k, v, t) /\ n = Part(new, v, t)
    BY <1>1, <2>2, PartIsNat
  <2>4. PICK tasks : tasks = task'
    OBVIOUS
  <2>5. tasks[p] = new /\ \A q \in Procs \ {p} : tasks[q] = task[q]
    BY <1>1, <2>1, <2>4
  <2>6. Part(new, v, t) \in Nat
    BY <2>3
  <2>7. Pending(tasks, v, t) = Pending(task, v, t) - Part(task[p], v, t) + Part(new, v, t)
    BY <1>1, <2>5, <2>6, PendingChange
  <2>8. PICK a \in Nat : a = Pending(task, v, t)
    BY BalanceTyped
  <2>9. Pending(tasks, v, t) = a - n + n
    BY <2>3, <2>7, <2>8
  <2>10. a - n + n = a
    BY <2>3, <2>8
  <2>11. QED
    BY <2>4, <2>8, <2>9, <2>10
<1>7. Accounted(v, t)' = Accounted(v, t)
  BY <1>4, <1>5, <1>6 DEF Accounted
<1>8. Entered(v, t)' = Entered(v, t)
  BY <1>4 DEF Entered
<1>9. QED
  BY <1>7, <1>8 DEF Balanced

LEMMA BalanceMissed ==
  ASSUME Typed, NEW v \in Users, NEW t \in Types, Balanced(v, t),
         NEW p \in Procs, DailyFails(p)
  PROVE  Balanced(v, t)'
<1> DEFINE k == task[p]
<1>1. /\ k \in Task /\ Placed(k) /\ k.pc \in {"daily", "update"} /\ task \in [Procs -> Task]
      /\ missed \in [Users -> [UsageTypes -> Nat]]
  BY DEF Typed, DailyFails
<1>2. k.user \in Users /\ k.type \in UsageTypes /\ k.share \in Nat /\ t \in UsageTypes
  <2>1. k.share \in Nat
    BY <1>1 DEF Task
  <2>2. QED
    BY <1>1, <2>1, ColumnHere DEF Placed, Recording
<1>3. /\ missed' = [missed EXCEPT ![k.user][k.type] = @ + k.share]
      /\ Charged(p) /\ UNCHANGED <<recorded, cleaned, daily>>
  BY DEF DailyFails
<1>4. PICK g \in Nat : g = IF v = k.user /\ t = k.type THEN k.share ELSE 0
  BY <1>2
<1>5. missed'[v][t] = missed[v][t] + g
  <2>1. PICK a \in Nat : a = missed[v][t]
    BY BalanceTyped
  <2>2. CASE v = k.user /\ t = k.type
    <3>1. missed'[k.user][k.type] = missed[k.user][k.type] + k.share
      BY <1>1, <1>2, <1>3
    <3>2. QED
      BY <1>4, <2>2, <3>1
  <2>3. CASE ~(v = k.user /\ t = k.type)
    <3>1. missed'[v][t] = missed[v][t]
      BY <1>1, <1>2, <1>3, <2>3
    <3>2. QED
      BY <1>4, <2>1, <2>3, <3>1
  <2>4. QED
    BY <2>2, <2>3
<1>6. PICK new \in Task :
         task' = [task EXCEPT ![p] = new] /\ new.pc \in {"done", "detail"}
  BY <1>1, <1>3, ChargedIs
<1>7. Part(new, v, t) = 0 /\ Part(k, v, t) = g
  BY <1>1, <1>4, <1>6 DEF Part
<1>8. PICK part \in Int : part = -g
  BY <1>4
<1>9. Pending(task, v, t)' = Pending(task, v, t) + part
  <2>1. PICK tasks : tasks = task'
    OBVIOUS
  <2>2. tasks[p] = new /\ \A q \in Procs \ {p} : tasks[q] = task[q]
    BY <1>1, <1>6, <2>1
  <2>3. Part(new, v, t) \in Nat
    BY <1>7
  <2>4. Pending(tasks, v, t) = Pending(task, v, t) - Part(task[p], v, t) + Part(new, v, t)
    BY <1>1, <2>2, <2>3, PendingChange
  <2>5. PICK a \in Nat : a = Pending(task, v, t)
    BY BalanceTyped
  <2>6. QED
    BY <1>7, <1>8, <2>1, <2>4, <2>5
<1>10. PICK none \in Int : none = 0
  OBVIOUS
<1>11. /\ Total(daily, v, ColumnOf(t))' = Total(daily, v, ColumnOf(t)) + none
       /\ Entered(v, t)' = Entered(v, t) + none
  <2>1. PICK a \in Nat, x \in Nat, y \in Nat :
          a = Total(daily, v, ColumnOf(t)) /\ x = Written(recorded, v, t) /\ y = cleaned[v][t]
    BY BalanceTyped
  <2>2. Entered(v, t) = x + y /\ Entered(v, t)' = x + y /\ Total(daily, v, ColumnOf(t))' = a
    BY <1>3, <2>1 DEF Entered
  <2>3. QED
    BY <1>10, <2>1, <2>2
<1>12. none + part + g <= none /\ none + part + g = none
  BY <1>4, <1>8, <1>10
<1>13. QED
  BY <1>5, <1>9, <1>11, <1>12, BalanceKept

\* Details that are deleted are noted as such.
LEMMA BalanceCleaned ==
  ASSUME Typed, NEW v \in Users, NEW t \in Types, Balanced(v, t),
         NEW days, CleanupOldRecords(days)
  PROVE  Balanced(v, t)'
<1> DEFINE old == {h \in Moments : h < now - days * DayHours}
           rest == Moments \ old
           f == recorded[v][t]
           g == recorded'[v][t]
<1>1. t \in UsageTypes /\ recorded \in [Users -> [UsageTypes -> [Moments -> Nat]]]
      /\ task \in [Procs -> Task]
  BY ColumnHere DEF Typed
<1>2. /\ recorded' = [u \in Users |-> [s \in UsageTypes |-> [h \in Moments |->
                          IF h \in old THEN 0 ELSE recorded[u][s][h]]]]
      /\ cleaned' = [u \in Users |-> [s \in UsageTypes |->
                          cleaned[u][s] + SumFunctionOnSet(recorded[u][s], old)]]
      /\ task' = Stir(task) /\ UNCHANGED <<daily, missed>>
  BY DEF CleanupOldRecords
<1>3. /\ old \cup rest = Moments /\ old \cap rest = {}
      /\ IsFiniteSet(old) /\ IsFiniteSet(rest) /\ IsFiniteSet(Moments)
  BY FiniteAssumption, FS_Subset
<1>4. \A h \in Moments : f[h] \in Nat
  BY <1>1
<1>5. \A h \in Moments : g[h] = IF h \in old THEN 0 ELSE f[h]
  BY <1>1, <1>2
<1>6. cleaned'[v][t] = cleaned[v][t] + SumFunctionOnSet(f, old)
  BY <1>1, <1>2
<1>7. Written(recorded, v, t) = SumFunctionOnSet(f, Moments)
      /\ Written(recorded', v, t) = SumFunctionOnSet(g, Moments)
  BY DEF Written
<1> HIDE DEF old, rest, f, g
<1>8. rest = Moments \ old
  BY DEF rest
<1>9. /\ \A h \in old : f[h] \in Nat /\ g[h] = 0
      /\ \A h \in rest : f[h] \in Nat /\ g[h] = f[h]
  BY <1>3, <1>4, <1>5
<1>10. SumFunctionOnSet(f, old \cup rest) = SumFunctionOnSet(f, old) + SumFunctionOnSet(f, rest)
  <2>1. \A h \in old \cup rest : f[h] \in Nat
    BY <1>3, <1>4
  <2>2. QED
    BY <1>3, <2>1, SumOfDisjoint
<1>11. SumFunctionOnSet(g, old \cup rest) = SumFunctionOnSet(g, old) + SumFunctionOnSet(g, rest)
  <2>1. \A h \in old \cup rest : g[h] \in Nat
    BY <1>9
  <2>2. QED
    BY <1>3, <2>1, SumOfDisjoint
<1>12. SumFunctionOnSet(g, old) = 0
  <2>1. \A h \in old : g[h] = 0
    BY <1>9
  <2>2. QED
    BY <1>3, <2>1, SumOfZeros
<1>13. SumFunctionOnSet(g, rest) = SumFunctionOnSet(f, rest)
  BY <1>3, <1>9, SumOfSame
<1>14. PICK x \in Nat, y \in Nat : x = SumFunctionOnSet(f, old) /\ y = SumFunctionOnSet(f, rest)
  BY <1>3, <1>9, SumIsNat
<1>15. Written(recorded, v, t) = x + y /\ Written(recorded', v, t) = y
  <2>1. SumFunctionOnSet(f, Moments) = x + y
    BY <1>3, <1>10, <1>14
  <2>2. SumFunctionOnSet(g, Moments) = 0 + y
    BY <1>3, <1>11, <1>12, <1>13, <1>14
  <2>3. 0 + y = y
    BY <1>14
  <2>4. QED
    BY <1>7, <2>1, <2>2, <2>3
<1>16. PICK b \in Nat : b = cleaned[v][t]
  BY BalanceTyped
<1>17. Entered(v, t) = (x + y) + b /\ Entered(v, t)' = y + (b + x)
  BY <1>6, <1>14, <1>15, <1>16 DEF Entered
<1>18. Entered(v, t)' = Entered(v, t)
  BY <1>14, <1>16, <1>17
<1>19. Pending(task', v, t) = Pending(task, v, t)
  BY <1>1, <1>2, PendingStirred
<1>20. Accounted(v, t)' = Accounted(v, t)
  BY <1>2, <1>19 DEF Accounted
<1>21. QED
  BY <1>18, <1>20 DEF Balanced

LEMMA BalanceInit == Init => Balance
<1> SUFFICES ASSUME Init, NEW u \in Users, NEW t \in Types PROVE Balanced(u, t)
  BY DEF Balance
<1>1. t \in UsageTypes /\ ColumnOf(t) \in Columns
  BY ColumnHere
<1>2. Total(daily, u, ColumnOf(t)) = 0
  <2> DEFINE f == [d \in Days |-> Cell(daily[u][d], ColumnOf(t))]
  <2>1. \A d \in Days : f[d] = 0
    BY DEF Init, Cell
  <2>2. Total(daily, u, ColumnOf(t)) = SumFunctionOnSet(f, Days)
    BY DEF Total
  <2> HIDE DEF f
  <2>3. QED
    BY <2>1, <2>2, DaysFinite, SumOfZeros
<1>3. Pending(task, u, t) = 0
  <2> DEFINE f == [p \in Procs |-> Part(task[p], u, t)]
  <2>1. \A p \in Procs : f[p] = 0
    BY IdleTyped DEF Init, Part
  <2>2. Pending(task, u, t) = SumFunctionOnSet(f, Procs)
    BY DEF Pending
  <2> HIDE DEF f
  <2>3. QED
    BY <2>1, <2>2, FiniteAssumption, SumOfZeros
<1>4. Written(recorded, u, t) = 0
  <2> DEFINE f == recorded[u][t]
  <2>1. \A h \in Moments : f[h] = 0
    BY <1>1 DEF Init
  <2>2. Written(recorded, u, t) = SumFunctionOnSet(f, Moments)
    BY DEF Written
  <2> HIDE DEF f
  <2>3. QED
    BY <2>1, <2>2, FiniteAssumption, SumOfZeros
<1>5. missed[u][t] = 0 /\ cleaned[u][t] = 0
  BY <1>1 DEF Init
<1>6. QED
  BY <1>2, <1>3, <1>4, <1>5 DEF Balanced, Accounted, Entered

LEMMA BalanceStep == Typed /\ RoundInv /\ Balance /\ [Next]_vars => Balance'
<1> SUFFICES ASSUME Typed, RoundInv, Balance, [Next]_vars, NEW v \in Users, NEW t \in Types
             PROVE  Balanced(v, t)'
  BY DEF Balance
<1>1. Balanced(v, t)
  BY DEF Balance
<1>2. ASSUME NEW p \in Procs, Begins(p) PROVE Balanced(v, t)'
  <2>1. PICK type \in UsageTypes, users \in SUBSET Users, bytes \in Nat :
          users # {} /\ Begin(p, type, CalculateSharedBytes(bytes, Cardinality(users)), users, bytes)
    BY <1>2 DEF Begins
  <2>2. PICK new : /\ task' = [task EXCEPT ![p] = new] /\ IsFree(p) /\ new.pc = "detail"
                   /\ UNCHANGED <<now, dialect, accounts, recorded, cleaned, daily, missed, failures>>
    BY <2>1, BeginIs
  <2>3. Part(new, v, t) = Part(task[p], v, t)
    BY <2>2 DEF Part, IsFree
  <2>4. QED
    BY <1>1, <2>2, <2>3, BalanceTask
<1>3. ASSUME NEW p \in Procs, Elsewhere(p) PROVE Balanced(v, t)'
  <2>1. Part(task'[p], v, t) = Part(task[p], v, t)
    BY <1>3 DEF Part, Elsewhere, Places, Recording
  <2>2. PICK new : new = task'[p]
    OBVIOUS
  <2>3. task' = [task EXCEPT ![p] = new] /\ UNCHANGED <<recorded, cleaned, daily, missed>>
    BY <1>3, <2>2 DEF Elsewhere
  <2>4. QED
    BY <1>1, <2>1, <2>2, <2>3, BalanceTask
<1>4. ASSUME NEW p \in Procs, NEW u \in Users, DetailFails(p, u) PROVE Balanced(v, t)'
  <2>1. PICK new : task' = [task EXCEPT ![p] = new] /\ new.pc \in {"done", "detail"}
    BY <1>4, DetailFailsIs
  <2>2. task[p].pc = "detail" /\ UNCHANGED <<recorded, cleaned, daily, missed>>
    BY <1>4 DEF DetailFails
  <2>3. Part(new, v, t) = Part(task[p], v, t)
    BY <2>1, <2>2 DEF Part
  <2>4. QED
    BY <1>1, <2>1, <2>2, <2>3, BalanceTask
<1>5. CASE Tick \/ UNCHANGED vars
  BY <1>1, <1>5, BalanceStirred DEF Tick, vars
<1>6. QED
  BY <1>1, <1>2, <1>3, <1>4, <1>5, StepsAre, BalanceCreated, BalanceUpserted, BalanceInserted,
     BalanceMissed, BalanceCleaned

\* Daily totals against usage details, at every step of a recording.
THEOREM BalanceHolds == Spec => []Balance
  BY BalanceInit, BalanceStep, TypedHolds, RoundInvHolds, PTL DEF Spec

LEMMA BalanceMeans == Typed /\ Balance => DailyAgrees /\ StoredIsCovered
<1> SUFFICES ASSUME Typed, Balance PROVE DailyAgrees /\ StoredIsCovered
  OBVIOUS
<1>1. ASSUME NEW u \in Users, NEW t \in {"UPLOAD", "DOWNLOAD"}
      PROVE  DailyTotal(u, ColumnOf(t)) + UnderWay(u, t) + missed[u][t] = Ever(u, t)
  <2>1. t \in Types /\ t \in UsageTypes /\ t # "STORAGE_ADD"
    BY TypesAre
  <2>2. Accounted(u, t) = Entered(u, t)
    BY <2>1 DEF Balance, Balanced
  <2>3. QED
    BY <2>1, <2>2, SumsAre DEF Accounted
<1>2. ASSUME NEW u \in Users
      PROVE  DailyTotal(u, "stored") <= Ever(u, "STORAGE_ADD")
  <2>1. PICK t \in Types : t = "STORAGE_ADD" /\ t \in UsageTypes /\ ColumnOf(t) = "stored"
    BY TypesAre, ColumnsAre
  <2>2. Accounted(u, t) <= Entered(u, t)
    BY DEF Balance, Balanced
  <2>3. PICK a \in Nat, b \in Nat, c \in Nat, x \in Nat, y \in Nat :
          /\ a = Total(daily, u, ColumnOf(t)) /\ b = Pending(task, u, t) /\ c = missed[u][t]
          /\ x = Written(recorded, u, t) /\ y = cleaned[u][t]
    BY BalanceTyped
  <2>4. a + b + c <= x + y
    BY <2>2, <2>3 DEF Accounted, Entered
  <2>5. a <= x + y
    BY <2>3, <2>4
  <2>6. DailyTotal(u, "stored") = a /\ Ever(u, "STORAGE_ADD") = x + y
    BY <2>1, <2>3, SumsAre DEF Entered
  <2>7. QED
    BY <2>5, <2>6
<1>3. QED
  BY <1>1, <1>2 DEF DailyAgrees, StoredIsCovered

\* No upload or download is lost from the daily totals or counted twice there, whatever
\* recordings meet in one row and whatever is cleaned up meanwhile.
THEOREM DailyTotalsAgree == Spec => []DailyAgrees
  BY TypedHolds, BalanceHolds, BalanceMeans, PTL

\* Daily totals of stored bytes never exceed what was added, although removals are clamped
\* day by day.
THEOREM StoredBytesAreCovered == Spec => []StoredIsCovered
  BY TypedHolds, BalanceHolds, BalanceMeans, PTL

-----------------------------------------------------------------------------
(* What the check of a user lets pass.                                     *)

\* The bytes of the limit of u on t that are left, as its check sees them.
RoomOf(u, t) ==
    LET limit == accounts[u].limits[t] IN
    Remaining(limit.bytes, IF ValidWindow(limit.window) THEN UsageForWindow(u, t, limit.window) ELSE 0)

IsLimited(u, t) ==
    /\ accounts[u].policy \in {"HARD_LIMITS", "THRESHOLD"}
    /\ accounts[u].limits # Unresolved /\ accounts[u].limits[t].bytes > 0
    /\ \/ ValidWindow(accounts[u].limits[t].window)
       \/ accounts[u].policy = "THRESHOLD" /\ IsNil(accounts[u].limits[t].window)

LEMMA LimitBytes ==
  ASSUME Typed, NEW u \in Users, NEW t \in Types, accounts[u].limits # Unresolved
  PROVE  accounts[u].limits[t].bytes \in 0..MaxUint /\ accounts[u].limits[t].bytes \in Nat
  BY AccountsAre, MaxUintIs

LEMMA HardVerdict ==
  ASSUME NEW limits, NEW t, limits # Unresolved, NEW bytes \in Nat, bytes = limits[t].bytes,
         NEW used \in Nat, NEW n \in Nat \ {0}
  PROVE  /\ bytes = 0 => CheckHardLimits(limits, t, used, 0, n) = "allowed"
         /\ bytes > 0 /\ ~ValidWindow(limits[t].window) => CheckHardLimits(limits, t, used, 0, n) = "error"
         /\ bytes > 0 /\ ValidWindow(limits[t].window) =>
               CheckHardLimits(limits, t, used, 0, n) =
                  IF n <= Remaining(bytes, used) THEN "allowed" ELSE "denied"
<1>1. used + 0 = used
  OBVIOUS
<1>2. bytes > 0 => (n <= Remaining(bytes, used) <=> ~(bytes < used \/ n > bytes - used))
  BY DEF Remaining
<1>3. QED
  BY <1>1, <1>2 DEF CheckHardLimits

LEMMA ThresholdVerdict ==
  ASSUME NEW limits, NEW t, limits # Unresolved, NEW bytes \in Nat, bytes = limits[t].bytes,
         NEW used \in Nat, NEW n \in Nat \ {0}
  PROVE  /\ bytes = 0 => CheckThreshold(limits, t, used, n) = "allowed"
         /\ bytes > 0 /\ ~IsNil(limits[t].window) /\ ~ValidWindow(limits[t].window) =>
               CheckThreshold(limits, t, used, n) = "error"
         /\ bytes > 0 /\ ~IsNil(limits[t].window) /\ ValidWindow(limits[t].window) =>
               /\ CheckThreshold(limits, t, used, n) \in {"allowed", "warned", "denied"}
               /\ Passes(CheckThreshold(limits, t, used, n)) <=> n <= Remaining(bytes, used)
         /\ bytes > 0 /\ IsNil(limits[t].window) =>
               /\ CheckThreshold(limits, t, used, n) \in {"allowed", "warned", "denied"}
               /\ Passes(CheckThreshold(limits, t, used, n)) <=> n <= Remaining(bytes, 0)
<1>1. ASSUME NEW current \in Nat, bytes > 0, NEW threshold
      PROVE  LET verdict == CheckThresholdWithLimit(current, n, threshold, bytes)
             IN  /\ verdict \in {"allowed", "warned", "denied"}
                 /\ Passes(verdict) <=> n <= Remaining(bytes, current)
  <2>1. n <= Remaining(bytes, current) <=> ~(current >= bytes \/ n > bytes - current)
    BY <1>1 DEF Remaining
  <2>2. QED
    BY <2>1 DEF CheckThresholdWithLimit, Passes
<1>2. QED
  BY <1>1 DEF CheckThreshold

\* The check of a user fails if it cannot tell, lets anything pass, or what there is
\* room for.
LEMMA VerdictIs ==
  ASSUME Typed, NEW u \in Users, NEW t \in Types, NEW n \in Nat \ {0}
  PROVE  LET verdict == CheckUserQuota(u, t, n) IN
         /\ verdict = "error" => CannotTell(u, t)
         /\ accounts[u].policy = "UNLIMITED" => Passes(verdict)
         /\ accounts[u].policy = "ALLOWANCE" => (Passes(verdict) <=> n <= accounts[u].left[t])
         /\ IsLimited(u, t) => (Passes(verdict) <=> n <= RoomOf(u, t)) /\ RoomOf(u, t) \in Nat
         /\ accounts[u].policy \in {"HARD_LIMITS", "THRESHOLD"} /\ ~IsLimited(u, t) =>
               (Passes(verdict) <=> accounts[u].limits # Unresolved /\ accounts[u].limits[t].bytes = 0)
<1> DEFINE limits == accounts[u].limits
           policy == accounts[u].policy
           window == limits[t].window
           used == IF limits # Unresolved /\ limits[t].bytes > 0 /\ ValidWindow(window)
                   THEN UsageForWindow(u, t, window) ELSE 0
           verdict == CheckUserQuota(u, t, n)
<1>1. t \in UsageTypes
  BY ColumnHere
<1>2. used \in Nat
  BY <1>1, UsageIsNat
<1>3. /\ policy = "HARD_LIMITS" => verdict = CheckHardLimits(limits, t, used, 0, n)
      /\ policy = "THRESHOLD" => verdict = CheckThreshold(limits, t, used, n)
      /\ policy = "ALLOWANCE" => verdict = CheckAllowance(accounts[u].left[t], n)
      /\ policy = "UNLIMITED" => verdict = CheckUnlimited(n)
  BY DEF CheckUserQuota
<1>4. policy \in EnforcementPolicies /\ accounts[u].left[t] \in Nat
  BY AccountsAre, MaxUintIs
<1>5. CASE policy = "UNLIMITED"
  BY <1>3, <1>5 DEF CheckUnlimited, Passes, IsLimited
<1>6. CASE policy = "ALLOWANCE"
  BY <1>3, <1>4, <1>6 DEF CheckAllowance, Passes, IsLimited
<1>7. CASE policy \in {"HARD_LIMITS", "THRESHOLD"} /\ limits = Unresolved
  <2>1. verdict = "error"
    BY <1>3, <1>7 DEF CheckHardLimits, CheckThreshold
  <2>2. QED
    BY <1>7, <2>1 DEF CannotTell, IsLimited, Passes
<1>8. CASE policy \in {"HARD_LIMITS", "THRESHOLD"} /\ limits # Unresolved
  <2>1. PICK bytes \in Nat : bytes = limits[t].bytes
    BY <1>8, LimitBytes
  <2>2. CASE bytes = 0
    <3>1. verdict = "allowed"
      <4>1. CheckHardLimits(limits, t, used, 0, n) = "allowed"
        BY <1>8, <2>1, <2>2 DEF CheckHardLimits
      <4>2. CheckThreshold(limits, t, used, n) = "allowed"
        BY <1>8, <2>1, <2>2 DEF CheckThreshold
      <4>3. QED
        BY <1>3, <1>8, <4>1, <4>2
    <3>2. ~IsLimited(u, t)
      BY <2>1, <2>2 DEF IsLimited
    <3>3. QED
      BY <1>8, <2>1, <2>2, <3>1, <3>2 DEF Passes
  <2>3. CASE bytes > 0 /\ ValidWindow(window)
    <3>1. used = UsageForWindow(u, t, window)
      BY <1>8, <2>1, <2>3
    <3>2. RoomOf(u, t) = Remaining(bytes, used)
      BY <2>1, <2>3, <3>1 DEF RoomOf
    <3>3. Remaining(bytes, used) \in Nat
      BY <1>2, <2>3, RemainingIs
    <3>4. ~IsNil(window)
      BY <2>3, CalendarAssumption DEF ValidWindow, IsNil, CalendarTypes
    <3>5. (Passes(verdict) <=> n <= Remaining(bytes, used)) /\ verdict # "error"
      <4>1. CASE policy = "HARD_LIMITS"
        <5>1. verdict = IF n <= Remaining(bytes, used) THEN "allowed" ELSE "denied"
          BY <1>2, <1>3, <1>8, <2>1, <2>3, <4>1, HardVerdict
        <5>2. QED
          BY <5>1 DEF Passes
      <4>2. CASE policy = "THRESHOLD"
        <5>1. /\ CheckThreshold(limits, t, used, n) \in {"allowed", "warned", "denied"}
              /\ Passes(CheckThreshold(limits, t, used, n)) <=> n <= Remaining(bytes, used)
          BY <1>2, <1>8, <2>1, <2>3, <3>4, ThresholdVerdict
        <5>2. QED
          BY <1>3, <4>2, <5>1
      <4>3. QED
        BY <1>8, <4>1, <4>2
    <3>6. IsLimited(u, t)
      BY <1>8, <2>1, <2>3 DEF IsLimited
    <3>7. QED
      BY <1>8, <3>2, <3>3, <3>5, <3>6
  <2>4. CASE bytes > 0 /\ ~ValidWindow(window)
    <3>1. CannotTell(u, t)
      BY <2>1, <2>4 DEF CannotTell
    <3>2. CASE policy = "THRESHOLD" /\ IsNil(window)
      <4>1. /\ CheckThreshold(limits, t, used, n) \in {"allowed", "warned", "denied"}
            /\ Passes(CheckThreshold(limits, t, used, n)) <=> n <= Remaining(bytes, 0)
        <5>1. PICK shown \in Nat : shown = used
          BY <1>2
        <5>2. /\ CheckThreshold(limits, t, shown, n) \in {"allowed", "warned", "denied"}
              /\ Passes(CheckThreshold(limits, t, shown, n)) <=> n <= Remaining(bytes, 0)
          BY <1>8, <2>1, <2>4, <3>2, ThresholdVerdict
        <5>3. QED
          BY <5>1, <5>2
      <4>2. RoomOf(u, t) = Remaining(bytes, 0)
        BY <2>1, <2>4 DEF RoomOf
      <4>3. Remaining(bytes, 0) \in Nat
        BY <2>4, RemainingIs
      <4>4. IsLimited(u, t)
        BY <1>8, <2>1, <2>4, <3>2 DEF IsLimited
      <4>5. QED
        BY <1>3, <1>8, <3>1, <3>2, <4>1, <4>2, <4>3, <4>4
    <3>3. CASE ~(policy = "THRESHOLD" /\ IsNil(window))
      <4>1. verdict = "error"
        BY <1>2, <1>3, <1>8, <2>1, <2>4, <3>3, HardVerdict, ThresholdVerdict
      <4>2. ~IsLimited(u, t)
        BY <1>8, <2>4, <3>3 DEF IsLimited
      <4>3. QED
        BY <1>8, <2>1, <2>4, <3>1, <4>1, <4>2 DEF Passes
    <3>4. QED
      BY <3>2, <3>3
  <2>5. QED
    BY <2>1, <2>2, <2>3, <2>4
<1>9. QED
  BY <1>4, <1>5, <1>6, <1>7, <1>8 DEF EnforcementPolicies

LEMMA NothingAsked ==
  ASSUME Typed, NEW u \in Users, NEW t
  PROVE  CheckUserQuota(u, t, 0) = "error"
<1>1. accounts[u].policy \in EnforcementPolicies
  BY AccountsAre
<1>2. QED
  BY <1>1 DEF CheckUserQuota, EnforcementPolicies, CheckHardLimits, CheckThreshold, CheckAllowance,
              CheckUnlimited

\* Who may use so many bytes may use fewer.
LEMMA FewerPass ==
  ASSUME Typed, NEW u \in Users, NEW t \in Types, NEW m \in Nat \ {0}, NEW n \in Nat, m <= n,
         Passes(CheckUserQuota(u, t, n))
  PROVE  Passes(CheckUserQuota(u, t, m))
<1>1. n \in Nat \ {0}
  OBVIOUS
<1>2. accounts[u].policy \in EnforcementPolicies /\ accounts[u].left[t] \in Nat
  BY AccountsAre, MaxUintIs
<1>3. CASE accounts[u].policy = "UNLIMITED"
  BY <1>3, VerdictIs
<1>4. CASE accounts[u].policy = "ALLOWANCE"
  <2>1. n <= accounts[u].left[t]
    BY <1>1, <1>4, VerdictIs
  <2>2. m <= accounts[u].left[t]
    BY <1>2, <2>1
  <2>3. QED
    BY <1>4, <2>2, VerdictIs
<1>5. CASE IsLimited(u, t)
  <2>1. n <= RoomOf(u, t) /\ RoomOf(u, t) \in Nat
    BY <1>1, <1>5, VerdictIs
  <2>2. m <= RoomOf(u, t)
    BY <2>1
  <2>3. QED
    BY <1>5, <2>2, VerdictIs
<1>6. CASE accounts[u].policy \in {"HARD_LIMITS", "THRESHOLD"} /\ ~IsLimited(u, t)
  BY <1>1, <1>6, VerdictIs
<1>7. QED
  BY <1>2, <1>3, <1>4, <1>5, <1>6 DEF EnforcementPolicies

-----------------------------------------------------------------------------
(* Group checks.                                                           *)

\* All the checks, as they would answer now, and the users that cannot be told about.
Verdicts == [u \in Users |-> [t \in Types |-> [n \in Nat |-> CheckUserQuota(u, t, n)]]]
Untold == {c \in Users \X Types : CannotTell(c[1], c[2])}

Bear(V, users, t, n) ==
    \A u \in users : Passes(V[u][t][CalculateSharedBytes(n, Cardinality(users))])

\* In a round, who was kept can bear the share of the round, and whoever could bear a
\* share together are still in the round.
RoundKnows(k, V) ==
    /\ k.count <= Cardinality(k.group)
    /\ k.share = CalculateSharedBytes(k.asked, k.count)
    /\ \A u \in k.kept : Passes(V[u][k.type][k.share])
    /\ \A S \in SUBSET k.group :
          S # {} /\ Bear(V, S, k.type, k.asked) => S \subseteq k.kept \cup k.todo

AnswerFine(k, V, B) ==
    /\ k.answer \in {"yes", "no"} => k.type \in Types
    /\ k.answer = "yes" => \E S \in SUBSET k.group : S # {} /\ Bear(V, S, k.type, k.asked)
    /\ k.answer = "no" => ~\E S \in SUBSET k.group : S # {} /\ Bear(V, S, k.type, k.asked)
    /\ k.answer = "error" => \/ k.asked < Cardinality(k.group)
                             \/ \E u \in k.group : <<u, k.type>> \in B

GroupFine(k, V, B) ==
    /\ k.pc = "ask" /\ ~k.stirred => RoundKnows(k, V)
    /\ k.pc = "health" => k.asked = 0
    /\ k.pc = "answered" /\ ~k.stirred => AnswerFine(k, V, B)

GroupInv == \A p \in Procs : GroupFine(task[p], Verdicts, Untold)

LEMMA VerdictsSame ==
  ASSUME UNCHANGED <<now, accounts, recorded>>
  PROVE  UNCHANGED <<Verdicts, Untold>>
<1>1. ASSUME NEW u, NEW t, NEW n PROVE CheckUserQuota(u, t, n)' = CheckUserQuota(u, t, n)
  BY DEF CheckUserQuota, UsageForWindow
<1>2. ASSUME NEW u, NEW t PROVE CannotTell(u, t)' <=> CannotTell(u, t)
  BY DEF CannotTell
<1>3. Verdicts' = Verdicts
  BY <1>1 DEF Verdicts
<1>4. Untold' = Untold
  BY <1>2 DEF Untold
<1>5. QED
  BY <1>3, <1>4

\* The steps of one call, while nothing else moves.
LEMMA GroupAfter ==
  ASSUME Typed, GroupInv, NEW p \in Procs, NEW k, GroupFine(k, Verdicts, Untold),
         task' = [task EXCEPT ![p] = k], UNCHANGED <<now, accounts, recorded>>
  PROVE  GroupInv'
<1>1. \A q \in Procs : task'[q] = IF q = p THEN k ELSE task[q]
  BY DEF Typed
<1>2. UNCHANGED <<Verdicts, Untold>>
  BY VerdictsSame
<1>3. ASSUME NEW q \in Procs PROVE GroupFine(task'[q], Verdicts', Untold')
  BY <1>1, <1>2, <1>3 DEF GroupInv
<1>4. QED
  BY <1>3 DEF GroupInv

\* What is known is forgotten once usage, or time, moves on.
LEMMA GroupStirred ==
  ASSUME NEW tasks \in [Procs -> Task], \A q \in Procs : GroupFine(tasks[q], Verdicts, Untold),
         task' = Stir(tasks)
  PROVE  GroupInv'
<1>1. ASSUME NEW q \in Procs PROVE GroupFine(task'[q], Verdicts', Untold')
  <2>1. tasks[q] \in Task /\ GroupFine(tasks[q], Verdicts, Untold)
    OBVIOUS
  <2>2. CASE tasks[q].pc \in {"ask", "health", "answered"}
    <3> DEFINE new == [tasks[q] EXCEPT !.stirred = TRUE]
    <3>1. task'[q] = new
      BY <2>2 DEF Stir
    <3>2. new.stirred = TRUE /\ new.pc = tasks[q].pc /\ new.asked = tasks[q].asked
      BY <2>1 DEF Task
    <3> HIDE DEF new
    <3>3. QED
      BY <2>1, <3>1, <3>2 DEF GroupFine
  <2>3. CASE tasks[q].pc \notin {"ask", "health", "answered"}
    <3>1. task'[q] = tasks[q]
      BY <2>3 DEF Stir
    <3>2. QED
      BY <2>3, <3>1 DEF GroupFine
  <2>4. QED
    BY <2>2, <2>3
<1>2. QED
  BY <1>1 DEF GroupInv

LEMMA GroupUntouched ==
  ASSUME Typed, GroupInv, task' = task, UNCHANGED <<now, accounts, recorded>>
  PROVE  GroupInv'
<1>1. UNCHANGED <<Verdicts, Untold>>
  BY VerdictsSame
<1>2. QED
  BY <1>1 DEF GroupInv

\* With fewer users, the share is no smaller.
LEMMA ShareGrows ==
  ASSUME NEW b \in Nat, NEW m \in Nat \ {0}, NEW n \in Nat, m <= n
  PROVE  CalculateSharedBytes(b, n) <= CalculateSharedBytes(b, m)
<1>1. n \in Nat \ {0}
  OBVIOUS
<1>2. PICK x \in Nat, r \in 0..(m - 1) : x = b \div m /\ r = b % m /\ b = x * m + r
  BY DivIsNat
<1>3. PICK y \in Nat, s \in 0..(n - 1) : y = b \div n /\ s = b % n /\ b = y * n + s
  BY <1>1, DivIsNat
<1>4. y * m <= y * n
  BY <1>3
<1>5. y <= x
  <2>1. SUFFICES ASSUME x < y PROVE FALSE
    BY <1>2, <1>3
  <2>2. PICK d \in Nat : y = x + 1 + d
    <3>1. x \in Nat /\ y \in Nat /\ x < y
      BY <1>2, <1>3, <2>1
    <3>2. (y - x) - 1 \in Nat
      BY <3>1
    <3>3. y = x + 1 + ((y - x) - 1)
      BY <3>1
    <3>4. QED
      BY <3>2, <3>3
  <2>3. y * m = x * m + m + d * m
    BY <1>2, <2>2
  <2>4. d * m \in Nat /\ x * m \in Nat /\ y * m \in Nat /\ y * n \in Nat
    BY <1>2, <1>3, <2>2
  <2>5. PICK dm \in Nat, xm \in Nat, ym \in Nat, yn \in Nat :
          dm = d * m /\ xm = x * m /\ ym = y * m /\ yn = y * n
    BY <2>4
  <2>6. ym = xm + m + dm /\ ym <= yn /\ b = xm + r /\ b = yn + s
    BY <1>2, <1>3, <1>4, <2>3, <2>5
  <2>7. QED
    BY <2>6
<1>6. x = y /\ s # 0 => r # 0
  <2>1. SUFFICES ASSUME x = y, s # 0, r = 0 PROVE FALSE
    OBVIOUS
  <2>2. PICK ym \in Nat, yn \in Nat : ym = y * m /\ yn = y * n
    BY <1>3
  <2>3. b = ym + r /\ b = yn + s /\ ym <= yn
    BY <1>2, <1>3, <1>4, <2>1, <2>2
  <2>4. QED
    BY <2>1, <2>3
<1>7. /\ CalculateSharedBytes(b, m) = x + (IF Precision > 0 /\ r # 0 THEN 1 ELSE 0)
      /\ CalculateSharedBytes(b, n) = y + (IF Precision > 0 /\ s # 0 THEN 1 ELSE 0)
  BY <1>1, <1>2, <1>3 DEF CalculateSharedBytes
<1>8. QED
  BY <1>5, <1>6, <1>7

\* Shares of nothing are what more users than bytes come to.
LEMMA NoShare ==
  ASSUME NEW b \in Nat, NEW n \in Nat \ {0}, CalculateSharedBytes(b, n) = 0
  PROVE  b < n
<1>1. PICK x \in Nat, r \in 0..(n - 1) : x = b \div n /\ r = b % n /\ b = x * n + r
  <2>1. b \div n \in Nat /\ b % n \in 0..(n - 1) /\ b = (b \div n) * n + (b % n)
    BY DivIsNat
  <2>2. QED
    BY <2>1
<1>2. x + (IF Precision > 0 /\ r # 0 THEN 1 ELSE 0) = 0
  BY <1>1 DEF CalculateSharedBytes
<1>3. x = 0
  BY <1>1, <1>2
<1>4. 0 * n = 0
  OBVIOUS
<1>5. QED
  BY <1>1, <1>3, <1>4

LEMMA VerdictsAre ==
  ASSUME Typed, NEW u \in Users, NEW t \in Types
  PROVE  /\ \A n \in Nat : Verdicts[u][t][n] = CheckUserQuota(u, t, n)
         /\ \A m \in Nat \ {0}, n \in Nat :
               m <= n /\ Passes(Verdicts[u][t][n]) => Passes(Verdicts[u][t][m])
         /\ \A n \in Nat : Verdicts[u][t][n] = "error" => n = 0 \/ <<u, t>> \in Untold
<1>1. \A n \in Nat : Verdicts[u][t][n] = CheckUserQuota(u, t, n)
  BY DEF Verdicts
<1>2. ASSUME NEW m \in Nat \ {0}, NEW n \in Nat, m <= n, Passes(Verdicts[u][t][n])
      PROVE  Passes(Verdicts[u][t][m])
  <2>1. Passes(CheckUserQuota(u, t, n))
    BY <1>1, <1>2
  <2>2. Passes(CheckUserQuota(u, t, m))
    BY <1>2, <2>1, FewerPass
  <2>3. QED
    BY <1>1, <2>2
<1>3. ASSUME NEW n \in Nat, Verdicts[u][t][n] = "error", n # 0
      PROVE  <<u, t>> \in Untold
  <2>1. n \in Nat \ {0}
    BY <1>3
  <2>2. CannotTell(u, t)
    BY <1>1, <1>3, <2>1, VerdictIs
  <2>3. QED
    BY <2>2 DEF Untold
<1>4. QED
  BY <1>1, <1>2, <1>3

\* Tasks of which GroupFine says nothing.
LEMMA GroupNothing ==
  ASSUME NEW k, NEW V, NEW B, k.pc \notin {"ask", "health", "answered"}
  PROVE  GroupFine(k, V, B)
  BY DEF GroupFine

LEMMA GroupOfRecording ==
  ASSUME Typed, GroupInv, NEW p \in Procs, NEW k, k.pc \in Recording \cup {"idle"},
         task' = [task EXCEPT ![p] = k], UNCHANGED <<now, accounts, recorded>>
  PROVE  GroupInv'
<1>1. k.pc \notin {"ask", "health", "answered"}
  BY DEF Recording
<1>2. GroupFine(k, Verdicts, Untold)
  BY <1>1, GroupNothing
<1>3. QED
  BY <1>2, GroupAfter

LEMMA AnswerFields ==
  ASSUME NEW k \in Task, NEW answer
  PROVE  LET new == Answer(k, answer) IN
         /\ new.pc = "answered" /\ new.answer = answer /\ new.stirred = k.stirred
         /\ new.type = k.type /\ new.asked = k.asked /\ new.group = k.group
         /\ new.remaining = k.remaining /\ new.unlimited = k.unlimited
  BY DEF Answer, Task

LEMMA GroupCall ==
  ASSUME Typed, GroupInv, NEW p \in Procs, Call(p)
  PROVE  GroupInv'
<1>1. ASSUME Begins(p) PROVE GroupInv'
  <2>1. PICK type \in UsageTypes, users \in SUBSET Users, bytes \in Nat :
          users # {} /\ Begin(p, type, CalculateSharedBytes(bytes, Cardinality(users)), users, bytes)
    BY <1>1 DEF Begins
  <2>2. PICK new : /\ task' = [task EXCEPT ![p] = new] /\ new.pc = "detail"
                   /\ UNCHANGED <<now, accounts, recorded>>
    BY <2>1, BeginIs
  <2>3. QED
    BY <2>2, GroupOfRecording DEF Recording
<1>2. ASSUME NEW S \in SUBSET Users, NEW r \in Requests, CheckGroup(p, r[1], S, r[2]) PROVE GroupInv'
  <2>1. PICK t \in Types, n \in Nat : r[1] = t /\ r[2] = n
    BY UsageAssumption
  <2> DEFINE k == [Idle EXCEPT !.type = t, !.asked = n, !.group = S]
             new == Round(k, S)
  <2>2. /\ task' = [task EXCEPT ![p] = new] /\ UNCHANGED <<now, accounts, recorded>>
    BY <1>2, <2>1 DEF CheckGroup
  <2>3. /\ new.pc = "ask" /\ new.group = S /\ new.type = t /\ new.asked = n
        /\ new.count = Cardinality(S) /\ new.todo = S /\ new.kept = {}
        /\ new.share = CalculateSharedBytes(n, Cardinality(S))
    BY DEF Round, Idle
  <2> HIDE DEF new, k
  <2>4. Cardinality(S) <= Cardinality(S)
    <3>1. Cardinality(S) \in Nat
      BY UsageAssumption, FS_Subset, FS_CardinalityType
    <3>2. QED
      BY <3>1
  <2>5. RoundKnows(new, Verdicts)
    BY <2>3, <2>4 DEF RoundKnows
  <2>6. GroupFine(new, Verdicts, Untold)
    BY <2>3, <2>5 DEF GroupFine
  <2>7. QED
    BY <2>2, <2>6, GroupAfter
<1>3. ASSUME NEW S \in SUBSET Users, NEW stranger \in BOOLEAN, CheckHealth(p, S, stranger)
      PROVE  GroupInv'
  <2> DEFINE new == [Idle EXCEPT !.pc = "health", !.group = S, !.todo = Windowed(S),
                                 !.unlimited = Counted(S, {"UNLIMITED"}) # {}]
             other == Answer(Idle, "unauthorized")
  <2>1. /\ task' = [task EXCEPT ![p] = new] \/ task' = [task EXCEPT ![p] = other]
        /\ UNCHANGED <<now, accounts, recorded>>
    BY <1>3 DEF CheckHealth
  <2>2. new.pc = "health" /\ new.asked = 0
    BY DEF Idle
  <2>3. other.pc = "answered" /\ other.answer = "unauthorized"
    BY IdleTyped, AnswerFields
  <2> HIDE DEF new, other
  <2>4. GroupFine(new, Verdicts, Untold) /\ GroupFine(other, Verdicts, Untold)
    BY <2>2, <2>3 DEF GroupFine, AnswerFine
  <2>5. QED
    BY <2>1, <2>4, GroupAfter
<1>4. ASSUME ~(\E S \in PinningUsers, r \in Requests : CheckGroup(p, r[1], S, r[2])),
             ~(\E S \in PinningUsers, stranger \in BOOLEAN : CheckHealth(p, S, stranger))
      PROVE  Begins(p)
  BY <1>4, CallRecords
<1>5. QED
  BY <1>1, <1>2, <1>3, <1>4 DEF PinningUsers

LEMMA GroupAsk ==
  ASSUME Typed, RoundInv, GroupInv, NEW p \in Procs, NEW u \in Users, AskUser(p, u)
  PROVE  GroupInv'
<1> DEFINE k == task[p]
           V == Verdicts
<1>1. /\ k \in Task /\ Placed(k) /\ k.pc = "ask" /\ u \in k.todo /\ RoundFine(k)
      /\ GroupFine(k, V, Untold)
  BY DEF Typed, AskUser, RoundInv, TaskFine, GroupInv
<1>2. /\ k.type \in Types /\ k.todo \subseteq k.group /\ k.kept \subseteq k.group
      /\ k.group \in SUBSET Users /\ k.asked \in Nat /\ k.share \in Nat
      /\ k.kept \cap k.todo = {} /\ k.count \in Nat \ {0}
      /\ Cardinality(k.kept \cup k.todo) <= k.count
  <2>1. k.group \in SUBSET Users /\ k.asked \in Nat /\ k.share \in Nat
    BY <1>1 DEF Task
  <2>2. k.type \in Types /\ k.todo \subseteq k.group /\ k.kept \subseteq k.group
    BY <1>1 DEF Placed
  <2>3. k.kept \cap k.todo = {} /\ k.count \in Nat \ {0} /\ Cardinality(k.kept \cup k.todo) <= k.count
    BY <1>1 DEF RoundFine
  <2>4. QED
    BY <2>1, <2>2, <2>3
<1>3. UNCHANGED <<now, accounts, recorded>>
  BY DEF AskUser
<1>4. ~k.stirred => RoundKnows(k, V)
  BY <1>1 DEF GroupFine
<1>5. CheckUserQuota(u, k.type, k.share) = V[u][k.type][k.share]
  BY <1>2, VerdictsAre
<1> HIDE DEF V
<1>6. IF V[u][k.type][k.share] = "error" THEN task' = [task EXCEPT ![p] = Answer(k, "error")]
      ELSE task' = [task EXCEPT ![p] = [k EXCEPT !.todo = @ \ {u},
                         !.kept = IF Passes(V[u][k.type][k.share]) THEN @ \cup {u} ELSE @]]
  BY <1>5 DEF AskUser
<1>7. CASE V[u][k.type][k.share] = "error"
  <2> DEFINE new == Answer(k, "error")
  <2>1. /\ new.pc = "answered" /\ new.answer = "error" /\ new.stirred = k.stirred
        /\ new.type = k.type /\ new.asked = k.asked /\ new.group = k.group
    BY <1>1, AnswerFields
  <2>2. task' = [task EXCEPT ![p] = new]
    BY <1>6, <1>7
  <2> HIDE DEF new
  <2>3. ASSUME ~k.stirred
        PROVE  k.asked < Cardinality(k.group) \/ \E v \in k.group : <<v, k.type>> \in Untold
    <3>1. k.share = 0 \/ <<u, k.type>> \in Untold
      BY <1>2, <1>7, VerdictsAre DEF V
    <3>2. CASE k.share = 0
      <4>1. CalculateSharedBytes(k.asked, k.count) = 0 /\ k.count <= Cardinality(k.group)
        BY <1>4, <2>3, <3>2 DEF RoundKnows
      <4>2. k.asked < k.count
        BY <1>2, <4>1, NoShare
      <4>3. Cardinality(k.group) \in Nat
        BY <1>2, UsageAssumption, FS_Subset, FS_CardinalityType
      <4>4. QED
        BY <1>2, <4>1, <4>2, <4>3
    <3>3. QED
      BY <1>1, <1>2, <3>1, <3>2
  <2>4. GroupFine(new, V, Untold)
    BY <2>1, <2>3 DEF GroupFine, AnswerFine
  <2>5. QED
    BY <1>3, <2>2, <2>4, GroupAfter DEF V
<1>8. CASE V[u][k.type][k.share] # "error"
  <2> DEFINE kept == IF Passes(V[u][k.type][k.share]) THEN k.kept \cup {u} ELSE k.kept
             new == [k EXCEPT !.todo = k.todo \ {u}, !.kept = kept]
  <2>1. task' = [task EXCEPT ![p] = new]
    BY <1>6, <1>8
  <2>2. /\ new.pc = "ask" /\ new.stirred = k.stirred /\ new.type = k.type /\ new.asked = k.asked
        /\ new.group = k.group /\ new.count = k.count /\ new.share = k.share
        /\ new.todo = k.todo \ {u} /\ new.kept = kept
    BY <1>1 DEF Task
  <2> HIDE DEF new
  <2>3. k.share # 0
    <3>1. V[u][k.type][0] = "error"
      <4>1. PICK zero \in Nat : zero = 0
        OBVIOUS
      <4>2. V[u][k.type][zero] = CheckUserQuota(u, k.type, zero)
        BY <1>2, <4>1, VerdictsAre DEF V
      <4>3. CheckUserQuota(u, k.type, 0) = "error"
        BY <1>2, NothingAsked
      <4>4. QED
        BY <4>1, <4>2, <4>3
    <3>2. QED
      BY <1>8, <3>1
  <2>4. ASSUME ~k.stirred PROVE RoundKnows(new, V)
    <3>1. /\ k.count <= Cardinality(k.group)
          /\ k.share = CalculateSharedBytes(k.asked, k.count)
          /\ \A v \in k.kept : Passes(V[v][k.type][k.share])
          /\ \A S \in SUBSET k.group :
                S # {} /\ Bear(V, S, k.type, k.asked) => S \subseteq k.kept \cup k.todo
      BY <1>4, <2>4 DEF RoundKnows
    <3>2. \A v \in kept : Passes(V[v][k.type][k.share])
      BY <3>1
    <3>3. ASSUME NEW S \in SUBSET k.group, S # {}, Bear(V, S, k.type, k.asked)
          PROVE  S \subseteq kept \cup (k.todo \ {u})
      <4>1. S \subseteq k.kept \cup k.todo
        BY <3>1, <3>3
      <4>2. CASE Passes(V[u][k.type][k.share])
        BY <4>1, <4>2
      <4>3. CASE ~Passes(V[u][k.type][k.share])
        <5>1. ASSUME u \in S PROVE FALSE
          <6>1. IsFiniteSet(k.kept \cup k.todo)
            BY <1>2, UsageAssumption, FS_Subset
          <6>2. PICK n \in Nat, c \in Nat : n = Cardinality(S) /\ c = Cardinality(k.kept \cup k.todo)
                                            /\ n <= c
            BY <4>1, <6>1, FS_Subset, FS_CardinalityType
          <6>3. n # 0
            <7>1. IsFiniteSet(S)
              BY <4>1, <6>1, FS_Subset
            <7>2. QED
              BY <3>3, <6>2, <7>1, FS_EmptySet
          <6>4. n <= k.count /\ n \in Nat \ {0} /\ k.count \in Nat
            BY <1>2, <6>2, <6>3
          <6>5. PICK m \in Nat : m = CalculateSharedBytes(k.asked, n)
            BY <1>2, SharedIsNat
          <6>6. k.share <= m
            BY <1>2, <3>1, <6>4, <6>5, ShareGrows
          <6>7. Passes(V[u][k.type][m])
            BY <3>3, <5>1, <6>2, <6>5 DEF Bear
          <6>8. k.share \in Nat \ {0}
            BY <1>2, <2>3
          <6>9. Passes(V[u][k.type][k.share])
            BY <1>2, <6>6, <6>7, <6>8, VerdictsAre DEF V
          <6>10. QED
            BY <4>3, <6>9
        <5>2. QED
          BY <4>1, <4>3, <5>1
      <4>4. QED
        BY <4>2, <4>3
    <3> HIDE DEF kept
    <3>4. QED
      BY <2>2, <3>1, <3>2, <3>3 DEF RoundKnows
  <2>5. GroupFine(new, V, Untold)
    BY <2>2, <2>4 DEF GroupFine
  <2>6. QED
    BY <1>3, <2>1, <2>5, GroupAfter DEF V
<1>9. QED
  BY <1>7, <1>8

LEMMA GroupRound ==
  ASSUME Typed, RoundInv, GroupInv, NEW p \in Procs, NextRound(p)
  PROVE  GroupInv'
<1> DEFINE k == task[p]
           V == Verdicts
<1>1. /\ k \in Task /\ Placed(k) /\ k.pc = "ask" /\ k.todo = {} /\ GroupFine(k, V, Untold)
      /\ UNCHANGED <<now, accounts, recorded>>
  BY DEF Typed, NextRound, GroupInv
<1>2. k.type \in Types /\ k.kept \subseteq k.group /\ k.group \in SUBSET Users
  <2>1. k.group \in SUBSET Users
    BY <1>1 DEF Task
  <2>2. k.type \in Types /\ k.kept \subseteq k.group
    BY <1>1 DEF Placed
  <2>3. QED
    BY <2>1, <2>2
<1> HIDE DEF V
<1>3. ~k.stirred => RoundKnows(k, V)
  BY <1>1 DEF GroupFine
<1>4. ~k.stirred => \A S \in SUBSET k.group : S # {} /\ Bear(V, S, k.type, k.asked) => S \subseteq k.kept
  BY <1>1, <1>3 DEF RoundKnows
<1>5. ASSUME NEW answer, task' = [task EXCEPT ![p] = Answer(k, answer)],
             ~k.stirred => AnswerFine(Answer(k, answer), V, Untold)
      PROVE  GroupInv'
  <2>1. Answer(k, answer).pc = "answered" /\ Answer(k, answer).stirred = k.stirred
    BY <1>1, AnswerFields
  <2>2. GroupFine(Answer(k, answer), V, Untold)
    BY <1>5, <2>1 DEF GroupFine
  <2>3. QED
    BY <1>1, <1>5, <2>2, GroupAfter DEF V
<1>6. CASE k.kept = {} /\ task' = [task EXCEPT ![p] = Answer(k, "no")]
  <2> DEFINE new == Answer(k, "no")
  <2>1. /\ new.answer = "no" /\ new.type = k.type /\ new.asked = k.asked /\ new.group = k.group
    BY <1>1, AnswerFields
  <2> HIDE DEF new
  <2>2. ASSUME ~k.stirred PROVE AnswerFine(new, V, Untold)
    <3>1. ~\E S \in SUBSET k.group : S # {} /\ Bear(V, S, k.type, k.asked)
      BY <1>4, <1>6, <2>2
    <3>2. QED
      BY <1>2, <2>1, <3>1 DEF AnswerFine
  <2>3. QED
    BY <1>5, <1>6, <2>2 DEF new
<1>7. CASE /\ k.kept # {} /\ Cardinality(k.kept) = k.count
           /\ task' = [task EXCEPT ![p] = Answer(k, "yes")]
  <2> DEFINE new == Answer(k, "yes")
  <2>1. /\ new.answer = "yes" /\ new.type = k.type /\ new.asked = k.asked /\ new.group = k.group
    BY <1>1, AnswerFields
  <2> HIDE DEF new
  <2>2. ASSUME ~k.stirred PROVE AnswerFine(new, V, Untold)
    <3>1. Bear(V, k.kept, k.type, k.asked)
      BY <1>3, <1>7, <2>2 DEF Bear, RoundKnows
    <3>2. \E S \in SUBSET k.group : S # {} /\ Bear(V, S, k.type, k.asked)
      BY <1>2, <1>7, <3>1
    <3>3. QED
      BY <1>2, <2>1, <3>2 DEF AnswerFine
  <2>3. QED
    BY <1>5, <1>7, <2>2 DEF new
<1>8. CASE /\ k.kept # {} /\ Cardinality(k.kept) # k.count
           /\ task' = [task EXCEPT ![p] = Round(k, k.kept)]
  <2> DEFINE new == Round(k, k.kept)
  <2>1. /\ new.pc = "ask" /\ new.stirred = k.stirred /\ new.type = k.type /\ new.asked = k.asked
        /\ new.group = k.group /\ new.count = Cardinality(k.kept)
        /\ new.share = CalculateSharedBytes(k.asked, Cardinality(k.kept))
        /\ new.todo = k.kept /\ new.kept = {}
    BY <1>1 DEF Round, Task
  <2> HIDE DEF new
  <2>2. Cardinality(k.kept) <= Cardinality(k.group)
    <3>1. IsFiniteSet(k.group)
      BY <1>2, UsageAssumption, FS_Subset
    <3>2. QED
      BY <1>2, <3>1, FS_Subset
  <2>3. ~k.stirred => RoundKnows(new, V)
    BY <1>4, <2>1, <2>2 DEF RoundKnows
  <2>4. GroupFine(new, V, Untold)
    BY <2>1, <2>3 DEF GroupFine
  <2>5. QED
    BY <1>1, <1>8, <2>4, GroupAfter DEF V, new
<1>9. QED
  BY <1>6, <1>7, <1>8, RoundEnds

\* A report fails for a group that is not empty, of which it was asked nothing.
LEMMA GroupHealth ==
  ASSUME Typed, GroupInv, NEW p \in Procs, ReportHealth(p)
  PROVE  GroupInv'
<1> DEFINE k == task[p]
<1>1. /\ k \in Task /\ Placed(k) /\ k.pc = "health" /\ GroupFine(k, Verdicts, Untold)
      /\ UNCHANGED <<now, accounts, recorded>>
  BY DEF Typed, ReportHealth, ReadWindows, ReadGrants, GroupInv
<1>2. k.asked = 0 /\ k.todo \subseteq Windowed(k.group) /\ k.group \in SUBSET Users
  <2>1. k.asked = 0
    BY <1>1 DEF GroupFine
  <2>2. k.todo \subseteq Windowed(k.group)
    BY <1>1 DEF Placed
  <2>3. k.group \in SUBSET Users
    BY <1>1 DEF Task
  <2>4. QED
    BY <2>1, <2>2, <2>3
<1>3. ASSUME NEW users \in SUBSET Users, NEW first \in Users, ReadWindows(p, users, first)
      PROVE  GroupInv'
  <2>1. PICK n, todo :
          \/ task' = [task EXCEPT ![p] = Answer(k, "error")]
          \/ task' = [task EXCEPT ![p] = [k EXCEPT !.todo = todo, !.remaining = n]]
    BY <1>3 DEF ReadWindows
  <2>2. first \in k.group
    <3>1. first \in k.todo
      BY <1>3 DEF ReadWindows
    <3>2. QED
      BY <1>2, <3>1 DEF Windowed, Counted
  <2>3. 0 < Cardinality(k.group)
    <3>1. IsFiniteSet(k.group)
      BY <1>2, UsageAssumption, FS_Subset
    <3>2. PICK c \in Nat : c = Cardinality(k.group)
      BY <3>1, FS_CardinalityType
    <3>3. c # 0
      BY <2>2, <3>1, <3>2, FS_EmptySet
    <3>4. QED
      BY <3>2, <3>3
  <2> DEFINE wrong == Answer(k, "error")
             new == [k EXCEPT !.todo = todo, !.remaining = n]
  <2>4. /\ wrong.pc = "answered" /\ wrong.answer = "error" /\ wrong.asked = k.asked
        /\ wrong.group = k.group
    BY <1>1, AnswerFields
  <2>5. new.pc = "health" /\ new.asked = k.asked
    BY <1>1 DEF Task
  <2>6. task' = [task EXCEPT ![p] = wrong] \/ task' = [task EXCEPT ![p] = new]
    BY <2>1
  <2> HIDE DEF wrong, new
  <2>7. GroupFine(wrong, Verdicts, Untold)
    <3>1. wrong.asked < Cardinality(wrong.group)
      BY <1>2, <2>3, <2>4
    <3>2. QED
      BY <2>4, <3>1 DEF GroupFine, AnswerFine
  <2>8. GroupFine(new, Verdicts, Untold)
    BY <1>2, <2>5 DEF GroupFine
  <2>9. QED
    BY <1>1, <2>6, <2>7, <2>8, GroupAfter
<1>4. ASSUME ReadGrants(p) PROVE GroupInv'
  <2>1. PICK n : task' = [task EXCEPT ![p] = Answer([k EXCEPT !.remaining = n], "healthy")]
    BY <1>4 DEF ReadGrants
  <2> DEFINE mid == [k EXCEPT !.remaining = n]
             new == Answer(mid, "healthy")
  <2>2. DOMAIN mid = Fields
    BY <1>1, TaskFields
  <2> HIDE DEF mid
  <2>3. new.pc = "answered" /\ new.answer = "healthy"
    BY <2>2, FieldsAre DEF Answer
  <2>4. task' = [task EXCEPT ![p] = new]
    BY <2>1 DEF mid
  <2> HIDE DEF new
  <2>5. GroupFine(new, Verdicts, Untold)
    BY <2>3 DEF GroupFine, AnswerFine
  <2>6. QED
    BY <1>1, <2>4, <2>5, GroupAfter
<1>5. QED
  BY <1>3, <1>4 DEF ReportHealth

LEMMA GroupRecords ==
  ASSUME Typed, GroupInv, NEW p \in Procs, Record(p)
  PROVE  GroupInv'
<1>1. task \in [Procs -> Task]
  BY DEF Typed
<1>2. ASSUME NEW u \in Users, CreateDetail(p, u) PROVE GroupInv'
  <2>1. PICK new \in Task : task' = Stir([task EXCEPT ![p] = new]) /\ new.pc = "daily"
    BY <1>2, CreateDetailIs
  <2> DEFINE mid == [task EXCEPT ![p] = new]
  <2>2. mid \in [Procs -> Task] /\ \A q \in Procs : mid[q] = IF q = p THEN new ELSE task[q]
    BY <1>1
  <2>3. task' = Stir(mid)
    BY <2>1
  <2> HIDE DEF mid
  <2>4. GroupFine(new, Verdicts, Untold)
    BY <2>1, GroupNothing
  <2>5. \A q \in Procs : GroupFine(mid[q], Verdicts, Untold)
    BY <2>2, <2>4 DEF GroupInv
  <2>6. QED
    BY <2>2, <2>3, <2>5, GroupStirred
<1>3. ASSUME NEW u \in Users, DetailFails(p, u) PROVE GroupInv'
  <2>1. PICK new \in Task : task' = [task EXCEPT ![p] = new] /\ new.pc \in {"done", "detail"}
    BY <1>3, DetailFailsIs
  <2>2. UNCHANGED <<now, accounts, recorded>>
    BY <1>3 DEF DetailFails
  <2>3. QED
    BY <2>1, <2>2, GroupOfRecording DEF Recording
<1>4. ASSUME UpsertInsert(p) PROVE GroupInv'
  <2>1. PICK new \in Task : task' = [task EXCEPT ![p] = new] /\ new.pc = "update"
    BY <1>4, UpsertInsertIs
  <2>2. UNCHANGED <<now, accounts, recorded>>
    BY <1>4 DEF UpsertInsert
  <2>3. QED
    BY <2>1, <2>2, GroupOfRecording DEF Recording
<1>5. ASSUME UpsertMySQL(p) \/ UpsertUpdate(p) \/ DailyFails(p) PROVE GroupInv'
  <2>1. /\ Charged(p) /\ task[p].pc \in {"daily", "update"}
        /\ UNCHANGED <<now, accounts, recorded>>
    BY <1>5 DEF UpsertMySQL, UpsertUpdate, DailyFails
  <2>2. PICK new \in Task : task' = [task EXCEPT ![p] = new] /\ new.pc \in {"done", "detail"}
    BY <2>1, ChargedIs
  <2>3. QED
    BY <2>1, <2>2, GroupOfRecording DEF Recording
<1>6. QED
  BY <1>2, <1>3, <1>4, <1>5 DEF Record

LEMMA GroupInit == Init => GroupInv
<1>1. Idle.pc \notin {"ask", "health", "answered"}
  BY IdleTyped
<1>2. QED
  BY <1>1, GroupNothing DEF Init, GroupInv

LEMMA GroupStep == Typed /\ RoundInv /\ GroupInv /\ [Next]_vars => GroupInv'
<1> SUFFICES ASSUME Typed, RoundInv, GroupInv, [Next]_vars PROVE GroupInv'
  OBVIOUS
<1>1. ASSUME NEW p \in Procs, AskGroup(p) PROVE GroupInv'
  BY <1>1, GroupAsk, GroupRound DEF AskGroup
<1>2. ASSUME NEW p \in Procs, Return(p) PROVE GroupInv'
  <2>1. Idle.pc = "idle"
    BY IdleTyped
  <2>2. task' = [task EXCEPT ![p] = Idle] /\ UNCHANGED <<now, accounts, recorded>>
    BY <1>2 DEF Return
  <2>3. QED
    BY <2>1, <2>2, GroupOfRecording
<1>3. CASE Tick \/ \E days \in Retentions : HandleCleanup(days)
  <2>1. task' = Stir(task)
    BY <1>3 DEF Tick, HandleCleanup, CleanupOldRecords
  <2>2. task \in [Procs -> Task] /\ \A q \in Procs : GroupFine(task[q], Verdicts, Untold)
    BY DEF Typed, GroupInv
  <2>3. QED
    BY <2>1, <2>2, GroupStirred
<1>4. CASE UNCHANGED vars
  BY <1>4, GroupUntouched DEF vars
<1>5. QED
  BY <1>1, <1>2, <1>3, <1>4, GroupCall, GroupRecords, GroupHealth DEF Next

\* What group checks know of the users, whatever goes on.
THEOREM GroupHolds == Spec => []GroupInv
  BY GroupInit, GroupStep, TypedHolds, RoundInvHolds, PTL DEF Spec

\* To bear a share, by the checks as they would answer now.
LEMMA BearIs ==
  ASSUME Typed, NEW S \in SUBSET Users, NEW t \in Types, NEW n \in Nat
  PROVE  Bear(Verdicts, S, t, n) <=> CanBear(S, t, n)
<1>1. PICK c \in Nat : c = Cardinality(S)
  BY UsageAssumption, FS_Subset, FS_CardinalityType
<1>2. PICK share \in Nat : share = CalculateSharedBytes(n, Cardinality(S))
  BY <1>1, SharedIsNat
<1>3. \A u \in S : Verdicts[u][t][share] = CheckUserQuota(u, t, share)
  BY VerdictsAre
<1>4. QED
  BY <1>2, <1>3 DEF Bear, CanBear

LEMMA GroupMeans == Typed /\ GroupInv => GroupIsRight
<1> SUFFICES ASSUME Typed, GroupInv, NEW p \in Procs, task[p].pc = "answered", ~task[p].stirred
             PROVE  LET k == task[p]
                        someone == \E S \in SUBSET k.group : S # {} /\ CanBear(S, k.type, k.asked)
                    IN  /\ k.answer = "yes" => someone
                        /\ k.answer = "no" => ~someone
                        /\ k.answer = "error" => \/ k.asked < Cardinality(k.group)
                                                 \/ \E u \in k.group : CannotTell(u, k.type)
  BY DEF GroupIsRight
<1> DEFINE k == task[p]
<1>1. AnswerFine(k, Verdicts, Untold) /\ k \in Task
  BY DEF GroupInv, GroupFine, Typed
<1>2. k.group \in SUBSET Users /\ k.asked \in Nat
  BY <1>1 DEF Task
<1>3. k.type \in Types =>
        \A S \in SUBSET k.group : Bear(Verdicts, S, k.type, k.asked) <=> CanBear(S, k.type, k.asked)
  BY <1>2, BearIs
<1>4. ASSUME k.answer \in {"yes", "no"} PROVE k.type \in Types
  BY <1>1, <1>4 DEF AnswerFine
<1>5. ASSUME k.answer = "yes" PROVE \E S \in SUBSET k.group : S # {} /\ CanBear(S, k.type, k.asked)
  BY <1>1, <1>3, <1>4, <1>5 DEF AnswerFine
<1>6. ASSUME k.answer = "no" PROVE ~\E S \in SUBSET k.group : S # {} /\ CanBear(S, k.type, k.asked)
  BY <1>1, <1>3, <1>4, <1>6 DEF AnswerFine
<1>7. ASSUME k.answer = "error"
      PROVE  k.asked < Cardinality(k.group) \/ \E u \in k.group : CannotTell(u, k.type)
  BY <1>1, <1>7 DEF AnswerFine, Untold
<1>8. QED
  BY <1>5, <1>6, <1>7

\* A group check, while nothing is recorded, answers as if it had tried every group among
\* the pinners of the upload, however the users are asked and the rounds go.
THEOREM GroupChecksAreRight == Spec => []GroupIsRight
  BY TypedHolds, GroupHolds, GroupMeans, PTL

-----------------------------------------------------------------------------
(* Health reports.                                                         *)

\* What passes up to some number of bytes, the largest to pass is that number.
LEMMA LargestUpTo ==
  ASSUME NEW u, NEW room \in 0..MaxUint,
         \A n \in 1..MaxUint : Passes(CheckUserQuota(u, "STORAGE_ADD", n)) <=> n <= room
  PROVE  LargestFor(u) = room
<1> DEFINE S == {0} \cup {n \in 1..MaxUint : Passes(CheckUserQuota(u, "STORAGE_ADD", n))}
<1>1. S = 0..room
  BY MaxUintIs
<1>2. LargestFor(u) = CHOOSE x \in 0..room : \A y \in 0..room : x >= y
  <2>1. LargestFor(u) = Max(S)
    BY DEF LargestFor
  <2> HIDE DEF S
  <2>2. QED
    BY <1>1, <2>1 DEF Max
<1>3. room \in 0..room /\ \A y \in 0..room : room >= y
  BY MaxUintIs
<1>4. \A x \in 0..room : (\A y \in 0..room : x >= y) => x = room
  BY <1>3, MaxUintIs
<1>5. QED
  BY <1>2, <1>3, <1>4

LEMMA RoomIs ==
  ASSUME Typed, NEW u \in Users, NEW t \in Types, IsLimited(u, t)
  PROVE  RoomOf(u, t) \in 0..MaxUint
<1>1. PICK bytes \in 0..MaxUint : bytes = accounts[u].limits[t].bytes /\ bytes > 0
  BY LimitBytes DEF IsLimited
<1>2. t \in UsageTypes
  BY ColumnHere
<1>3. PICK used \in Nat :
        used = IF ValidWindow(accounts[u].limits[t].window)
               THEN UsageForWindow(u, t, accounts[u].limits[t].window) ELSE 0
  BY <1>2, UsageIsNat
<1>4. Remaining(bytes, used) \in 0..bytes
  BY <1>1, RemainingIs, MaxUintIs
<1>5. RoomOf(u, t) = Remaining(bytes, used)
  BY <1>1, <1>3 DEF RoomOf
<1>6. QED
  BY <1>1, <1>4, <1>5, MaxUintIs

\* The largest request to store that passes.
LEMMA LargestIs ==
  ASSUME Typed, NEW u \in Users
  PROVE  /\ LargestFor(u) \in Nat
         /\ accounts[u].policy = "UNLIMITED" => LargestFor(u) = MaxUint
         /\ accounts[u].policy = "ALLOWANCE" => LargestFor(u) = accounts[u].left["STORAGE_ADD"]
         /\ IsLimited(u, "STORAGE_ADD") => LargestFor(u) = RoomOf(u, "STORAGE_ADD")
<1> DEFINE policy == accounts[u].policy
<1>1. PICK t \in Types : t = "STORAGE_ADD"
  BY StorageAdd
<1>2. policy \in EnforcementPolicies /\ accounts[u].left[t] \in 0..MaxUint
  BY AccountsAre
<1>3. ASSUME NEW room \in 0..MaxUint,
             \A n \in Nat \ {0} : n <= MaxUint => (Passes(CheckUserQuota(u, t, n)) <=> n <= room)
      PROVE  LargestFor(u) = room /\ room \in Nat
  <2>1. \A n \in 1..MaxUint : n \in Nat \ {0} /\ n <= MaxUint
    BY MaxUintIs
  <2>2. QED
    BY <1>1, <1>3, <2>1, LargestUpTo, MaxUintIs
<1>4. CASE policy = "UNLIMITED" /\ ~IsLimited(u, t)
  <2>1. LargestFor(u) = MaxUint /\ MaxUint \in Nat
    <3>1. PICK k \in 0..MaxUint, l \in Nat : k = MaxUint /\ l = k
      BY MaxUintIs
    <3>2. \A n \in Nat \ {0} : Passes(CheckUserQuota(u, t, n))
      BY <1>4, VerdictIs
    <3>3. \A n \in Nat \ {0} : n <= MaxUint => (Passes(CheckUserQuota(u, t, n)) <=> n <= k)
      BY <3>1, <3>2
    <3>4. QED
      BY <1>3, <3>1, <3>3
  <2>2. QED
    BY <1>1, <1>4, <2>1
<1>5. CASE policy = "ALLOWANCE"
  <2>1. \A n \in Nat \ {0} : Passes(CheckUserQuota(u, t, n)) <=> n <= accounts[u].left[t]
    BY <1>5, VerdictIs
  <2>2. LargestFor(u) = accounts[u].left[t] /\ accounts[u].left[t] \in Nat
    BY <1>2, <1>3, <2>1
  <2>3. ~IsLimited(u, t)
    BY <1>5 DEF IsLimited
  <2>4. QED
    BY <1>1, <1>5, <2>2, <2>3
<1>6. CASE IsLimited(u, t)
  <2>1. \A n \in Nat \ {0} : Passes(CheckUserQuota(u, t, n)) <=> n <= RoomOf(u, t)
    BY <1>6, VerdictIs
  <2>2. LargestFor(u) = RoomOf(u, t) /\ RoomOf(u, t) \in Nat
    BY <1>3, <1>6, <2>1, RoomIs
  <2>3. policy \in {"HARD_LIMITS", "THRESHOLD"}
    BY <1>6 DEF IsLimited
  <2>4. QED
    BY <1>1, <2>2, <2>3
<1>7. CASE policy \in {"HARD_LIMITS", "THRESHOLD"} /\ ~IsLimited(u, t)
  <2>1. \A n \in Nat \ {0} :
          Passes(CheckUserQuota(u, t, n)) <=> accounts[u].limits # Unresolved /\ accounts[u].limits[t].bytes = 0
    BY <1>7, VerdictIs
  <2>2. LargestFor(u) \in Nat
    <3>1. PICK none \in 0..MaxUint, all \in 0..MaxUint : none = 0 /\ all = MaxUint
      BY MaxUintIs
    <3>2. CASE accounts[u].limits # Unresolved /\ accounts[u].limits[t].bytes = 0
      <4>1. \A n \in Nat \ {0} : n <= MaxUint => (Passes(CheckUserQuota(u, t, n)) <=> n <= all)
        BY <2>1, <3>1, <3>2
      <4>2. QED
        BY <1>3, <4>1
    <3>3. CASE ~(accounts[u].limits # Unresolved /\ accounts[u].limits[t].bytes = 0)
      <4>1. \A n \in Nat \ {0} : n <= MaxUint => (Passes(CheckUserQuota(u, t, n)) <=> n <= none)
        BY <2>1, <3>1, <3>3
      <4>2. QED
        BY <1>3, <4>1
    <3>4. QED
      BY <3>2, <3>3
  <2>3. QED
    BY <1>1, <1>7, <2>2
<1>8. QED
  BY <1>1, <1>2, <1>4, <1>5, <1>6, <1>7 DEF EnforcementPolicies, IsLimited

\* The checks, as far as a report on pinners needs them: what the largest request is that
\* each user's would let pass, and whose usage, whose grants are counted, who is unlimited.
Largest == [u \in Users |-> LargestFor(u)]
Readers == [windowed |-> [S \in SUBSET Users |-> Windowed(S)],
            granted |-> [S \in SUBSET Users |-> Counted(S, {"ALLOWANCE"})],
            free |-> [S \in SUBSET Users |-> Counted(S, {"UNLIMITED"})]]

\* A report has added up the users it has read.
HealthFine(k, L, R) ==
    ~k.stirred =>
        /\ k.pc = "health" =>
              /\ k.unlimited => R.free[k.group] # {}
              /\ k.remaining = SumFunctionOnSet(L, R.windowed[k.group] \ k.todo)
        /\ k.pc = "answered" /\ k.answer = "healthy" =>
              /\ k.unlimited => R.free[k.group] # {}
              /\ k.remaining = SumFunctionOnSet(L, R.windowed[k.group] \cup R.granted[k.group])

HealthInv == \A p \in Procs : HealthFine(task[p], Largest, Readers)

LEMMA HealthNothing ==
  ASSUME NEW k, NEW L, NEW R, k.pc # "health", k.pc = "answered" => k.answer # "healthy"
  PROVE  HealthFine(k, L, R)
  BY DEF HealthFine

LEMMA LargestSame ==
  ASSUME UNCHANGED <<now, accounts, recorded>>
  PROVE  UNCHANGED <<Largest, Readers>>
<1>1. ASSUME NEW u, NEW t, NEW n PROVE CheckUserQuota(u, t, n)' = CheckUserQuota(u, t, n)
  BY DEF CheckUserQuota, UsageForWindow
<1>2. ASSUME NEW u PROVE LargestFor(u)' = LargestFor(u)
  BY <1>1 DEF LargestFor
<1>3. Largest' = Largest
  BY <1>2 DEF Largest
<1>4. ASSUME NEW S, NEW P PROVE Counted(S, P)' = Counted(S, P)
  BY DEF Counted, Resolved, Excluded
<1>5. ASSUME NEW S PROVE Windowed(S)' = Windowed(S)
  BY <1>4 DEF Windowed
<1>6. Readers' = Readers
  BY <1>4, <1>5 DEF Readers
<1>7. QED
  BY <1>3, <1>6

LEMMA HealthAfter ==
  ASSUME Typed, HealthInv, NEW p \in Procs, NEW k, HealthFine(k, Largest, Readers),
         task' = [task EXCEPT ![p] = k], UNCHANGED <<now, accounts, recorded>>
  PROVE  HealthInv'
<1>1. \A q \in Procs : task'[q] = IF q = p THEN k ELSE task[q]
  BY DEF Typed
<1>2. UNCHANGED <<Largest, Readers>>
  BY LargestSame
<1>3. ASSUME NEW q \in Procs PROVE HealthFine(task'[q], Largest', Readers')
  BY <1>1, <1>2, <1>3 DEF HealthInv
<1>4. QED
  BY <1>3 DEF HealthInv

LEMMA HealthStirred ==
  ASSUME NEW tasks \in [Procs -> Task], task' = Stir(tasks)
  PROVE  HealthInv'
<1>1. ASSUME NEW q \in Procs PROVE HealthFine(task'[q], Largest', Readers')
  <2>1. tasks[q] \in Task
    OBVIOUS
  <2>2. CASE tasks[q].pc \in {"ask", "health", "answered"}
    <3> DEFINE new == [tasks[q] EXCEPT !.stirred = TRUE]
    <3>1. task'[q] = new
      BY <2>2 DEF Stir
    <3>2. new.stirred = TRUE
      BY <2>1 DEF Task
    <3> HIDE DEF new
    <3>3. QED
      BY <3>1, <3>2 DEF HealthFine
  <2>3. CASE tasks[q].pc \notin {"ask", "health", "answered"}
    <3>1. task'[q] = tasks[q]
      BY <2>3 DEF Stir
    <3>2. QED
      BY <2>3, <3>1 DEF HealthFine
  <2>4. QED
    BY <2>2, <2>3
<1>2. QED
  BY <1>1 DEF HealthInv

\* What is counted of pinners, once.
LEMMA ReadersAre ==
  ASSUME Typed, NEW group \in SUBSET Users
  PROVE  /\ Readers.windowed[group] = Windowed(group)
         /\ Readers.granted[group] = Counted(group, {"ALLOWANCE"})
         /\ Readers.free[group] = Counted(group, {"UNLIMITED"})
         /\ Windowed(group) \in SUBSET Users /\ Counted(group, {"ALLOWANCE"}) \in SUBSET Users
         /\ Windowed(group) \cap Counted(group, {"ALLOWANCE"}) = {}
<1>1. /\ Windowed(group) \in SUBSET Users /\ Counted(group, {"ALLOWANCE"}) \in SUBSET Users
      /\ Windowed(group) \cap Counted(group, {"ALLOWANCE"}) = {}
  BY DEF Windowed, Counted
<1>2. QED
  BY <1>1 DEF Readers

LEMMA LargestNat ==
  ASSUME Typed
  PROVE  \A u \in Users : Largest[u] = LargestFor(u) /\ Largest[u] \in Nat
  BY LargestIs DEF Largest

LEMMA SubsetsFinite == \A S \in SUBSET Users : IsFiniteSet(S)
  BY UsageAssumption, FS_Subset

\* Users with the same window, read together in it, are read as their checks read them.
LEMMA ReadTogether ==
  ASSUME Typed, NEW group \in SUBSET Users, NEW users \in SUBSET Windowed(group), NEW w,
         ValidWindow(w), SameWindow(users, w),
         NEW f, f = [u \in users |-> Remaining(accounts[u].limits["STORAGE_ADD"].bytes,
                                               UsageForWindow(u, "STORAGE_ADD", w))]
  PROVE  SumFunction(f) = SumFunctionOnSet(Largest, users)
<1>1. ASSUME NEW u \in users PROVE f[u] = Largest[u]
  <2>1. /\ u \in Users /\ accounts[u].limits # Unresolved
        /\ accounts[u].policy \in {"HARD_LIMITS", "THRESHOLD"}
        /\ accounts[u].limits["STORAGE_ADD"].bytes \in 1..MaxUint
    BY WindowedAre
  <2>2. accounts[u].limits["STORAGE_ADD"].window = w
    BY DEF SameWindow
  <2>3. accounts[u].limits["STORAGE_ADD"].bytes > 0
    BY <2>1, MaxUintIs
  <2>4. IsLimited(u, "STORAGE_ADD")
    BY <2>1, <2>2, <2>3 DEF IsLimited
  <2>5. f[u] = RoomOf(u, "STORAGE_ADD")
    BY <2>2 DEF RoomOf
  <2>6. QED
    BY <2>1, <2>4, <2>5, LargestIs, LargestNat
<1>2. users \in SUBSET Users
  BY ReadersAre
<1>3. \A u \in users : Largest[u] \in Nat /\ f[u] = Largest[u]
  BY <1>1, <1>2, LargestNat
<1>4. SumFunctionOnSet(f, users) = SumFunctionOnSet(Largest, users)
  BY <1>2, <1>3, SubsetsFinite, SumOfSame
<1>5. DOMAIN f = users
  OBVIOUS
<1>6. SumFunction(f) = SumFunctionOnSet(f, users)
  BY <1>5 DEF SumFunction
<1>7. QED
  BY <1>4, <1>6

LEMMA GrantsTogether ==
  ASSUME Typed, NEW group \in SUBSET Users, NEW users, users = Counted(group, {"ALLOWANCE"}),
         NEW f, f = [u \in users |-> AvailableBytes(u)]
  PROVE  SumFunction(f) = SumFunctionOnSet(Largest, users)
<1>1. users \in SUBSET Users /\ \A u \in users : accounts[u].policy = "ALLOWANCE"
  BY DEF Counted
<1>2. \A u \in users : Largest[u] \in Nat /\ f[u] = Largest[u]
  BY <1>1, LargestIs, LargestNat DEF AvailableBytes
<1>3. SumFunctionOnSet(f, users) = SumFunctionOnSet(Largest, users)
  BY <1>1, <1>2, SubsetsFinite, SumOfSame
<1>4. DOMAIN f = users
  OBVIOUS
<1>5. SumFunction(f) = SumFunctionOnSet(f, users)
  BY <1>4 DEF SumFunction
<1>6. QED
  BY <1>3, <1>5

\* A group of users is read together, or all the grants are.
LEMMA HealthReads ==
  ASSUME Typed, HealthInv, NEW p \in Procs, ReportHealth(p)
  PROVE  HealthInv'
<1> DEFINE k == task[p]
           L == Largest
           R == Readers
<1>1. /\ k \in Task /\ Placed(k) /\ k.pc = "health" /\ HealthFine(k, L, R)
      /\ UNCHANGED <<now, accounts, recorded>>
  BY DEF Typed, ReportHealth, ReadWindows, ReadGrants, HealthInv
<1>2. k.group \in SUBSET Users /\ k.todo \in SUBSET Windowed(k.group) /\ k.remaining \in Nat
  <2>1. k.group \in SUBSET Users /\ k.remaining \in Nat
    BY <1>1 DEF Task
  <2>2. k.todo \in SUBSET Windowed(k.group)
    BY <1>1 DEF Placed
  <2>3. QED
    BY <2>1, <2>2
<1>3. PICK W \in SUBSET Users, A \in SUBSET Users :
        /\ W = Windowed(k.group) /\ A = Counted(k.group, {"ALLOWANCE"}) /\ W \cap A = {}
        /\ R.windowed[k.group] = W /\ R.granted[k.group] = A
  BY <1>2, ReadersAre
<1>4. \A u \in Users : L[u] \in Nat
  BY LargestNat
<1> HIDE DEF L, R
<1>5. ~k.stirred =>
        /\ k.unlimited => R.free[k.group] # {}
        /\ k.remaining = SumFunctionOnSet(L, W \ k.todo)
  BY <1>1, <1>3 DEF HealthFine
<1>6. ASSUME NEW users \in SUBSET Users, NEW first \in Users, ReadWindows(p, users, first)
      PROVE  HealthInv'
  <2> DEFINE w == accounts[first].limits["STORAGE_ADD"].window
             f == [u \in users |-> Remaining(accounts[u].limits["STORAGE_ADD"].bytes,
                                             UsageForWindow(u, "STORAGE_ADD", w))]
             wrong == Answer(k, "error")
  <2>1. users \in SUBSET k.todo /\ SameWindow(users, w)
    BY <1>6 DEF ReadWindows
  <2>2. IF ~ValidWindow(w) THEN task' = [task EXCEPT ![p] = wrong]
        ELSE task' = [task EXCEPT ![p] = [k EXCEPT !.todo = k.todo \ users,
                                                   !.remaining = k.remaining + SumFunction(f)]]
    BY <1>6 DEF ReadWindows
  <2>3. ValidWindow(w) => SumFunction(f) = SumFunctionOnSet(L, users)
    <3>1. PICK g : g = f
      OBVIOUS
    <3>2. users \in SUBSET Windowed(k.group)
      BY <1>2, <2>1
    <3>3. PICK x : x = w
      OBVIOUS
    <3>4. ValidWindow(x) => SumFunction(g) = SumFunctionOnSet(L, users)
      BY <1>2, <2>1, <3>1, <3>2, <3>3, ReadTogether DEF L
    <3>5. QED
      BY <3>1, <3>3, <3>4
  <2> HIDE DEF f
  <2>4. CASE ~ValidWindow(w)
    <3>1. wrong.pc = "answered" /\ wrong.answer = "error"
      BY <1>1, AnswerFields
    <3>2. task' = [task EXCEPT ![p] = wrong]
      BY <2>2, <2>4
    <3> HIDE DEF wrong
    <3>3. HealthFine(wrong, L, R)
      BY <3>1, HealthNothing
    <3>4. QED
      BY <1>1, <3>2, <3>3, HealthAfter DEF L, R
  <2>5. CASE ValidWindow(w)
    <3> DEFINE new == [k EXCEPT !.todo = k.todo \ users, !.remaining = k.remaining + SumFunction(f)]
    <3>1. task' = [task EXCEPT ![p] = new]
      BY <2>2, <2>5
    <3>2. /\ new.pc = "health" /\ new.todo = k.todo \ users /\ new.stirred = k.stirred
          /\ new.unlimited = k.unlimited /\ new.group = k.group
          /\ new.remaining = k.remaining + SumFunction(f)
      BY <1>1 DEF Task
    <3> HIDE DEF new
    <3>3. SumFunctionOnSet(L, W \ (k.todo \ users)) =
            SumFunctionOnSet(L, W \ k.todo) + SumFunctionOnSet(L, users)
      <4>1. PICK T \in SUBSET Users : T = W \ k.todo
        OBVIOUS
      <4>2. T \cap users = {} /\ W \ (k.todo \ users) = T \cup users
        BY <1>2, <1>3, <2>1, <4>1
      <4>3. \A x \in T \cup users : L[x] \in Nat
        BY <1>4
      <4>4. SumFunctionOnSet(L, T \cup users) = SumFunctionOnSet(L, T) + SumFunctionOnSet(L, users)
        BY <4>2, <4>3, SubsetsFinite, SumOfDisjoint
      <4>5. QED
        BY <4>1, <4>2, <4>4
    <3>4. HealthFine(new, L, R)
      BY <1>3, <1>5, <2>3, <2>5, <3>2, <3>3 DEF HealthFine
    <3>5. QED
      BY <1>1, <3>1, <3>4, HealthAfter DEF L, R
  <2>6. QED
    BY <2>4, <2>5
<1>7. ASSUME ReadGrants(p) PROVE HealthInv'
  <2> DEFINE f == [u \in Counted(k.group, {"ALLOWANCE"}) |-> AvailableBytes(u)]
             mid == [k EXCEPT !.remaining = k.remaining + SumFunction(f)]
             new == Answer(mid, "healthy")
  <2>1. task' = [task EXCEPT ![p] = new] /\ k.todo = {}
    BY <1>7 DEF ReadGrants
  <2>2. SumFunction(f) = SumFunctionOnSet(L, A)
    <3>1. PICK g : g = f
      OBVIOUS
    <3>2. SumFunction(g) = SumFunctionOnSet(L, A)
      BY <1>2, <1>3, <3>1, GrantsTogether DEF L
    <3>3. QED
      BY <3>1, <3>2
  <2> HIDE DEF f
  <2>3. /\ DOMAIN mid = Fields
        /\ mid.stirred = k.stirred /\ mid.unlimited = k.unlimited /\ mid.group = k.group
        /\ mid.remaining = k.remaining + SumFunction(f)
    <3>1. DOMAIN mid = Fields
      BY <1>1, TaskFields
    <3>2. QED
      BY <1>1, <3>1 DEF Task
  <2> HIDE DEF mid
  <2>4. /\ new.pc = "answered" /\ new.answer = "healthy"
        /\ new.stirred = k.stirred /\ new.unlimited = k.unlimited /\ new.group = k.group
        /\ new.remaining = k.remaining + SumFunction(f)
    BY <2>3, FieldsAre DEF Answer
  <2> HIDE DEF new
  <2>5. SumFunctionOnSet(L, W \cup A) = SumFunctionOnSet(L, W \ k.todo) + SumFunctionOnSet(L, A)
    <3>1. W \ k.todo = W
      BY <2>1
    <3>2. \A x \in W \cup A : L[x] \in Nat
      BY <1>4
    <3>3. IsFiniteSet(W) /\ IsFiniteSet(A)
      BY SubsetsFinite
    <3>4. SumFunctionOnSet(L, W \cup A) = SumFunctionOnSet(L, W) + SumFunctionOnSet(L, A)
      BY <1>3, <3>2, <3>3, SumOfDisjoint
    <3>5. QED
      BY <3>1, <3>4
  <2>6. HealthFine(new, L, R)
    BY <1>3, <1>5, <2>2, <2>4, <2>5 DEF HealthFine
  <2>7. QED
    BY <1>1, <2>1, <2>6, HealthAfter DEF L, R, new
<1>8. QED
  BY <1>6, <1>7 DEF ReportHealth

LEMMA HealthCall ==
  ASSUME Typed, HealthInv, NEW p \in Procs, Call(p)
  PROVE  HealthInv'
<1>1. ASSUME Begins(p) PROVE HealthInv'
  <2>1. PICK type \in UsageTypes, users \in SUBSET Users, bytes \in Nat :
          users # {} /\ Begin(p, type, CalculateSharedBytes(bytes, Cardinality(users)), users, bytes)
    BY <1>1 DEF Begins
  <2>2. PICK new : /\ task' = [task EXCEPT ![p] = new] /\ new.pc = "detail"
                   /\ UNCHANGED <<now, accounts, recorded>>
    BY <2>1, BeginIs
  <2>3. HealthFine(new, Largest, Readers)
    BY <2>2, HealthNothing
  <2>4. QED
    BY <2>2, <2>3, HealthAfter
<1>2. ASSUME NEW S \in SUBSET Users, NEW t, NEW n, CheckGroup(p, t, S, n) PROVE HealthInv'
  <2> DEFINE k == [Idle EXCEPT !.type = t, !.asked = n, !.group = S]
             new == Round(k, S)
  <2>1. new.pc = "ask"
    BY DEF Round, Idle
  <2>2. task' = [task EXCEPT ![p] = new] /\ UNCHANGED <<now, accounts, recorded>>
    BY <1>2 DEF CheckGroup
  <2> HIDE DEF new
  <2>3. HealthFine(new, Largest, Readers)
    BY <2>1, HealthNothing
  <2>4. QED
    BY <2>2, <2>3, HealthAfter
<1>3. ASSUME NEW S \in SUBSET Users, NEW stranger \in BOOLEAN, CheckHealth(p, S, stranger)
      PROVE  HealthInv'
  <2> DEFINE new == [Idle EXCEPT !.pc = "health", !.group = S, !.todo = Windowed(S),
                                 !.unlimited = Counted(S, {"UNLIMITED"}) # {}]
             other == Answer(Idle, "unauthorized")
  <2>1. /\ task' = [task EXCEPT ![p] = new] \/ task' = [task EXCEPT ![p] = other]
        /\ UNCHANGED <<now, accounts, recorded>>
    BY <1>3 DEF CheckHealth
  <2>2. /\ new.pc = "health" /\ new.group = S /\ new.todo = Windowed(S) /\ new.remaining = 0
        /\ new.unlimited = (Counted(S, {"UNLIMITED"}) # {})
    BY DEF Idle
  <2>3. other.pc = "answered" /\ other.answer = "unauthorized"
    BY IdleTyped, AnswerFields
  <2> HIDE DEF new, other
  <2>4. SumFunctionOnSet(Largest, Windowed(S) \ Windowed(S)) = 0
    <3>1. Windowed(S) \ Windowed(S) = {}
      OBVIOUS
    <3>2. QED
      BY <3>1, SumOfNone
  <2>5. HealthFine(new, Largest, Readers)
    BY <2>2, <2>4, ReadersAre DEF HealthFine
  <2>6. HealthFine(other, Largest, Readers)
    BY <2>3, HealthNothing
  <2>7. QED
    BY <2>1, <2>5, <2>6, HealthAfter
<1>4. QED
  BY <1>1, <1>2, <1>3, CallRecords DEF PinningUsers

\* The steps of recordings and of group checks.
LEMMA HealthElsewhere ==
  ASSUME Typed, RoundInv, HealthInv, NEW p \in Procs, Record(p) \/ AskGroup(p) \/ Return(p)
  PROVE  HealthInv'
<1> DEFINE k == task[p]
<1>1. task \in [Procs -> Task] /\ k \in Task
  BY DEF Typed
<1>2. ASSUME NEW new, task' = [task EXCEPT ![p] = new], UNCHANGED <<now, accounts, recorded>>,
             new.pc # "health", new.pc = "answered" => new.answer # "healthy"
      PROVE  HealthInv'
  <2>1. HealthFine(new, Largest, Readers)
    BY <1>2, HealthNothing
  <2>2. QED
    BY <1>2, <2>1, HealthAfter
<1>3. ASSUME NEW answer \in {"yes", "no", "error"}, task' = [task EXCEPT ![p] = Answer(k, answer)],
             UNCHANGED <<now, accounts, recorded>>
      PROVE  HealthInv'
  <2> DEFINE new == Answer(k, answer)
  <2>1. new.pc = "answered" /\ new.answer = answer
    BY <1>1, AnswerFields
  <2>2. task' = [task EXCEPT ![p] = new]
    BY <1>3
  <2> HIDE DEF new
  <2>3. QED
    BY <1>2, <1>3, <2>1, <2>2
<1>4. ASSUME NEW u \in Users, CreateDetail(p, u) PROVE HealthInv'
  <2>1. PICK new \in Task : task' = Stir([task EXCEPT ![p] = new])
    BY <1>4, CreateDetailIs
  <2> DEFINE mid == [task EXCEPT ![p] = new]
  <2>2. mid \in [Procs -> Task] /\ task' = Stir(mid)
    BY <1>1, <2>1
  <2> HIDE DEF mid
  <2>3. QED
    BY <2>2, HealthStirred
<1>5. ASSUME NEW u \in Users, DetailFails(p, u) PROVE HealthInv'
  <2>1. PICK new \in Task : task' = [task EXCEPT ![p] = new] /\ new.pc \in {"done", "detail"}
    BY <1>5, DetailFailsIs
  <2>2. UNCHANGED <<now, accounts, recorded>>
    BY <1>5 DEF DetailFails
  <2>3. QED
    BY <1>2, <2>1, <2>2
<1>6. ASSUME UpsertInsert(p) PROVE HealthInv'
  <2>1. PICK new \in Task : task' = [task EXCEPT ![p] = new] /\ new.pc = "update"
    BY <1>6, UpsertInsertIs
  <2>2. UNCHANGED <<now, accounts, recorded>>
    BY <1>6 DEF UpsertInsert
  <2>3. QED
    BY <1>2, <2>1, <2>2
<1>7. ASSUME UpsertMySQL(p) \/ UpsertUpdate(p) \/ DailyFails(p) PROVE HealthInv'
  <2>1. /\ Charged(p) /\ k.pc \in {"daily", "update"} /\ UNCHANGED <<now, accounts, recorded>>
    BY <1>7 DEF UpsertMySQL, UpsertUpdate, DailyFails
  <2>2. PICK new \in Task : task' = [task EXCEPT ![p] = new] /\ new.pc \in {"done", "detail"}
    BY <2>1, ChargedIs
  <2>3. QED
    BY <1>2, <2>1, <2>2
<1>8. ASSUME NEW u \in Users, AskUser(p, u) PROVE HealthInv'
  <2>1. UNCHANGED <<now, accounts, recorded>> /\ k.pc = "ask"
    BY <1>8 DEF AskUser
  <2>2. PICK kept :
          \/ task' = [task EXCEPT ![p] = Answer(k, "error")]
          \/ task' = [task EXCEPT ![p] = [k EXCEPT !.todo = k.todo \ {u}, !.kept = kept]]
    BY <1>8 DEF AskUser
  <2> DEFINE new == [k EXCEPT !.todo = k.todo \ {u}, !.kept = kept]
  <2>3. new.pc = "ask"
    BY <1>1, <2>1 DEF Task
  <2> HIDE DEF new
  <2>4. QED
    BY <1>2, <1>3, <2>1, <2>2, <2>3 DEF new
<1>9. ASSUME NextRound(p) PROVE HealthInv'
  <2>1. UNCHANGED <<now, accounts, recorded>>
    BY <1>9 DEF NextRound
  <2> DEFINE new == Round(k, k.kept)
  <2>2. new.pc = "ask"
    BY <1>1 DEF Round, Task
  <2>3. \/ task' = [task EXCEPT ![p] = Answer(k, "no")]
        \/ task' = [task EXCEPT ![p] = Answer(k, "yes")]
        \/ task' = [task EXCEPT ![p] = new]
    BY <1>9, RoundEnds
  <2> HIDE DEF new
  <2>4. QED
    BY <1>2, <1>3, <2>1, <2>2, <2>3
<1>10. ASSUME Return(p) PROVE HealthInv'
  <2>1. Idle.pc = "idle"
    BY IdleTyped
  <2>2. task' = [task EXCEPT ![p] = Idle] /\ UNCHANGED <<now, accounts, recorded>>
    BY <1>10 DEF Return
  <2>3. QED
    BY <1>2, <2>1, <2>2
<1>11. QED
  BY <1>4, <1>5, <1>6, <1>7, <1>8, <1>9, <1>10 DEF Record, AskGroup

LEMMA HealthInit == Init => HealthInv
<1>1. Idle.pc = "idle"
  BY IdleTyped
<1>2. QED
  BY <1>1, HealthNothing DEF Init, HealthInv

LEMMA HealthIsKept == Typed /\ RoundInv /\ HealthInv /\ [Next]_vars => HealthInv'
<1> SUFFICES ASSUME Typed, RoundInv, HealthInv, [Next]_vars PROVE HealthInv'
  OBVIOUS
<1>1. CASE Tick \/ \E days \in Retentions : HandleCleanup(days)
  <2>1. task' = Stir(task) /\ task \in [Procs -> Task]
    BY <1>1 DEF Tick, HandleCleanup, CleanupOldRecords, Typed
  <2>2. QED
    BY <2>1, HealthStirred
<1>2. CASE UNCHANGED vars
  <2>1. task' = task /\ UNCHANGED <<now, accounts, recorded>>
    BY <1>2 DEF vars
  <2>2. UNCHANGED <<Largest, Readers>>
    BY <2>1, LargestSame
  <2>3. QED
    BY <2>1, <2>2 DEF HealthInv
<1>3. QED
  BY <1>1, <1>2, HealthCall, HealthElsewhere, HealthReads DEF Next

\* What reports under way have added up, whatever goes on.
THEOREM HealthHolds == Spec => []HealthInv
  BY HealthInit, HealthIsKept, TypedHolds, RoundInvHolds, PTL DEF Spec

LEMMA HealthMeans == Typed /\ HealthInv => HealthIsBacked
<1> SUFFICES ASSUME Typed, HealthInv, NEW p \in Procs, task[p].pc = "answered",
                    task[p].answer = "healthy", ~task[p].stirred
             PROVE  LET k == task[p]
                        counted == Windowed(k.group) \cup Counted(k.group, {"ALLOWANCE"})
                    IN  IF k.unlimited
                        THEN \E u \in k.group : LargestFor(u) = MaxUint
                        ELSE k.remaining = SumFunction([u \in counted |-> LargestFor(u)])
  BY DEF HealthIsBacked
<1> DEFINE k == task[p]
           counted == Windowed(k.group) \cup Counted(k.group, {"ALLOWANCE"})
           f == [u \in counted |-> LargestFor(u)]
<1>1. k.group \in SUBSET Users
  BY DEF Typed, Task
<1>2. /\ k.unlimited => Counted(k.group, {"UNLIMITED"}) # {}
      /\ k.remaining = SumFunctionOnSet(Largest, counted)
  BY <1>1, ReadersAre DEF HealthInv, HealthFine
<1>3. counted \in SUBSET Users
  BY <1>1, ReadersAre
<1>4. ASSUME k.unlimited PROVE \E u \in k.group : LargestFor(u) = MaxUint
  <2>1. PICK u \in Counted(k.group, {"UNLIMITED"}) : TRUE
    BY <1>2, <1>4
  <2>2. u \in k.group /\ accounts[u].policy = "UNLIMITED"
    BY DEF Counted
  <2>3. QED
    BY <1>1, <2>2, LargestIs
<1> HIDE DEF counted
<1>5. SumFunction(f) = SumFunctionOnSet(Largest, counted)
  <2>1. DOMAIN f = counted
    OBVIOUS
  <2>2. SumFunction(f) = SumFunctionOnSet(f, counted)
    BY <2>1 DEF SumFunction
  <2>3. \A u \in counted : Largest[u] \in Nat /\ f[u] = Largest[u]
    BY <1>3, LargestNat
  <2>4. SumFunctionOnSet(f, counted) = SumFunctionOnSet(Largest, counted)
    BY <1>3, <2>3, SubsetsFinite, SumOfSame
  <2>5. QED
    BY <2>2, <2>4
<1>6. QED
  BY <1>2, <1>4, <1>5 DEF counted

\* A health report, while nothing is recorded, adds up what the checks of the pinners
\* would still let pass, one by one, however their usage was read in groups.
THEOREM ReportsAreBacked == Spec => []HealthIsBacked
  BY TypedHolds, HealthHolds, HealthMeans, PTL
================================================================================
