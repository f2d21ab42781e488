----------------------------- MODULE TaskLedger -----------------------------
(***************************************************************************)
(* The progress record of a task (pkg/scrapper/api.go, task.go).           *)
(*                                                                         *)
(* SubmitJob stores a task in the KV; the task's feeder lists every post   *)
(* it reads with UpdateTask; whoever finishes an item - a queue worker, or *)
(* the feeder when every store already has the file - calls increment; and *)
(* WaitOnId polls the record until it looks complete or a deadline passes. *)
(* UpdateTask and UpdateItemDone are read-modify-write sections under the  *)
(* mutex s.l, each split here at its KV.Get and its KV.Set.  increment     *)
(* reads the record once MORE, before it takes that mutex.                 *)
(*                                                                         *)
(* What happens to an item between UpdateTask and increment is left to     *)
(* ScrapperV1, which implements this specification.                        *)
(***************************************************************************)
EXTENDS Naturals, Sequences, FiniteSets, Functions

CONSTANTS Tasks,     \* task ids (uuid.NewString)
          Items,     \* posts of all tasks, an item being made from each
          TaskOf,    \* the task whose source yields the item
          NoItem,    \* nobody holds s.l
          MaxLooks   \* polls that fit before WaitOnId's deadline

ASSUME LedgerAssumption ==
    /\ IsFiniteSet(Items)
    /\ TaskOf \in [Items -> Tasks]
    /\ NoItem \notin Items
    /\ MaxLooks \in Nat

VARIABLES
    kv,       \* kv[t]: the record under key t of the "task" namespace
    l,        \* the mutex s.l: the item on whose behalf it is held
    pc,       \* pc[i]: how far the calls made for item i have got
    vI,       \* vI[t]: the feeder's own v.I
    local,    \* local[i]: the copy UpdateTask or UpdateItemDone works on
    opts,     \* opts[i]: the ItemDone that increment passes on
    wait      \* wait[t]: the WaitOnId(t) call

vars == <<kv, l, pc, vI, local, opts, wait>>

-----------------------------------------------------------------------------
(* A record as KV.Get returns it; NoTask stands for "key not found".       *)

StatusEnum == {"TASK_ABSENT", "TASK_CREATED", "TASK_STARTED"}

Task == [Status : StatusEnum, ItemDone : Nat, TotalItem : Nat, I : Seq(Items)]

NoTask  == [Status |-> "TASK_ABSENT", ItemDone |-> 0, TotalItem |-> 0, I |-> <<>>]

(* The Status of the literal left out.                                     *)
NewTaskBlank == [NoTask EXCEPT !.Status = ""]

NewTask == [NoTask EXCEPT !.Status = "TASK_CREATED"]

(* s.l.Lock() forgotten, s.l.Unlock() forgotten.                           *)
LockMissing(i)   == l' = i
UnlockMissing(i) == l' = i

Lock(i)   == l = NoItem /\ l' = i
Unlock(i) == l' = NoItem

Stage == {"post", "listing", "listed", "incrementing", "counting", "counted"}
Call  == [pc : {"idle", "look", "sleep", "true", "false"}, seen : Task, looks : Nat]

Init ==
    /\ kv    = [t \in Tasks |-> NoTask]
    /\ l     = NoItem
    /\ pc    = [i \in Items |-> "post"]
    /\ vI    = [t \in Tasks |-> <<>>]
    /\ local = [i \in Items |-> NoTask]
    /\ opts  = [i \in Items |-> 0]
    /\ wait  = [t \in Tasks |-> [pc |-> "idle", seen |-> NoTask, looks |-> 0]]

-----------------------------------------------------------------------------
(* SubmitJob: KV.Set of the fresh task, under a fresh id, before the task  *)
(* is put on TaskQ.                                                        *)
SubmitJob(t) ==
    /\ kv[t] = NoTask
    /\ kv' = [kv EXCEPT ![t] = NewTask]
    /\ UNCHANGED <<l, pc, vI, local, opts, wait>>

(* The feeder appends the item to its v.I, calls UpdateTask, which takes   *)
(* s.l and reads the record ...                                            *)
UpdateTaskBegin(i) ==
    LET t == TaskOf[i] IN
    /\ pc[i] = "post"
    /\ kv[t].Status # "TASK_ABSENT"
    /\ Lock(i)
    /\ vI' = [vI EXCEPT ![t] = Append(@, i)]
    /\ local' = [local EXCEPT ![i] = kv[t]]
    /\ pc' = [pc EXCEPT ![i] = "listing"]
    /\ UNCHANGED <<kv, opts, wait>>

(* ... and writes it back with the new total and item; ItemDone stays as   *)
(* it was read.                                                            *)
UpdateTaskEnd(i) ==
    LET t == TaskOf[i] IN
    /\ pc[i] = "listing"
    /\ kv' = [kv EXCEPT ![t] = [local[i] EXCEPT
                  !.TotalItem = Len(vI[t]),
                  !.Status    = "TASK_STARTED",
                  !.I         = Append(@, i)]]
    /\ Unlock(i)
    /\ local' = [local EXCEPT ![i] = NoTask]
    /\ pc' = [pc EXCEPT ![i] = "listed"]
    /\ UNCHANGED <<vI, opts, wait>>

(* increment: GetJob, without s.l, and the atomic add on the private copy. *)
Increment(i) ==
    /\ pc[i] = "listed"
    /\ opts' = [opts EXCEPT ![i] = kv[TaskOf[i]].ItemDone + 1]
    /\ pc' = [pc EXCEPT ![i] = "incrementing"]
    /\ UNCHANGED <<kv, l, vI, local, wait>>

(* UpdateItemDone: Lock and KV.Get ...                                     *)
UpdateItemDoneBegin(i) ==
    /\ pc[i] = "incrementing"
    /\ Lock(i)
    /\ local' = [local EXCEPT ![i] = kv[TaskOf[i]]]
    /\ pc' = [pc EXCEPT ![i] = "counting"]
    /\ UNCHANGED <<kv, vI, opts, wait>>

(* ... KV.Set of the record with the ItemDone computed before the lock.    *)
UpdateItemDoneEnd(i) ==
    /\ pc[i] = "counting"
    /\ kv' = [kv EXCEPT ![TaskOf[i]] = [local[i] EXCEPT !.ItemDone = opts[i]]]
    /\ Unlock(i)
    /\ local' = [local EXCEPT ![i] = NoTask]
    /\ pc' = [pc EXCEPT ![i] = "counted"]
    /\ UNCHANGED <<vI, opts, wait>>

-----------------------------------------------------------------------------
(* WaitOnId(t): the call, its loop head, its sleep.                        *)
WaitOnId(t) ==
    /\ wait[t].pc = "idle"
    /\ wait' = [wait EXCEPT ![t].pc = "look"]
    /\ UNCHANGED <<kv, l, pc, vI, local, opts>>

(* CheckJob: the status is read once and logged; an unknown id ends the    *)
(* call.                                                                   *)
CheckJob(t) ==
    /\ wait[t].pc = "look"
    /\ wait[t].looks < MaxLooks
    /\ wait' = [wait EXCEPT ![t] =
                  [pc    |-> IF kv[t] = NoTask THEN "false" ELSE "sleep",
                   seen  |-> kv[t],
                   looks |-> @.looks + 1]]
    /\ UNCHANGED <<kv, l, pc, vI, local, opts>>

(* The break condition, without and with its test of the status.           *)
FinishedAnyStatus(r) == r.ItemDone >= r.TotalItem
Finished(r)          == r.ItemDone >= r.TotalItem /\ r.Status # "TASK_CREATED"

(* After the sleep the status read BEFORE it decides.                      *)
Wake(t) ==
    /\ wait[t].pc = "sleep"
    /\ wait' = [wait EXCEPT ![t].pc =
                  IF Finished(wait[t].seen) THEN "true" ELSE "look"]
    /\ UNCHANGED <<kv, l, pc, vI, local, opts>>

(* The deadline is tested at the loop head only; it may have passed there  *)
(* any time, and has after MaxLooks sleeps.                                *)
Deadline(t) ==
    /\ wait[t].pc = "look"
    /\ wait' = [wait EXCEPT ![t].pc = "false"]
    /\ UNCHANGED <<kv, l, pc, vI, local, opts>>

-----------------------------------------------------------------------------
ItemStep(i) ==
    \/ UpdateTaskBegin(i)
    \/ UpdateTaskEnd(i)
    \/ Increment(i)
    \/ UpdateItemDoneBegin(i)
    \/ UpdateItemDoneEnd(i)

WaitStep(t) == CheckJob(t) \/ Wake(t) \/ Deadline(t)

Next ==
    \/ \E t \in Tasks : SubmitJob(t) \/ WaitOnId(t) \/ WaitStep(t)
    \/ \E i \in Items : ItemStep(i)

Spec == Init /\ [][Next]_vars

(* Goroutines are scheduled.  Finitely many sections use s.l, so weak      *)
(* fairness is enough to get it.                                           *)
FairSpec ==
    /\ Spec
    /\ \A i \in Items : WF_vars(ItemStep(i))
    /\ \A t \in Tasks : WF_vars(WaitStep(t))

-----------------------------------------------------------------------------
TypeOK ==
    /\ kv    \in [Tasks -> Task]
    /\ l     \in Items \cup {NoItem}
    /\ pc    \in [Items -> Stage]
    /\ vI    \in [Tasks -> Seq(Items)]
    /\ local \in [Items -> Task]
    /\ opts  \in [Items -> Nat]
    /\ wait  \in [Tasks -> Call]

ItemsOf(t) == {i \in Items : TaskOf[i] = t}
Read(t)    == {i \in ItemsOf(t) : pc[i] # "post"}
Listed(t)  == {i \in ItemsOf(t) : pc[i] \notin {"post", "listing"}}
Counted(t) == {i \in ItemsOf(t) : pc[i] = "counted"}

(* The record lists each item its feeder has reported exactly once, and    *)
(* TotalItem is their number: no UpdateTask and no UpdateItemDone ever     *)
(* writes over what another one stored (api.go:107-155).                   *)
RecordListsItems ==
    \A t \in Tasks :
        /\ Range(kv[t].I) = Listed(t)
        /\ Len(kv[t].I) = kv[t].TotalItem
        /\ kv[t].TotalItem = Cardinality(Listed(t))

(* ItemDone never runs ahead of the items whose increment is over, hence   *)
(* never ahead of TotalItem, whatever increments get lost on the way       *)
(* (api.go:135-173): progress is never over-reported.                      *)
DoneNeverAhead ==
    \A t \in Tasks :
        /\ kv[t].ItemDone <= Cardinality(Counted(t))
        /\ kv[t].ItemDone <= kv[t].TotalItem

(* What a TRUE from WaitOnId is worth (api.go:84-105): the items the       *)
(* record listed when it was read, at least one, had all been counted.     *)
WaitTrueCoversSeen ==
    \A t \in Tasks : wait[t].pc = "true" =>
        /\ wait[t].seen.TotalItem >= 1
        /\ \A k \in 1 .. Len(wait[t].seen.I) : pc[wait[t].seen.I[k]] = "counted"

(* What the record promises (TaskProgress), kept by every section under    *)
(* s.l and every poll: the list only grows, by one item of a submitted     *)
(* task at a time; progress is stored only along with an item that is      *)
(* done, and is never more than are done; TRUE follows a look at a list    *)
(* that was not empty and all done (api.go:84-173).                        *)
P == INSTANCE TaskProgress WITH
         known    <- {t \in Tasks : kv[t].Status # "TASK_ABSENT"},
         listed   <- [t \in Tasks |-> kv[t].I],
         done     <- {i \in Items : pc[i] = "counted"},
         count    <- [t \in Tasks |-> Cardinality(Counted(t))],
         progress <- [t \in Tasks |-> kv[t].ItemDone],
         covered  <- {t \in Tasks : /\ wait[t].pc \in {"sleep", "true"}
                                    /\ Finished(wait[t].seen)},
         verdict  <- [t \in Tasks |-> IF wait[t].pc \in {"true", "false"}
                                      THEN wait[t].pc ELSE "none"]

KeepsPromises == P!Spec

(* A reader of the record never sees the list of items shrink or change:   *)
(* every write extends the list it found (api.go:119-128,147-150).         *)
ListOnlyExtends ==
    [][\A t \in Tasks :
        /\ kv[t].TotalItem <= kv'[t].TotalItem
        /\ \A k \in 1 .. Len(kv[t].I) : /\ k <= Len(kv'[t].I)
                                        /\ kv'[t].I[k] = kv[t].I[k]]_vars

(* Every item that reaches the record is counted in the end: whoever holds *)
(* s.l gives it back on every path (api.go:107-173), so the feeder and the *)
(* workers never wait on it for ever.                                      *)
ListedIsCounted ==
    \A i \in Items : pc[i] = "listing" ~> pc[i] = "counted"

(* "incrementing item done" (api.go:159): once every increment is over,    *)
(* ItemDone is the number of items.  The code does not keep this: two      *)
(* increments that both read before either writes store the same number.   *)
NoIncrementLost ==
    \A t \in Tasks :
        Counted(t) = ItemsOf(t) => kv[t].ItemDone = Cardinality(ItemsOf(t))
=============================================================================
