-------------------------- MODULE TaskLedgerProofs --------------------------
(***************************************************************************)
(* Proofs about the progress record, for any finite set of items, any      *)
(* number of tasks and any deadline.                                       *)
(*                                                                         *)
(* The strengthening says who holds s.l (LockInv), that the copy being     *)
(* edited under s.l is still the record (CopyInv), that the feeder's v.I   *)
(* counts the posts it has read (FeedInv), what a record's Status tells    *)
(* about it (StatusInv), that no increment is about to store more than the *)
(* items counted by the time it is over (OptsInv), and what a WaitOnId     *)
(* that is asleep has seen (SeenInv).                                      *)
(***************************************************************************)
EXTENDS TaskLedger, FiniteSetTheorems, TLAPS

InSection(i) == pc[i] \in {"listing", "counting"}

LockInv == \A i \in Items : InSection(i) <=> l = i

CopyInv == \A i \in Items : InSection(i) => local[i] = kv[TaskOf[i]]

FeedInv == \A t \in Tasks : Len(vI[t]) = Cardinality(Read(t))

StatusInv ==
    \A t \in Tasks :
        /\ kv[t].Status = "TASK_ABSENT"  => kv[t] = NoTask /\ Read(t) = {}
        /\ kv[t].Status = "TASK_STARTED" => kv[t].TotalItem >= 1

DoneInv == \A t \in Tasks : kv[t].ItemDone <= Cardinality(Counted(t))

OptsInv ==
    \A i \in Items : pc[i] \in {"incrementing", "counting"} =>
        opts[i] >= 1 /\ opts[i] <= Cardinality(Counted(TaskOf[i])) + 1

Complete(r) == r.ItemDone >= r.TotalItem

SeenInv ==
    \A t \in Tasks : wait[t].pc \in {"sleep", "true"} =>
        LET seen == wait[t].seen IN
        /\ seen.Status # "TASK_CREATED" => seen.TotalItem >= 1
        /\ Complete(seen) => \A k \in 1 .. Len(seen.I) : pc[seen.I[k]] = "counted"
        /\ wait[t].pc = "true" => Complete(seen) /\ seen.Status # "TASK_CREATED"

IInv ==
    /\ LockInv
    /\ CopyInv
    /\ FeedInv
    /\ StatusInv
    /\ RecordListsItems
    /\ DoneInv
    /\ OptsInv
    /\ SeenInv

-----------------------------------------------------------------------------
(* Cardinalities of sets of items.                                         *)

(* The items of a task that have reached some stage are finitely many, and *)
(* each later stage is a subset of the earlier one.                        *)
LEMMA ItemSets ==
    ASSUME NEW t \in Tasks
    PROVE  /\ IsFiniteSet(Read(t)) /\ Cardinality(Read(t)) \in Nat
           /\ IsFiniteSet(Listed(t)) /\ Cardinality(Listed(t)) \in Nat
           /\ IsFiniteSet(Counted(t)) /\ Cardinality(Counted(t)) \in Nat
           /\ Counted(t) \subseteq Listed(t)
<1>1. Read(t) \subseteq Items /\ Listed(t) \subseteq Items /\ Counted(t) \subseteq Items
  BY DEF Read, Listed, Counted, ItemsOf
<1>2. Counted(t) \subseteq Listed(t)
  BY DEF Listed, Counted
<1> QED
  BY <1>1, <1>2, FS_Subset, FS_CardinalityType, LedgerAssumption

(* A record whose ItemDone has reached its TotalItem lists counted items   *)
(* only: DoneInv leaves no room for an item that is not.                   *)
LEMMA CompleteMeansCounted ==
    ASSUME TypeOK, RecordListsItems, DoneInv, NEW t \in Tasks, Complete(kv[t])
    PROVE  \A k \in 1 .. Len(kv[t].I) : pc[kv[t].I[k]] = "counted"
<1>1. kv[t].ItemDone \in Nat /\ kv[t].TotalItem \in Nat /\ kv[t].I \in Seq(Items)
  BY DEF TypeOK, Task
<1>2. Cardinality(Listed(t)) <= Cardinality(Counted(t))
  BY <1>1, ItemSets DEF RecordListsItems, DoneInv, Complete
<1>3. Cardinality(Counted(t)) <= Cardinality(Listed(t))
  BY ItemSets, FS_Subset
<1>4. Cardinality(Counted(t)) = Cardinality(Listed(t))
  BY <1>2, <1>3, ItemSets
<1>5. Counted(t) = Listed(t)
  BY <1>4, ItemSets, FS_Subset
<1>6. \A k \in 1 .. Len(kv[t].I) : kv[t].I[k] \in Range(kv[t].I)
  BY <1>1 DEF Range
<1> QED
  BY <1>5, <1>6 DEF RecordListsItems, Counted

(* ItemDone never exceeds the counted items, hence never TotalItem.        *)
LEMMA DoneBelowTotal ==
    ASSUME TypeOK, RecordListsItems, DoneInv
    PROVE  DoneNeverAhead
<1> SUFFICES ASSUME NEW t \in Tasks
             PROVE  /\ kv[t].ItemDone <= Cardinality(Counted(t))
                    /\ kv[t].ItemDone <= kv[t].TotalItem
  BY DEF DoneNeverAhead
<1>1. Cardinality(Counted(t)) <= Cardinality(Listed(t))
  BY ItemSets, FS_Subset
<1>2. kv[t].ItemDone \in Nat /\ kv[t].TotalItem \in Nat
  BY DEF TypeOK, Task
<1> QED
  BY <1>1, <1>2, ItemSets DEF RecordListsItems, DoneInv

-----------------------------------------------------------------------------
(* Type correctness.                                                       *)

(* Each step of the record's writers and of its pollers keeps TypeOK.      *)
LEMMA TypeStep == TypeOK /\ [Next]_vars => TypeOK'
<1> SUFFICES ASSUME TypeOK, [Next]_vars PROVE TypeOK'
  OBVIOUS
<1> USE LedgerAssumption
<1>0. NoTask \in Task /\ NewTask \in Task
  <2>1. <<>> \in Seq(Items)
    OBVIOUS
  <2> QED
    BY <2>1 DEF Task, NoTask, NewTask, StatusEnum
<1>1. ASSUME NEW t \in Tasks, SubmitJob(t) PROVE TypeOK'
  BY <1>0, <1>1 DEF SubmitJob, TypeOK
<1>2. ASSUME NEW t \in Tasks, WaitOnId(t) PROVE TypeOK'
  BY <1>2 DEF WaitOnId, TypeOK, Call
<1>3. ASSUME NEW t \in Tasks, CheckJob(t) PROVE TypeOK'
  <2>1. wait[t] \in Call /\ kv[t] \in Task
    BY DEF TypeOK
  <2>2. [pc |-> IF kv[t] = NoTask THEN "false" ELSE "sleep", seen |-> kv[t],
         looks |-> wait[t].looks + 1] \in Call
    BY <2>1 DEF Call
  <2> QED
    BY <1>3, <2>2 DEF CheckJob, TypeOK
<1>4. ASSUME NEW t \in Tasks, Wake(t) PROVE TypeOK'
  <2> DEFINE next == IF /\ wait[t].seen.ItemDone >= wait[t].seen.TotalItem
                        /\ wait[t].seen.Status # "TASK_CREATED"
                     THEN "true" ELSE "look"
  <2>1. /\ wait' = [wait EXCEPT ![t].pc = next]
        /\ UNCHANGED <<kv, l, pc, vI, local, opts>>
    BY <1>4 DEF Wake, Finished
  <2>2. next \in {"true", "look"}
    OBVIOUS
  <2> HIDE DEF next
  <2> QED
    BY <2>1, <2>2 DEF TypeOK, Call
<1>5. ASSUME NEW t \in Tasks, Deadline(t) PROVE TypeOK'
  BY <1>5 DEF Deadline, TypeOK, Call
<1>6. ASSUME NEW i \in Items, UpdateTaskBegin(i) PROVE TypeOK'
  BY <1>6 DEF UpdateTaskBegin, Lock, TypeOK, Stage
<1>7. ASSUME NEW i \in Items, UpdateTaskEnd(i) PROVE TypeOK'
  <2> DEFINE r == [local[i] EXCEPT !.TotalItem = Len(vI[TaskOf[i]]),
                                   !.Status    = "TASK_STARTED",
                                   !.I         = Append(@, i)]
  <2>1. local[i] \in Task /\ vI[TaskOf[i]] \in Seq(Items) /\ TaskOf[i] \in Tasks
    BY DEF TypeOK
  <2>2. Append(local[i].I, i) \in Seq(Items) /\ Len(vI[TaskOf[i]]) \in Nat
    BY <2>1 DEF Task
  <2>3. r \in Task
    BY <2>1, <2>2 DEF Task, StatusEnum
  <2>4. kv' = [kv EXCEPT ![TaskOf[i]] = r]
    BY <1>7 DEF UpdateTaskEnd, Unlock
  <2> HIDE DEF r
  <2> QED
    BY <1>0, <1>7, <2>1, <2>3, <2>4 DEF UpdateTaskEnd, Unlock, TypeOK, Stage
<1>8. ASSUME NEW i \in Items, Increment(i) PROVE TypeOK'
  <2>1. kv[TaskOf[i]].ItemDone + 1 \in Nat
    BY DEF TypeOK, Task
  <2> QED
    BY <1>8, <2>1 DEF Increment, TypeOK, Stage
<1>9. ASSUME NEW i \in Items, UpdateItemDoneBegin(i) PROVE TypeOK'
  BY <1>9 DEF UpdateItemDoneBegin, Lock, TypeOK, Stage
<1>10. ASSUME NEW i \in Items, UpdateItemDoneEnd(i) PROVE TypeOK'
  <2>1. [local[i] EXCEPT !.ItemDone = opts[i]] \in Task /\ TaskOf[i] \in Tasks
    BY DEF TypeOK, Task
  <2> QED
    BY <1>0, <1>10, <2>1 DEF UpdateItemDoneEnd, Unlock, TypeOK, Stage
<1>11. CASE UNCHANGED vars
  BY <1>11 DEF vars, TypeOK
<1> QED
  BY <1>1, <1>2, <1>3, <1>4, <1>5, <1>6, <1>7, <1>8, <1>9, <1>10, <1>11
     DEF Next, WaitStep, ItemStep

(* Every variable keeps its type, whatever the interleaving of submitters, *)
(* feeders, workers and pollers.                                           *)
THEOREM TypeCorrect == Spec => []TypeOK
<1>1. Init => TypeOK
  BY LedgerAssumption
     DEF Init, TypeOK, Task, Call, Stage, StatusEnum, NoTask
<1> QED
  BY <1>1, TypeStep, PTL DEF Spec

-----------------------------------------------------------------------------
(* The inductive invariant.                                                *)

(* A sequence that grows by one element ranges over one more element.      *)
LEMMA RangeAppend ==
    ASSUME NEW S, NEW s \in Seq(S), NEW x \in S
    PROVE  Range(Append(s, x)) = Range(s) \cup {x}
<1>1. DOMAIN s = 1 .. Len(s) /\ DOMAIN Append(s, x) = 1 .. (Len(s) + 1)
  OBVIOUS
<1>2. Append(s, x)[Len(s) + 1] = x
  OBVIOUS
<1>3. \A k \in 1 .. Len(s) : Append(s, x)[k] = s[k]
  OBVIOUS
<1>4. 1 .. (Len(s) + 1) = (1 .. Len(s)) \cup {Len(s) + 1}
  OBVIOUS
<1> QED
  BY <1>1, <1>2, <1>3, <1>4, Zenon DEF Range

(* Initially nothing is stored, read, listed or counted.                   *)
LEMMA InitIInv == Init => IInv
<1> SUFFICES ASSUME Init PROVE IInv
  OBVIOUS
<1>1. \A t \in Tasks : Read(t) = {} /\ Listed(t) = {} /\ Counted(t) = {}
  BY DEF Init, Read, Listed, Counted, ItemsOf
<1>2. \A t \in Tasks : Cardinality(Read(t)) = 0 /\ Cardinality(Listed(t)) = 0
                       /\ Cardinality(Counted(t)) = 0
  BY <1>1, FS_EmptySet
<1>3. LockInv /\ CopyInv /\ OptsInv
  BY LedgerAssumption DEF Init, LockInv, CopyInv, OptsInv, InSection
<1>4. FeedInv /\ DoneInv
  BY <1>2 DEF Init, FeedInv, DoneInv, NoTask
<1>5. StatusInv
  BY <1>1 DEF Init, StatusInv, NoTask
<1>6. RecordListsItems
  BY <1>1, <1>2 DEF Init, RecordListsItems, NoTask, Range
<1>7. SeenInv
  BY DEF Init, SeenInv
<1> QED
  BY <1>3, <1>4, <1>5, <1>6, <1>7 DEF IInv

(* SubmitJob stores its task before any item of it has been read.          *)
LEMMA SubmitKeepsIInv ==
    ASSUME TypeOK, IInv, NEW t \in Tasks, SubmitJob(t)
    PROVE  IInv'
<1> USE DEF SubmitJob
<1>1. /\ kv[t] = NoTask /\ Read(t) = {}
      /\ kv' = [kv EXCEPT ![t] = NewTask]
      /\ UNCHANGED <<l, pc, vI, local, opts, wait>>
  BY DEF IInv, StatusInv, NoTask
<1>2. \A u \in Tasks : /\ Read(u)' = Read(u)
                       /\ Listed(u)' = Listed(u)
                       /\ Counted(u)' = Counted(u)
  BY <1>1 DEF Read, Listed, Counted, ItemsOf
<1>3. kv'[t] = NewTask /\ \A u \in Tasks \ {t} : kv'[u] = kv[u]
  BY <1>1 DEF TypeOK
<1>4. /\ NewTask.Status = "TASK_CREATED" /\ NewTask.ItemDone = NoTask.ItemDone
      /\ NewTask.TotalItem = NoTask.TotalItem /\ NewTask.I = NoTask.I
  BY DEF NewTask, NoTask
<1>5. LockInv' /\ OptsInv' /\ FeedInv' /\ SeenInv'
  BY <1>1, <1>2, LedgerAssumption DEF IInv, LockInv, InSection, OptsInv, FeedInv, SeenInv
<1>6. CopyInv'
  BY <1>1, <1>3, LedgerAssumption DEF IInv, CopyInv, InSection, Read, ItemsOf
<1>7. StatusInv'
  BY <1>2, <1>3, <1>4 DEF IInv, StatusInv
<1>8. RecordListsItems' /\ DoneInv'
  BY <1>1, <1>2, <1>3, <1>4 DEF IInv, RecordListsItems, DoneInv
<1> QED
  BY <1>5, <1>6, <1>7, <1>8 DEF IInv

(* UpdateTask takes s.l: the new post is read, but not listed yet.         *)
LEMMA UpdateTaskBeginKeepsIInv ==
    ASSUME TypeOK, IInv, NEW i \in Items, UpdateTaskBegin(i)
    PROVE  IInv'
<1> DEFINE t == TaskOf[i]
<1>0. t \in Tasks
  BY LedgerAssumption
<1>1. /\ pc[i] = "post" /\ kv[t].Status # "TASK_ABSENT" /\ l = NoItem /\ l' = i
      /\ vI' = [vI EXCEPT ![t] = Append(@, i)]
      /\ local' = [local EXCEPT ![i] = kv[t]]
      /\ pc' = [pc EXCEPT ![i] = "listing"]
      /\ UNCHANGED <<kv, opts, wait>>
  BY DEF UpdateTaskBegin, Lock
<1>2. pc'[i] = "listing" /\ \A j \in Items \ {i} : pc'[j] = pc[j]
  BY <1>1 DEF TypeOK
<1>3. /\ i \notin Read(t) /\ Read(t)' = Read(t) \cup {i}
      /\ \A u \in Tasks \ {t} : Read(u)' = Read(u)
      /\ \A u \in Tasks : Listed(u)' = Listed(u) /\ Counted(u)' = Counted(u)
  BY <1>1, <1>2 DEF Read, Listed, Counted, ItemsOf
<1>4. LockInv' /\ CopyInv'
  BY <1>1, <1>2, LedgerAssumption DEF TypeOK, IInv, LockInv, CopyInv, InSection
<1>5. FeedInv'
  <2>1. Cardinality(Read(t)') = Cardinality(Read(t)) + 1
    BY <1>0, <1>3, ItemSets, FS_AddElement
  <2>2. Len(vI'[t]) = Len(vI[t]) + 1 /\ \A u \in Tasks \ {t} : vI'[u] = vI[u]
    BY <1>0, <1>1 DEF TypeOK
  <2> QED
    BY <1>0, <1>3, <2>1, <2>2 DEF IInv, FeedInv
<1>6. StatusInv'
  BY <1>1, <1>3 DEF IInv, StatusInv
<1>7. RecordListsItems' /\ DoneInv'
  BY <1>1, <1>3 DEF IInv, RecordListsItems, DoneInv
<1>8. OptsInv'
  BY <1>1, <1>2, <1>3, LedgerAssumption DEF IInv, OptsInv
<1>9. SeenInv'
  BY <1>1, <1>2 DEF IInv, SeenInv
<1> QED
  BY <1>4, <1>5, <1>6, <1>7, <1>8, <1>9 DEF IInv

(* UpdateTask stores the record: because s.l was held since it was read,   *)
(* the copy is still the record and the post is the only one read but not  *)
(* listed.                                                                 *)
LEMMA UpdateTaskEndKeepsIInv ==
    ASSUME TypeOK, IInv, NEW i \in Items, UpdateTaskEnd(i)
    PROVE  IInv'
<1> DEFINE t == TaskOf[i]
           r == [kv[t] EXCEPT !.TotalItem = Len(vI[t]),
                              !.Status    = "TASK_STARTED",
                              !.I         = Append(@, i)]
<1>0. t \in Tasks
  BY LedgerAssumption
<1>1. local[i] = kv[t] /\ l = i /\ \A j \in Items \ {i} : ~InSection(j)
  BY DEF UpdateTaskEnd, Unlock, IInv, LockInv, CopyInv, InSection
<1>2. /\ pc[i] = "listing" /\ l' = NoItem
      /\ kv' = [kv EXCEPT ![t] = r]
      /\ local' = [local EXCEPT ![i] = NoTask]
      /\ pc' = [pc EXCEPT ![i] = "listed"]
      /\ UNCHANGED <<vI, opts, wait>>
  BY <1>1 DEF UpdateTaskEnd, Unlock
<1>3. pc'[i] = "listed" /\ \A j \in Items \ {i} : pc'[j] = pc[j]
  BY <1>2 DEF TypeOK
<1>4. /\ i \notin Listed(t) /\ Listed(t)' = Listed(t) \cup {i}
      /\ \A u \in Tasks \ {t} : Listed(u)' = Listed(u)
      /\ \A u \in Tasks : Read(u)' = Read(u) /\ Counted(u)' = Counted(u)
  BY <1>2, <1>3 DEF Read, Listed, Counted, ItemsOf
<1>5. Read(t) = Listed(t)' /\ i \in Read(t)
  BY <1>1, <1>2, <1>4 DEF Read, Listed, ItemsOf, InSection
<1>6. kv[t] \in Task /\ vI[t] \in Seq(Items) /\ Len(vI[t]) \in Nat
  BY <1>0 DEF TypeOK
<1>7. /\ r.TotalItem = Len(vI[t]) /\ r.Status = "TASK_STARTED"
      /\ r.I = Append(kv[t].I, i) /\ r.ItemDone = kv[t].ItemDone
  BY <1>6 DEF Task
<1>8. kv'[t] = r /\ \A u \in Tasks \ {t} : kv'[u] = kv[u]
  BY <1>0, <1>2 DEF TypeOK
<1> HIDE DEF r
<1>9. LockInv'
  BY <1>1, <1>2, <1>3, LedgerAssumption DEF IInv, LockInv, InSection
<1>10. CopyInv'
  BY <1>1, <1>3 DEF CopyInv, InSection
<1>11. FeedInv'
  BY <1>2, <1>4 DEF IInv, FeedInv
<1>12. Cardinality(Listed(t)') = Cardinality(Listed(t)) + 1
  BY <1>0, <1>4, ItemSets, FS_AddElement
<1>13. Len(vI[t]) = Cardinality(Listed(t)')
  BY <1>0, <1>5 DEF IInv, FeedInv
<1>14. StatusInv'
  <2>1. r.TotalItem >= 1
    BY <1>0, <1>7, <1>12, <1>13, ItemSets
  <2> QED
    BY <1>4, <1>7, <1>8, <2>1 DEF IInv, StatusInv
<1>15. RecordListsItems'
  <2>1. kv[t].I \in Seq(Items)
    BY <1>6 DEF Task
  <2>2. Range(r.I) = Listed(t)'
    BY <1>0, <1>4, <1>7, <2>1, RangeAppend DEF IInv, RecordListsItems
  <2>3. Len(r.I) = Len(kv[t].I) + 1
    BY <1>7, <2>1
  <2>4. Len(r.I) = r.TotalItem /\ r.TotalItem = Cardinality(Listed(t)')
    BY <1>0, <1>7, <1>12, <1>13, <2>3 DEF IInv, RecordListsItems
  <2> QED
    BY <1>4, <1>8, <2>2, <2>4 DEF IInv, RecordListsItems
<1>16. DoneInv'
  BY <1>4, <1>7, <1>8 DEF IInv, DoneInv
<1>17. OptsInv'
  BY <1>2, <1>3, <1>4, LedgerAssumption DEF IInv, OptsInv
<1>18. SeenInv'
  BY <1>2, <1>3 DEF IInv, SeenInv
<1> QED
  BY <1>9, <1>10, <1>11, <1>14, <1>15, <1>16, <1>17, <1>18 DEF IInv

(* increment reads, without s.l, a count that may be out of date by the    *)
(* time it is stored, but never too high.                                  *)
LEMMA IncrementKeepsIInv ==
    ASSUME TypeOK, IInv, NEW i \in Items, Increment(i)
    PROVE  IInv'
<1>1. /\ pc[i] = "listed"
      /\ opts' = [opts EXCEPT ![i] = kv[TaskOf[i]].ItemDone + 1]
      /\ pc' = [pc EXCEPT ![i] = "incrementing"]
      /\ UNCHANGED <<kv, l, vI, local, wait>>
  BY DEF Increment
<1>2. pc'[i] = "incrementing" /\ \A j \in Items \ {i} : pc'[j] = pc[j]
  BY <1>1 DEF TypeOK
<1>3. \A u \in Tasks : /\ Read(u)' = Read(u)
                       /\ Listed(u)' = Listed(u)
                       /\ Counted(u)' = Counted(u)
  BY <1>1, <1>2 DEF Read, Listed, Counted, ItemsOf
<1>4. LockInv' /\ CopyInv'
  BY <1>1, <1>2 DEF IInv, LockInv, CopyInv, InSection
<1>5. FeedInv' /\ StatusInv' /\ RecordListsItems' /\ DoneInv'
  BY <1>1, <1>3 DEF IInv, FeedInv, StatusInv, RecordListsItems, DoneInv
<1>6. OptsInv'
  <2>1. TaskOf[i] \in Tasks /\ kv[TaskOf[i]].ItemDone \in Nat
    BY LedgerAssumption DEF TypeOK, Task
  <2>2. opts'[i] >= 1 /\ opts'[i] <= Cardinality(Counted(TaskOf[i])) + 1
    BY <1>1, <2>1, ItemSets DEF TypeOK, IInv, DoneInv
  <2>3. \A j \in Items \ {i} : opts'[j] = opts[j]
    BY <1>1 DEF TypeOK
  <2> QED
    BY <1>2, <1>3, <2>2, <2>3, LedgerAssumption DEF IInv, OptsInv
<1>7. SeenInv'
  BY <1>1, <1>2 DEF IInv, SeenInv
<1> QED
  BY <1>4, <1>5, <1>6, <1>7 DEF IInv

(* UpdateItemDone takes s.l and reads the record.                          *)
LEMMA UpdateItemDoneBeginKeepsIInv ==
    ASSUME TypeOK, IInv, NEW i \in Items, UpdateItemDoneBegin(i)
    PROVE  IInv'
<1>1. /\ pc[i] = "incrementing" /\ l = NoItem /\ l' = i
      /\ local' = [local EXCEPT ![i] = kv[TaskOf[i]]]
      /\ pc' = [pc EXCEPT ![i] = "counting"]
      /\ UNCHANGED <<kv, vI, opts, wait>>
  BY DEF UpdateItemDoneBegin, Lock
<1>2. pc'[i] = "counting" /\ \A j \in Items \ {i} : pc'[j] = pc[j]
  BY <1>1 DEF TypeOK
<1>3. \A u \in Tasks : /\ Read(u)' = Read(u)
                       /\ Listed(u)' = Listed(u)
                       /\ Counted(u)' = Counted(u)
  BY <1>1, <1>2 DEF Read, Listed, Counted, ItemsOf
<1>4. LockInv' /\ CopyInv'
  BY <1>1, <1>2, LedgerAssumption DEF TypeOK, IInv, LockInv, CopyInv, InSection
<1>5. FeedInv' /\ StatusInv' /\ RecordListsItems' /\ DoneInv'
  BY <1>1, <1>3 DEF IInv, FeedInv, StatusInv, RecordListsItems, DoneInv
<1>6. OptsInv'
  BY <1>1, <1>2, <1>3, LedgerAssumption DEF IInv, OptsInv
<1>7. SeenInv'
  BY <1>1, <1>2 DEF IInv, SeenInv
<1> QED
  BY <1>4, <1>5, <1>6, <1>7 DEF IInv

(* UpdateItemDone stores the count: one more item is counted by then, and  *)
(* what is stored is at most one more than were counted when it was read.  *)
LEMMA UpdateItemDoneEndKeepsIInv ==
    ASSUME TypeOK, IInv, NEW i \in Items, UpdateItemDoneEnd(i)
    PROVE  IInv'
<1> DEFINE t == TaskOf[i]
           r == [kv[t] EXCEPT !.ItemDone = opts[i]]
<1>0. t \in Tasks
  BY LedgerAssumption
<1>1. local[i] = kv[t] /\ l = i /\ \A j \in Items \ {i} : ~InSection(j)
  BY DEF UpdateItemDoneEnd, Unlock, IInv, LockInv, CopyInv, InSection
<1>2. /\ pc[i] = "counting" /\ l' = NoItem
      /\ kv' = [kv EXCEPT ![t] = r]
      /\ local' = [local EXCEPT ![i] = NoTask]
      /\ pc' = [pc EXCEPT ![i] = "counted"]
      /\ UNCHANGED <<vI, opts, wait>>
  BY <1>1 DEF UpdateItemDoneEnd, Unlock
<1>3. pc'[i] = "counted" /\ \A j \in Items \ {i} : pc'[j] = pc[j]
  BY <1>2 DEF TypeOK
<1>4. /\ i \notin Counted(t) /\ Counted(t)' = Counted(t) \cup {i}
      /\ \A u \in Tasks \ {t} : Counted(u)' = Counted(u)
      /\ \A u \in Tasks : Read(u)' = Read(u) /\ Listed(u)' = Listed(u)
      /\ i \in Read(t)
  BY <1>2, <1>3 DEF Read, Listed, Counted, ItemsOf
<1>5. kv[t] \in Task
  BY <1>0 DEF TypeOK
<1>6. /\ r.TotalItem = kv[t].TotalItem /\ r.Status = kv[t].Status
      /\ r.I = kv[t].I /\ r.ItemDone = opts[i]
  BY <1>5 DEF Task
<1>7. kv'[t] = r /\ \A u \in Tasks \ {t} : kv'[u] = kv[u]
  BY <1>0, <1>2 DEF TypeOK
<1> HIDE DEF r
<1>8. LockInv'
  BY <1>1, <1>2, <1>3, LedgerAssumption DEF IInv, LockInv, InSection
<1>9. CopyInv'
  BY <1>1, <1>3 DEF CopyInv, InSection
<1>10. FeedInv'
  BY <1>2, <1>4 DEF IInv, FeedInv
<1>11. StatusInv'
  BY <1>0, <1>4, <1>6, <1>7 DEF IInv, StatusInv
<1>12. RecordListsItems'
  BY <1>0, <1>4, <1>6, <1>7 DEF IInv, RecordListsItems
<1>13. Cardinality(Counted(t)') = Cardinality(Counted(t)) + 1
  BY <1>0, <1>4, ItemSets, FS_AddElement
<1>14. DoneInv'
  <2>1. opts[i] <= Cardinality(Counted(t)) + 1
    BY <1>2 DEF IInv, OptsInv
  <2> QED
    BY <1>4, <1>6, <1>7, <1>13, <2>1 DEF IInv, DoneInv
<1>15. OptsInv'
  <2> SUFFICES ASSUME NEW j \in Items, pc'[j] \in {"incrementing", "counting"}
               PROVE  opts'[j] >= 1 /\ opts'[j] <= Cardinality(Counted(TaskOf[j])') + 1
    BY DEF OptsInv
  <2>1. pc[j] = pc'[j] /\ opts'[j] = opts[j] /\ opts[j] \in Nat /\ TaskOf[j] \in Tasks
    BY <1>2, <1>3, LedgerAssumption DEF TypeOK
  <2>2. opts[j] >= 1 /\ opts[j] <= Cardinality(Counted(TaskOf[j])) + 1
    BY <2>1 DEF IInv, OptsInv
  <2>3. CASE TaskOf[j] = t
    BY <1>0, <1>13, <2>1, <2>2, <2>3, ItemSets
  <2>4. CASE TaskOf[j] # t
    BY <1>4, <2>1, <2>2, <2>4
  <2> QED
    BY <2>3, <2>4
<1>16. SeenInv'
  BY <1>2, <1>3 DEF IInv, SeenInv
<1> QED
  BY <1>8, <1>9, <1>10, <1>11, <1>12, <1>14, <1>15, <1>16 DEF IInv

(* The steps of WaitOnId change nothing but what that call has seen.       *)
LEMMA WaitKeepsIInv ==
    ASSUME TypeOK, IInv, NEW t \in Tasks, WaitOnId(t) \/ WaitStep(t)
    PROVE  IInv'
<1>1. UNCHANGED <<kv, l, pc, vI, local, opts>>
  BY DEF WaitOnId, WaitStep, CheckJob, Wake, Deadline
<1>2. \A u \in Tasks : /\ Read(u)' = Read(u)
                       /\ Listed(u)' = Listed(u)
                       /\ Counted(u)' = Counted(u)
  BY <1>1 DEF Read, Listed, Counted, ItemsOf
<1>3. LockInv' /\ CopyInv' /\ FeedInv' /\ StatusInv' /\ RecordListsItems' /\ DoneInv'
  BY <1>1, <1>2
     DEF IInv, LockInv, CopyInv, InSection, FeedInv, StatusInv, RecordListsItems, DoneInv
<1>4. OptsInv'
  BY <1>1, <1>2, LedgerAssumption DEF IInv, OptsInv
<1>5. ASSUME WaitOnId(t) \/ Deadline(t) PROVE SeenInv'
  <2>1. /\ wait'[t].pc \in {"look", "false"}
        /\ \A u \in Tasks \ {t} : wait'[u] = wait[u]
    BY <1>5 DEF WaitOnId, Deadline, TypeOK, Call
  <2> QED
    BY <1>1, <2>1 DEF IInv, SeenInv
<1>6. ASSUME CheckJob(t) PROVE SeenInv'
  <2>1. /\ wait' = [wait EXCEPT ![t] = [pc    |-> IF kv[t] = NoTask THEN "false" ELSE "sleep",
                                        seen  |-> kv[t],
                                        looks |-> @.looks + 1]]
        /\ kv[t] \in Task
    BY <1>6 DEF CheckJob, TypeOK
  <2>2. /\ wait'[t].seen = kv[t] /\ wait'[t].pc # "true"
        /\ wait'[t].pc = "sleep" => kv[t] # NoTask
        /\ \A u \in Tasks \ {t} : wait'[u] = wait[u]
    BY <2>1 DEF TypeOK
  <2>3. kv[t] # NoTask /\ kv[t].Status # "TASK_CREATED" => kv[t].TotalItem >= 1
    BY <2>1 DEF IInv, StatusInv, Task, StatusEnum
  <2>4. Complete(kv[t]) => \A k \in 1 .. Len(kv[t].I) : pc[kv[t].I[k]] = "counted"
    BY CompleteMeansCounted DEF IInv
  <2> QED
    BY <1>1, <2>2, <2>3, <2>4 DEF IInv, SeenInv
<1>7. ASSUME Wake(t) PROVE SeenInv'
  <2> DEFINE next == IF /\ wait[t].seen.ItemDone >= wait[t].seen.TotalItem
                        /\ wait[t].seen.Status # "TASK_CREATED"
                     THEN "true" ELSE "look"
  <2>1. wait[t].pc = "sleep" /\ wait' = [wait EXCEPT ![t].pc = next]
    BY <1>7 DEF Wake, Finished
  <2>2. /\ wait'[t].pc = next /\ wait'[t].seen = wait[t].seen
        /\ \A u \in Tasks \ {t} : wait'[u] = wait[u]
    BY <2>1 DEF TypeOK, Call
  <2>3. next = "true" => Complete(wait[t].seen) /\ wait[t].seen.Status # "TASK_CREATED"
    BY DEF Complete
  <2> HIDE DEF next
  <2> QED
    BY <1>1, <2>1, <2>2, <2>3 DEF IInv, SeenInv
<1> QED
  BY <1>3, <1>4, <1>5, <1>6, <1>7 DEF IInv, WaitStep

(* One step of anyone keeps the strengthened invariant.                    *)
LEMMA IInvStep == TypeOK /\ IInv /\ [Next]_vars => IInv'
<1> SUFFICES ASSUME TypeOK, IInv, [Next]_vars PROVE IInv'
  OBVIOUS
<1>1. CASE UNCHANGED vars
  <2> USE <1>1 DEF vars, Read, Listed, Counted, ItemsOf
  <2>1. LockInv' /\ CopyInv' /\ FeedInv' /\ StatusInv' /\ SeenInv'
    BY DEF IInv, LockInv, CopyInv, InSection, FeedInv, StatusInv, SeenInv
  <2>2. RecordListsItems' /\ DoneInv' /\ OptsInv'
    BY DEF IInv, RecordListsItems, DoneInv, OptsInv
  <2> QED
    BY <2>1, <2>2 DEF IInv
<1>2. CASE Next
  BY <1>2, SubmitKeepsIInv, WaitKeepsIInv, UpdateTaskBeginKeepsIInv, UpdateTaskEndKeepsIInv,
     IncrementKeepsIInv, UpdateItemDoneBeginKeepsIInv, UpdateItemDoneEndKeepsIInv
     DEF Next, ItemStep
<1> QED
  BY <1>1, <1>2

(* The strengthened invariant holds of every run.                          *)
THEOREM Inductive == Spec => [](TypeOK /\ IInv)
  BY TypeCorrect, InitIInv, IInvStep, PTL DEF Spec

-----------------------------------------------------------------------------
(* What it gives.                                                          *)

(* The record lists every reported item exactly once, for any number of    *)
(* tasks, items and workers: writers under s.l never overwrite each other. *)
THEOREM RecordCorrect == Spec => []RecordListsItems
<1>1. IInv => RecordListsItems
  BY DEF IInv
<1> QED
  BY <1>1, Inductive, PTL

(* Progress is never over-reported, although increment reads the record    *)
(* outside s.l: lost increments only make ItemDone too small.              *)
THEOREM DoneCorrect == Spec => []DoneNeverAhead
<1>1. TypeOK /\ IInv => DoneNeverAhead
  BY DoneBelowTotal DEF IInv
<1> QED
  BY <1>1, Inductive, PTL

(* A TRUE from WaitOnId covers every item listed when it looked.           *)
THEOREM WaitCorrect == Spec => []WaitTrueCoversSeen
<1>1. IInv => WaitTrueCoversSeen
  BY DEF IInv, SeenInv, WaitTrueCoversSeen
<1> QED
  BY <1>1, Inductive, PTL

(* No writer shortens or rewrites the list of items it found.              *)
THEOREM ListCorrect == Spec => ListOnlyExtends
<1> DEFINE Extends(t) == /\ kv[t].TotalItem <= kv'[t].TotalItem
                         /\ \A k \in 1 .. Len(kv[t].I) : /\ k <= Len(kv'[t].I)
                                                         /\ kv'[t].I[k] = kv[t].I[k]
<1>1. ASSUME TypeOK, NEW t \in Tasks, kv'[t].TotalItem = kv[t].TotalItem,
             kv'[t].I = kv[t].I
      PROVE  Extends(t)
  <2>1. kv[t].TotalItem \in Nat /\ Len(kv[t].I) \in Nat
    BY <1>1 DEF TypeOK, Task
  <2> QED
    BY <1>1, <2>1
<1>2. ASSUME TypeOK, IInv, TypeOK', IInv', NEW i \in Items, UpdateTaskEnd(i), NEW t \in Tasks
      PROVE  Extends(t)
  <2> DEFINE u == TaskOf[i]
  <2>1. local[i] = kv[u] /\ u \in Tasks
    BY <1>2, LedgerAssumption DEF UpdateTaskEnd, Unlock, IInv, CopyInv, InSection
  <2>2. kv' = [kv EXCEPT ![u] = [kv[u] EXCEPT !.TotalItem = Len(vI[u]),
                                              !.Status    = "TASK_STARTED",
                                              !.I         = Append(@, i)]]
    BY <1>2, <2>1 DEF UpdateTaskEnd, Unlock
  <2>3. CASE t # u
    BY <1>1, <1>2, <2>2, <2>3 DEF TypeOK
  <2>4. CASE t = u
    <3>1. kv[t] \in Task /\ kv[t].I \in Seq(Items) /\ kv[t].TotalItem \in Nat
      BY <1>2 DEF TypeOK, Task
    <3>2. kv'[t].I = Append(kv[t].I, i)
      BY <1>2, <2>2, <2>4, <3>1 DEF TypeOK, Task
    <3>3. Len(kv'[t].I) = Len(kv[t].I) + 1
          /\ \A k \in 1 .. Len(kv[t].I) : kv'[t].I[k] = kv[t].I[k]
      BY <3>1, <3>2
    <3>4. kv[t].TotalItem = Len(kv[t].I) /\ kv'[t].TotalItem = Len(kv'[t].I)
      BY <1>2 DEF IInv, RecordListsItems
    <3> QED
      BY <3>1, <3>3, <3>4
  <2> QED
    BY <2>3, <2>4
<1>3. ASSUME TypeOK, IInv, NEW i \in Items, UpdateItemDoneEnd(i), NEW t \in Tasks
      PROVE  Extends(t)
  <2>1. local[i] = kv[TaskOf[i]] /\ TaskOf[i] \in Tasks
    BY <1>3, LedgerAssumption DEF UpdateItemDoneEnd, Unlock, IInv, CopyInv, InSection
  <2>2. kv' = [kv EXCEPT ![TaskOf[i]] = [kv[TaskOf[i]] EXCEPT !.ItemDone = opts[i]]]
    BY <1>3, <2>1 DEF UpdateItemDoneEnd, Unlock
  <2>3. kv'[t].TotalItem = kv[t].TotalItem /\ kv'[t].I = kv[t].I
    BY <1>3, <2>1, <2>2 DEF TypeOK, Task
  <2> QED
    BY <1>1, <1>3, <2>3
<1>4. ASSUME TypeOK, NEW u \in Tasks, SubmitJob(u), NEW t \in Tasks
      PROVE  Extends(t)
  <2>1. kv'[t].TotalItem = kv[t].TotalItem /\ kv'[t].I = kv[t].I
    BY <1>4 DEF SubmitJob, NewTask, NoTask, TypeOK
  <2> QED
    BY <1>1, <1>4, <2>1
<1>5. ASSUME TypeOK, IInv, TypeOK', IInv', [Next]_vars
      PROVE  [\A t \in Tasks : Extends(t)]_vars
  <2> SUFFICES ASSUME NEW t \in Tasks PROVE Extends(t)
    OBVIOUS
  <2>1. CASE UNCHANGED kv
    BY <1>1, <1>5, <2>1
  <2>2. CASE \E u \in Tasks : SubmitJob(u)
    BY <1>4, <1>5, <2>2
  <2>3. CASE \E i \in Items : UpdateTaskEnd(i)
    BY <1>2, <1>5, <2>3
  <2>4. CASE \E i \in Items : UpdateItemDoneEnd(i)
    BY <1>3, <1>5, <2>4
  <2> QED
    BY <1>5, <2>1, <2>2, <2>3, <2>4
       DEF Next, ItemStep, WaitStep, vars, WaitOnId, CheckJob, Wake, Deadline,
           UpdateTaskBegin, Increment, UpdateItemDoneBegin
<1> QED
  BY <1>5, Inductive, PTL DEF Spec, ListOnlyExtends

-----------------------------------------------------------------------------
(* The record implements TaskProgress.                                     *)

(* A step that leaves the record, the calls for items and the polls that   *)
(* have found something as they are is one TaskProgress does not see.      *)
LEMMA HiddenStep ==
    ASSUME UNCHANGED <<kv, wait>>,
           {i \in Items : pc[i] = "counted"}' = {i \in Items : pc[i] = "counted"}
    PROVE  UNCHANGED P!vars
<1>1. \A t \in Tasks : Counted(t)' = Counted(t)
  BY DEF Counted, ItemsOf
<1> QED
  BY <1>1 DEF P!vars, Finished

(* SubmitJob makes the task known, with an empty list.                     *)
LEMMA SubmitRefines ==
    ASSUME TypeOK, NEW t \in Tasks, SubmitJob(t)
    PROVE  P!Submit(t)
<1>1. /\ kv[t] = NoTask /\ kv' = [kv EXCEPT ![t] = NewTask]
      /\ UNCHANGED <<pc, wait>>
  BY DEF SubmitJob
<1>2. kv'[t] = NewTask /\ \A u \in Tasks \ {t} : kv'[u] = kv[u]
  BY <1>1 DEF TypeOK
<1>3. /\ NoTask.Status = "TASK_ABSENT" /\ NewTask.Status = "TASK_CREATED"
      /\ NewTask.I = NoTask.I /\ NewTask.ItemDone = NoTask.ItemDone
  BY DEF NewTask, NoTask
<1>4. \A u \in Tasks : kv'[u].I = kv[u].I /\ kv'[u].ItemDone = kv[u].ItemDone
  BY <1>1, <1>2, <1>3
<1> QED
  BY <1>1, <1>2, <1>3, <1>4 DEF P!Submit, Finished, Counted, ItemsOf

(* The write of UpdateTask reports the item: its feeder exists, so the     *)
(* task does, and the list is the one the copy was made of.                *)
LEMMA UpdateTaskEndRefines ==
    ASSUME TypeOK, IInv, NEW i \in Items, UpdateTaskEnd(i)
    PROVE  P!Report(i)
<1> DEFINE t == TaskOf[i]
           r == [kv[t] EXCEPT !.TotalItem = Len(vI[t]),
                              !.Status    = "TASK_STARTED",
                              !.I         = Append(@, i)]
<1>0. t \in Tasks
  BY LedgerAssumption
<1>1. /\ pc[i] = "listing" /\ kv' = [kv EXCEPT ![t] = r]
      /\ pc' = [pc EXCEPT ![i] = "listed"] /\ UNCHANGED wait
  BY DEF UpdateTaskEnd, Unlock, IInv, CopyInv, InSection
<1>2. kv[t] \in Task
  BY <1>0 DEF TypeOK
<1>3. r.Status = "TASK_STARTED" /\ r.I = Append(kv[t].I, i) /\ r.ItemDone = kv[t].ItemDone
  BY <1>2 DEF Task
<1>4. kv'[t] = r /\ \A u \in Tasks \ {t} : kv'[u] = kv[u]
  BY <1>0, <1>1 DEF TypeOK
<1> HIDE DEF r
<1>5. kv[t].Status # "TASK_ABSENT"
  BY <1>0, <1>1 DEF IInv, StatusInv, Read, ItemsOf
<1>6. i \notin Range(kv[t].I)
  BY <1>0, <1>1 DEF IInv, RecordListsItems, Listed
<1>7. /\ {j \in Items : pc[j] = "counted"}' = {j \in Items : pc[j] = "counted"}
      /\ \A u \in Tasks : Counted(u)' = Counted(u)
  BY <1>1 DEF TypeOK, Counted, ItemsOf
<1>8. {u \in Tasks : kv'[u].Status # "TASK_ABSENT"} = {u \in Tasks : kv[u].Status # "TASK_ABSENT"}
  BY <1>3, <1>4, <1>5
<1>9. [u \in Tasks |-> kv'[u].ItemDone] = [u \in Tasks |-> kv[u].ItemDone]
  BY <1>3, <1>4
<1>10. [u \in Tasks |-> kv'[u].I]
         = [[u \in Tasks |-> kv[u].I] EXCEPT ![t] = Append(@, i)]
  BY <1>0, <1>3, <1>4
<1> QED
  BY <1>0, <1>1, <1>5, <1>6, <1>7, <1>8, <1>9, <1>10 DEF P!Report, P!Range, Range, Finished

(* The write of UpdateItemDone finishes the item, with a count between one *)
(* and the number of items done by then.                                   *)
LEMMA UpdateItemDoneEndRefines ==
    ASSUME TypeOK, IInv, NEW i \in Items, UpdateItemDoneEnd(i)
    PROVE  P!Finish(i)
<1> DEFINE t == TaskOf[i]
           r == [kv[t] EXCEPT !.ItemDone = opts[i]]
           done == {j \in Items : pc[j] = "counted"}
<1>0. t \in Tasks
  BY LedgerAssumption
<1>1. /\ pc[i] = "counting" /\ kv' = [kv EXCEPT ![t] = r]
      /\ pc' = [pc EXCEPT ![i] = "counted"] /\ UNCHANGED wait
  BY DEF UpdateItemDoneEnd, Unlock, IInv, CopyInv, InSection
<1>2. kv[t] \in Task
  BY <1>0 DEF TypeOK
<1>3. r.Status = kv[t].Status /\ r.I = kv[t].I /\ r.ItemDone = opts[i]
  BY <1>2 DEF Task
<1>4. kv'[t] = r /\ \A u \in Tasks \ {t} : kv'[u] = kv[u]
  BY <1>0, <1>1 DEF TypeOK
<1> HIDE DEF r
<1>5. i \in Range(kv[t].I) \ done
  BY <1>0, <1>1 DEF IInv, RecordListsItems, Listed, ItemsOf
<1>6. done' = done \cup {i}
  BY <1>1 DEF TypeOK
<1>7. [u \in Tasks |-> Cardinality(Counted(u)')]
        = [[u \in Tasks |-> Cardinality(Counted(u))] EXCEPT ![t] = @ + 1]
  <2>1. /\ i \notin Counted(t) /\ Counted(t)' = Counted(t) \cup {i}
        /\ \A u \in Tasks \ {t} : Counted(u)' = Counted(u)
    BY <1>1 DEF TypeOK, Counted, ItemsOf
  <2>2. Cardinality(Counted(t)') = Cardinality(Counted(t)) + 1
    BY <1>0, <2>1, ItemSets, FS_AddElement
  <2> QED
    BY <1>0, <2>1, <2>2
<1>8. opts[i] \in 1 .. Cardinality(Counted(t)) + 1
  <2>1. opts[i] \in Nat /\ Cardinality(Counted(t)) \in Nat
    BY <1>0, ItemSets DEF TypeOK
  <2> QED
    BY <1>1, <2>1 DEF IInv, OptsInv
<1>9. {u \in Tasks : kv'[u].Status # "TASK_ABSENT"} = {u \in Tasks : kv[u].Status # "TASK_ABSENT"}
  BY <1>3, <1>4
<1>10. [u \in Tasks |-> kv'[u].I] = [u \in Tasks |-> kv[u].I]
  BY <1>3, <1>4
<1>11. [u \in Tasks |-> kv'[u].ItemDone]
         = [[u \in Tasks |-> kv[u].ItemDone] EXCEPT ![t] = opts[i]]
  BY <1>0, <1>3, <1>4
<1>12. i \in P!Range([u \in Tasks |-> kv[u].I][t]) \ done
  BY <1>0, <1>5 DEF P!Range, Range
<1>13. \E n \in 1 .. [u \in Tasks |-> Cardinality(Counted(u))][t] + 1 :
          [u \in Tasks |-> kv'[u].ItemDone] = [[u \in Tasks |-> kv[u].ItemDone] EXCEPT ![t] = n]
  BY <1>0, <1>8, <1>11
<1> QED
  BY <1>1, <1>6, <1>7, <1>9, <1>10, <1>12, <1>13 DEF P!Finish, Finished

(* A call that leaves its loop head with FALSE answers so.                 *)
LEMMA FalseAnswers ==
    ASSUME NEW t \in Tasks, UNCHANGED <<kv, pc>>,
           wait[t].pc = "look", wait'[t].pc = "false",
           \A u \in Tasks \ {t} : wait'[u] = wait[u]
    PROVE  P!Answer(t, "false")
<1> DEFINE covered == {u \in Tasks : wait[u].pc \in {"sleep", "true"} /\ Finished(wait[u].seen)}
           verdict == [u \in Tasks |-> IF wait[u].pc \in {"true", "false"}
                                       THEN wait[u].pc ELSE "none"]
<1>1. \A u \in Tasks : Counted(u)' = Counted(u)
  BY DEF Counted, ItemsOf
<1>2. covered' = covered
  <2>1. t \notin covered /\ t \notin covered'
    OBVIOUS
  <2>2. \A u \in Tasks \ {t} : u \in covered' <=> u \in covered
    BY DEF Finished
  <2> QED
    BY <2>1, <2>2
<1>3. verdict[t] = "none" /\ verdict' = [verdict EXCEPT ![t] = "false"]
  OBVIOUS
<1> QED
  BY <1>1, <1>2, <1>3 DEF P!Answer

(* CheckJob finds a list that is not empty and all counted, ends the call  *)
(* because the id is unknown, or changes nothing a caller sees.            *)
LEMMA CheckJobRefines ==
    ASSUME TypeOK, IInv, NEW t \in Tasks, CheckJob(t)
    PROVE  P!Look(t) \/ P!Answer(t, "false") \/ UNCHANGED P!vars
<1>1. /\ wait[t].pc = "look"
      /\ wait' = [wait EXCEPT ![t] = [pc    |-> IF kv[t] = NoTask THEN "false" ELSE "sleep",
                                      seen  |-> kv[t],
                                      looks |-> @.looks + 1]]
      /\ UNCHANGED <<kv, pc>>
  BY DEF CheckJob
<1>2. /\ wait'[t].seen = kv[t]
      /\ wait'[t].pc = IF kv[t] = NoTask THEN "false" ELSE "sleep"
      /\ \A u \in Tasks \ {t} : wait'[u] = wait[u]
  BY <1>1 DEF TypeOK
<1>3. \A u \in Tasks : Counted(u)' = Counted(u)
  BY <1>1 DEF Counted, ItemsOf
<1>4. CASE kv[t] = NoTask
  BY <1>1, <1>2, <1>4, FalseAnswers
<1>5. CASE kv[t] # NoTask /\ ~Finished(kv[t])
  BY <1>1, <1>2, <1>3, <1>5 DEF P!vars, Finished
<1>6. CASE kv[t] # NoTask /\ Finished(kv[t])
  <2>1. kv[t] \in Task
    BY DEF TypeOK
  <2>2. kv[t].Status = "TASK_STARTED"
    BY <1>6, <2>1 DEF IInv, StatusInv, Finished, Task, StatusEnum
  <2>3. kv[t].I \in Seq(Items) /\ Len(kv[t].I) >= 1
    BY <2>1, <2>2 DEF IInv, StatusInv, RecordListsItems, Task
  <2>4. \A k \in 1 .. Len(kv[t].I) : kv[t].I[k] \in Items /\ pc[kv[t].I[k]] = "counted"
    BY <1>6, <2>3, CompleteMeansCounted DEF IInv, Complete, Finished
  <2>5. P!Range([u \in Tasks |-> kv[u].I][t]) \subseteq {i \in Items : pc[i] = "counted"}
    BY <2>3, <2>4 DEF P!Range
  <2>6. [u \in Tasks |-> kv[u].I][t] # <<>>
    BY <2>3
  <2> QED
    BY <1>1, <1>2, <1>3, <1>6, <2>5, <2>6 DEF P!Look, Finished
<1> QED
  BY <1>4, <1>5, <1>6

(* Wake answers TRUE after such a look only.                               *)
LEMMA WakeRefines ==
    ASSUME TypeOK, NEW t \in Tasks, Wake(t)
    PROVE  P!Answer(t, "true") \/ UNCHANGED P!vars
<1>1. /\ wait[t].pc = "sleep"
      /\ wait' = [wait EXCEPT ![t].pc = IF Finished(wait[t].seen) THEN "true" ELSE "look"]
      /\ UNCHANGED <<kv, pc>>
  BY DEF Wake
<1>2. /\ wait'[t].seen = wait[t].seen
      /\ wait'[t].pc = IF Finished(wait[t].seen) THEN "true" ELSE "look"
      /\ \A u \in Tasks \ {t} : wait'[u] = wait[u]
  BY <1>1 DEF TypeOK, Call
<1>3. \A u \in Tasks : Counted(u)' = Counted(u)
  BY <1>1 DEF Counted, ItemsOf
<1>4. CASE Finished(wait[t].seen)
  BY <1>1, <1>2, <1>3, <1>4 DEF P!Answer, Finished
<1>5. CASE ~Finished(wait[t].seen)
  BY <1>1, <1>2, <1>3, <1>5 DEF P!vars, Finished
<1> QED
  BY <1>4, <1>5

(* The deadline answers FALSE; a call that begins is not seen.             *)
LEMMA CallRefines ==
    ASSUME TypeOK, NEW t \in Tasks, WaitOnId(t) \/ Deadline(t)
    PROVE  P!Answer(t, "false") \/ UNCHANGED P!vars
<1> DEFINE next == IF wait[t].pc = "idle" THEN "look" ELSE "false"
<1>1. /\ wait[t].pc \in {"idle", "look"}
      /\ wait' = [wait EXCEPT ![t].pc = next]
      /\ UNCHANGED <<kv, pc>>
  BY DEF WaitOnId, Deadline
<1>2. /\ wait'[t].seen = wait[t].seen /\ wait'[t].pc = next
      /\ \A u \in Tasks \ {t} : wait'[u] = wait[u]
  BY <1>1 DEF TypeOK, Call
<1>3. \A u \in Tasks : Counted(u)' = Counted(u)
  BY <1>1 DEF Counted, ItemsOf
<1>4. CASE wait[t].pc = "idle"
  BY <1>1, <1>2, <1>3, <1>4 DEF P!vars, Finished
<1>5. CASE wait[t].pc = "look"
  BY <1>1, <1>2, <1>5, FalseAnswers
<1> QED
  BY <1>1, <1>4, <1>5

(* Every run of the record is one of TaskProgress, for any finite set of   *)
(* items and any number of tasks and polls.                                *)
THEOREM Refinement == Spec => KeepsPromises
<1>1. ASSUME Init PROVE P!Init
  <2>1. \A t \in Tasks : Counted(t) = {}
    BY <1>1 DEF Init, Counted, ItemsOf
  <2>2. \A t \in Tasks : Cardinality(Counted(t)) = 0
    BY <2>1, FS_EmptySet
  <2> QED
    BY <1>1, <2>2 DEF Init, P!Init, NoTask
<1>2. ASSUME TypeOK, IInv, [Next]_vars PROVE [P!Next]_(P!vars)
  <2>1. ASSUME NEW t \in Tasks, SubmitJob(t) PROVE P!Next
    BY <1>2, <2>1, SubmitRefines DEF P!Next
  <2>2. ASSUME NEW t \in Tasks, WaitOnId(t) \/ WaitStep(t) PROVE [P!Next]_(P!vars)
    BY <1>2, <2>2, CheckJobRefines, WakeRefines, CallRefines DEF WaitStep, P!Next
  <2>3. ASSUME NEW i \in Items, UpdateTaskEnd(i) PROVE P!Next
    BY <1>2, <2>3, UpdateTaskEndRefines DEF P!Next
  <2>4. ASSUME NEW i \in Items, UpdateItemDoneEnd(i) PROVE P!Next
    BY <1>2, <2>4, UpdateItemDoneEndRefines DEF P!Next
  <2>5. ASSUME NEW i \in Items,
               UpdateTaskBegin(i) \/ Increment(i) \/ UpdateItemDoneBegin(i)
        PROVE  UNCHANGED P!vars
    BY <1>2, <2>5, HiddenStep DEF UpdateTaskBegin, Increment, UpdateItemDoneBegin, TypeOK
  <2>6. CASE UNCHANGED vars
    BY <2>6, HiddenStep DEF vars
  <2> QED
    BY <1>2, <2>1, <2>2, <2>3, <2>4, <2>5, <2>6 DEF Next, ItemStep
<1> QED
  BY <1>1, <1>2, Inductive, PTL DEF Spec, KeepsPromises, P!Spec
=============================================================================
