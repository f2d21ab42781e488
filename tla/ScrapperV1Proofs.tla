-------------------------- MODULE ScrapperV1Proofs --------------------------
(***************************************************************************)
(* For any tasks, jobs, topic workers, queue workers and queue capacity:   *)
(* the pipeline implements TaskLedger, so the promises of the progress     *)
(* record hold of it; each item is held by exactly one goroutine or queue  *)
(* slot from the moment it is reported until it is counted, and stays      *)
(* behind the ones reported before it; what is closed, and what races, can *)
(* only do so at the points the properties name; and no goroutine waits    *)
(* for ever for another.                                                   *)
(***************************************************************************)
EXTENDS ScrapperV1, FiniteSetTheorems, TLAPS

MainPcs == {"submit", "stored", "indexing", "send", "wait", "exit", "close", "closed"}

(* The command is at one of its jobs; a feeder has items of its own task   *)
(* before it, and one of them in its hands while it works on it.           *)
MainInv == main \in [pc : MainPcs, n : 1 .. Len(Jobs)]
FeedInv ==
    /\ feed \in [Tasks -> Feeder]
    /\ \A t \in Tasks : /\ feed[t].left \subseteq L!ItemsOf(t)
                        /\ feed[t].pc \in {"list", "filter", "send", "skip"}
                              => feed[t].cur \in L!ItemsOf(t)

PipeInv == MainInv /\ FeedInv

(* The job main is at is a task: its index stays within the jobs           *)
(* (cmd/reddit/scrape.go:40-47).                                           *)
LEMMA JobIsTask == MainInv => Job \in Tasks
BY ScrapperAssumption DEF MainInv, Job

(* No goroutine has started anything when the program begins.              *)
LEMMA PipeInit == Init => PipeInv
<1> SUFFICES ASSUME Init PROVE PipeInv
  OBVIOUS
<1>1. MainInv
  BY ScrapperAssumption DEF Init, MainInv, MainPcs
<1>2. FeedInv
  BY DEF Init, FeedInv, Feeder, Idle
<1>. QED
  BY <1>1, <1>2 DEF PipeInv

(* One feeder goes on, with items of its own task, and the others stay as  *)
(* they are (scrapperV1.go:157-211).                                       *)
LEMMA OneFeeder ==
    ASSUME FeedInv, NEW t \in Tasks, NEW r \in Feeder, feed' = [feed EXCEPT ![t] = r],
           r.left \subseteq L!ItemsOf(t),
           r.pc \in {"list", "filter", "send", "skip"} => r.cur \in L!ItemsOf(t)
    PROVE  FeedInv'
BY DEF FeedInv, L!ItemsOf

(* Whatever step is taken, main stays at one of its jobs and each feeder   *)
(* at items of its own task: its posts come from ScrapePosts for that      *)
(* task, and nothing else writes them (scrapperV1.go:157-211).             *)
LEMMA PipeStep == PipeInv /\ [Next]_vars => PipeInv'
<1> SUFFICES ASSUME PipeInv, [Next]_vars PROVE PipeInv'
  OBVIOUS
<1>0. MainInv /\ FeedInv
  BY DEF PipeInv
<1>1. CASE UNCHANGED vars
  BY <1>0, <1>1 DEF vars, PipeInv, MainInv, FeedInv, L!ItemsOf
<1>2. ASSUME MainStep PROVE PipeInv'
  <2>1. FeedInv'
    BY <1>0, <1>2
       DEF MainStep, StoreTask, IndexBegin, IndexEnd, MainWait, CloseTaskQ, FeedInv,
           L!ItemsOf
  <2>2. MainInv'
    BY <1>0, <1>2
       DEF MainStep, StoreTask, IndexBegin, IndexEnd, MainWait, CloseTaskQ, MainInv,
           MainPcs
  <2>. QED
    BY <2>1, <2>2 DEF PipeInv
<1>3. ASSUME StartStep \/ \E w \in Workers : AddWorker(w) \/ WorkStep(w) PROVE PipeInv'
  BY <1>0, <1>3 DEF StartStep, Dispatch, StartLeavesLoop, SwgWait, AddWorker, WorkStep, Receive,
                    WorkerExit, PipeInv, MainInv, FeedInv, L!ItemsOf
<1>4. ASSUME NEW w \in Subs, TaskSend(w) PROVE PipeInv'
  <2>1. Job \in Tasks
    BY <1>0, JobIsTask
  <2>2. FeedInv'
    <3> DEFINE r == [feed[Job] EXCEPT !.pc = "scraping", !.by = w]
    <3>1. r \in Feeder /\ r.left = feed[Job].left /\ r.pc = "scraping"
      BY <1>0, <2>1 DEF FeedInv, Feeder
    <3>2. feed' = [feed EXCEPT ![Job] = r]
      BY <1>4 DEF TaskSend
    <3> HIDE DEF r
    <3>. QED
      BY <1>0, <2>1, <3>1, <3>2, OneFeeder DEF FeedInv
  <2>3. MainInv'
    BY <1>0, <1>4, ScrapperAssumption DEF TaskSend, MainInv, MainPcs, AfterJobs
  <2>. QED
    BY <2>2, <2>3 DEF PipeInv
<1>5. ASSUME NEW w \in Subs, Scrape(w) PROVE PipeInv'
  BY <1>0, <1>5 DEF Scrape, PipeInv, MainInv, FeedInv, Feeder, L!ItemsOf
<1>6. ASSUME NEW w \in Subs, TopicClosed(w) PROVE PipeInv'
  BY <1>0, <1>6 DEF TopicClosed, PipeInv, MainInv, FeedInv, L!ItemsOf
<1>7. ASSUME NEW t \in Tasks, FeedStep(t) PROVE PipeInv'
  <2>1. MainInv'
    BY <1>0, <1>7
       DEF FeedStep, FeedNext, FeedList, FilterStores, ItemSend, SendOnClosed, FeedEnd,
           MainInv
  <2>2. CASE FeedNext(t)
    <3>1. PICK i \in feed[t].left :
            feed' = [feed EXCEPT ![t].pc = "list", ![t].cur = i, ![t].left = @ \ {i}]
      BY <2>2 DEF FeedNext
    <3> DEFINE r == [feed[t] EXCEPT !.pc = "list", !.cur = i, !.left = @ \ {i}]
    <3>2. feed[t] \in Feeder /\ i \in L!ItemsOf(t) /\ i \in Items
      BY <1>0, <3>1 DEF FeedInv, L!ItemsOf
    <3>3. r \in Feeder /\ r.cur = i /\ r.left \subseteq feed[t].left
      BY <3>2 DEF Feeder
    <3>4. feed' = [feed EXCEPT ![t] = r]
      BY <3>1
    <3> HIDE DEF r
    <3>. QED
      BY <1>0, <2>1, <3>2, <3>3, <3>4, OneFeeder DEF FeedInv, PipeInv
  <2>3. ASSUME NEW pc2 \in {"filter", "send", "skip"}, feed' = [feed EXCEPT ![t].pc = pc2],
               feed[t].pc \in {"list", "filter"}
        PROVE  PipeInv'
    <3> DEFINE r == [feed[t] EXCEPT !.pc = pc2]
    <3>1. r \in Feeder /\ r.left = feed[t].left /\ r.cur = feed[t].cur
      BY <1>0 DEF FeedInv, Feeder
    <3>2. feed' = [feed EXCEPT ![t] = r]
      BY <2>3
    <3> HIDE DEF r
    <3>. QED
      BY <1>0, <2>1, <2>3, <3>1, <3>2, OneFeeder DEF FeedInv, PipeInv
  <2>4. CASE FeedList(t) \/ FilterStores(t)
    BY <1>0, <2>1, <2>3, <2>4 DEF FeedList, FilterStores, FeedInv, PipeInv, L!ItemsOf
  <2>5. CASE ItemSend(t)
    <3> DEFINE r == [feed[t] EXCEPT !.pc = "next", !.cur = NoItem]
    <3>1. r \in Feeder /\ r.left = feed[t].left /\ r.pc = "next"
      BY <1>0 DEF FeedInv, Feeder
    <3>2. feed' = [feed EXCEPT ![t] = r]
      BY <2>5 DEF ItemSend, NextPost
    <3> HIDE DEF r
    <3>. QED
      BY <1>0, <2>1, <3>1, <3>2, OneFeeder DEF FeedInv, PipeInv
  <2>6. CASE SendOnClosed(t)
    BY <1>0, <2>1, <2>6 DEF SendOnClosed, FeedInv, PipeInv, L!ItemsOf
  <2>7. CASE FeedEnd(t)
    <3> DEFINE r == [feed[t] EXCEPT !.pc = "ended"]
    <3>1. r \in Feeder /\ r.left = feed[t].left /\ r.pc = "ended"
      BY <1>0 DEF FeedInv, Feeder
    <3>2. feed' = [feed EXCEPT ![t] = r]
      BY <2>7 DEF FeedEnd
    <3> HIDE DEF r
    <3>. QED
      BY <1>0, <2>1, <3>1, <3>2, OneFeeder DEF FeedInv, PipeInv
  <2>. QED
    BY <1>7, <2>2, <2>4, <2>5, <2>6, <2>7 DEF FeedStep
<1>8. ASSUME NEW i \in Items, CountStep(i) PROVE PipeInv'
  BY <1>0, <1>8, ScrapperAssumption
     DEF CountStep, Count, CountEnd, NextPost, Skipping, PipeInv, MainInv, FeedInv, Feeder,
         L!ItemsOf
<1>. QED
  BY <1>1, <1>2, <1>3, <1>4, <1>5, <1>6, <1>7, <1>8 DEF Next, SubStep

(* Every step of the pipeline is a step of the progress record or leaves   *)
(* it alone: the calls of main are for one of its jobs, those of a feeder  *)
(* for an item of its task.                                                *)
LEMMA LedgerStep == PipeInv /\ [Next]_vars => [L!Next]_ledger
<1> SUFFICES ASSUME PipeInv, [Next]_vars PROVE [L!Next]_ledger
  OBVIOUS
<1>0. MainInv /\ FeedInv /\ Job \in Tasks
  BY JobIsTask DEF PipeInv
<1>1. CASE UNCHANGED vars
  BY <1>1 DEF vars, ledger
<1>2. ASSUME MainStep PROVE [L!Next]_ledger
  BY <1>0, <1>2
     DEF MainStep, StoreTask, IndexBegin, IndexEnd, MainWait, CloseTaskQ, L!Next,
         ledger
<1>3. ASSUME StartStep \/ \E w \in Workers : AddWorker(w) \/ WorkStep(w) PROVE UNCHANGED ledger
  BY <1>3
     DEF StartStep, Dispatch, StartLeavesLoop, SwgWait, AddWorker, WorkStep, Receive,
         WorkerExit
<1>4. ASSUME NEW w \in Subs, SubStep(w) PROVE UNCHANGED ledger
  BY <1>4 DEF SubStep, TaskSend, Scrape, TopicClosed
<1>5. ASSUME NEW t \in Tasks, FeedStep(t) PROVE [L!Next]_ledger
  <2>1. CASE FeedNext(t)
    BY <1>0, <2>1 DEF FeedNext, FeedInv, L!ItemsOf, L!Next, L!ItemStep
  <2>2. CASE FeedList(t)
    BY <1>0, <2>2 DEF FeedList, FeedInv, L!ItemsOf, L!Next, L!ItemStep
  <2>3. CASE FilterStores(t) \/ ItemSend(t) \/ SendOnClosed(t) \/ FeedEnd(t)
    BY <2>3 DEF FilterStores, ItemSend, SendOnClosed, FeedEnd
  <2>. QED
    BY <1>5, <2>1, <2>2, <2>3 DEF FeedStep
<1>6. ASSUME NEW i \in Items, CountStep(i) PROVE L!Next
  BY <1>6 DEF CountStep, Count, CountEnd, L!Next, L!ItemStep
<1>. QED
  BY <1>1, <1>2, <1>3, <1>4, <1>5, <1>6 DEF Next

(* The pipeline uses the progress record as TaskLedger says: any           *)
(* interleaving of main, topic workers, feeders, Start and queue workers   *)
(* is a behaviour of it (store.go, api.go:23-106, scrapperV1.go:157-289).  *)
THEOREM PipelineImplementsLedger == Spec => L!Spec
<1>1. Init => L!Init
  BY DEF Init
<1>. QED
  BY <1>1, PipeInit, PipeStep, LedgerStep, PTL DEF Spec, L!Spec, L!vars, ledger
-----------------------------------------------------------------------------
(* What is proved of TaskLedger, to be had for the pipeline.               *)
LP == INSTANCE TaskLedgerProofs

(* What TaskLedger assumes of its constants the pipeline assumes of its    *)
(* own.                                                                    *)
LEMMA LedgerAssumed == LP!LedgerAssumption
BY ScrapperAssumption DEF LP!LedgerAssumption, LP!IsFiniteSet, IsFiniteSet

(* The module that is implemented and the one that is proved about are     *)
(* instances of the same record: their specifications agree, part by part. *)
LEMMA SameLedger == L!Spec <=> LP!Spec
<1>1. L!Init <=> LP!Init
  BY DEF L!Init, LP!Init, L!NoTask, LP!NoTask
<1>2. \A t \in Tasks : L!SubmitJob(t) <=> LP!SubmitJob(t)
  BY DEF L!SubmitJob, LP!SubmitJob, L!NewTask, LP!NewTask, L!NoTask, LP!NoTask
<1>3. \A t \in Tasks : L!WaitOnId(t) <=> LP!WaitOnId(t)
  BY DEF L!WaitOnId, LP!WaitOnId
<1>4. \A t \in Tasks : L!WaitStep(t) <=> LP!WaitStep(t)
  BY DEF L!WaitStep, LP!WaitStep, L!CheckJob, LP!CheckJob, L!Wake, LP!Wake, L!Deadline,
         LP!Deadline,
         L!Finished, LP!Finished, L!NoTask, LP!NoTask
<1>5. \A i \in Items : L!ItemStep(i) <=> LP!ItemStep(i)
  BY DEF L!ItemStep, LP!ItemStep, L!UpdateTaskBegin, LP!UpdateTaskBegin, L!UpdateTaskEnd,
         LP!UpdateTaskEnd,
         L!Increment, LP!Increment, L!UpdateItemDoneBegin, LP!UpdateItemDoneBegin,
         L!UpdateItemDoneEnd, LP!UpdateItemDoneEnd, L!Lock, LP!Lock, L!Unlock, LP!Unlock,
         L!NoTask, LP!NoTask
<1>6. L!Next <=> LP!Next
  BY <1>2, <1>3, <1>4, <1>5 DEF L!Next, LP!Next
<1>7. [L!Next]_L!vars <=> [LP!Next]_LP!vars
  BY <1>6 DEF L!vars, LP!vars
<1>. QED
  BY <1>1, <1>7, PTL DEF L!Spec, LP!Spec

(* The progress of a job is never over-reported and its record lists       *)
(* exactly the items its feeder has reported, through all channels and     *)
(* workers.                                                                *)
THEOREM PipelineProgress == Spec => []LP!DoneNeverAhead /\ []LP!RecordListsItems
BY LedgerAssumed, PipelineImplementsLedger, SameLedger, LP!DoneCorrect, LP!RecordCorrect,
   PTL

(* What CheckJob and WaitOnId tell the command keeps the promises of       *)
(* TaskProgress (store.go, api.go:60-106).                                 *)
THEOREM PipelinePromises == Spec => LP!KeepsPromises
BY LedgerAssumed, PipelineImplementsLedger, SameLedger, LP!Refinement, PTL
-----------------------------------------------------------------------------
(* The types of what is neither main's, a feeder's nor the record's.       *)
RestTyped ==
    /\ idx \in [keys : SUBSET Tasks, writing : BOOLEAN]
    /\ sub \in [Subs -> {"recv", "scrape", "exited"}]
    /\ itemq \in {"open", "closed"}
    /\ start \in {"loop", "left", "blocked", "woken", "over"}
    /\ hand \in Items \cup {NoItem}
    /\ q \in [Kinds -> Seq(Items)]
    /\ qopen \in SUBSET Kinds
    /\ work \in [Workers -> Items \cup {NoItem}]
    /\ added \in SUBSET Workers /\ exited \in SUBSET added
    /\ dead \in RunTimeErrors

(* Appending an item to a queue and receiving its first leave a queue of   *)
(* items.                                                                  *)
LEMMA QueueTyped ==
    ASSUME NEW S, NEW s \in Seq(S)
    PROVE  /\ \A x \in S : Append(s, x) \in Seq(S)
           /\ s # <<>> => Head(s) \in S /\ Tail(s) \in Seq(S)
OBVIOUS

(* Channels, queues and workers are well typed at the start.               *)
LEMMA RestInit == Init => RestTyped
BY DEF Init, RestTyped, RunTimeErrors

(* Channels, queues and workers stay well typed, and only counted workers  *)
(* leave (scrapperV1.go:212-290).                                          *)
LEMMA RestStep == PipeInv /\ RestTyped /\ [Next]_vars => RestTyped'
<1> SUFFICES ASSUME PipeInv, RestTyped, [Next]_vars PROVE RestTyped'
  OBVIOUS
<1>0. Job \in Tasks
  BY JobIsTask DEF PipeInv
<1> USE DEF RestTyped, RunTimeErrors
<1>1. CASE UNCHANGED vars
  BY <1>1 DEF vars, pipe, workers
<1>2. ASSUME MainStep PROVE RestTyped'
  <2>1. UNCHANGED <<sub, pipe, dead>>
    BY <1>2 DEF MainStep, StoreTask, IndexBegin, IndexEnd, MainWait, CloseTaskQ
  <2>2. idx' \in [keys : SUBSET Tasks, writing : BOOLEAN]
    <3>1. CASE IndexBegin
      BY <3>1 DEF IndexBegin
    <3>2. CASE IndexEnd
      BY <1>0, <3>2 DEF IndexEnd, Indexed
    <3>3. CASE StoreTask \/ MainWait \/ CloseTaskQ
      BY <3>3 DEF StoreTask, MainWait, CloseTaskQ
    <3>. QED
      BY <1>2, <3>1, <3>2, <3>3 DEF MainStep
  <2>. QED
    BY <2>1, <2>2 DEF pipe, workers
<1>3. ASSUME StartStep PROVE RestTyped'
  <2>1. CASE Dispatch
    <3>1. hand \in Items /\ TypeOf[hand] \in Kinds
      BY <2>1, ScrapperAssumption DEF Dispatch
    <3>2. q' \in [Kinds -> Seq(Items)] /\ hand' = NoItem
      <4>1. Append(q[TypeOf[hand]], hand) \in Seq(Items)
        BY <3>1, QueueTyped
      <4>. QED
        BY <2>1, <3>1, <4>1 DEF Dispatch, Queued
    <3>. QED
      BY <2>1, <3>2 DEF Dispatch, workers
  <2>2. CASE StartLeavesLoop
    BY <2>2 DEF StartLeavesLoop, workers
  <2>3. CASE SwgWait
    BY <2>3 DEF SwgWait, workers
  <2>. QED
    BY <1>3, <2>1, <2>2, <2>3 DEF StartStep
<1>4. ASSUME NEW w \in Workers, AddWorker(w) PROVE RestTyped'
  BY <1>4 DEF AddWorker
<1>5. ASSUME NEW w \in Workers, WorkStep(w) PROVE RestTyped'
  <2>1. CASE Receive(w)
    <3>1. QueueOf[w] \in Kinds
      BY ScrapperAssumption
    <3>2. q[QueueOf[w]] \in Seq(Items) /\ q[QueueOf[w]] # <<>>
      BY <2>1, <3>1 DEF Receive
    <3>3. Head(q[QueueOf[w]]) \in Items /\ Tail(q[QueueOf[w]]) \in Seq(Items)
      BY <3>2, QueueTyped
    <3>4. q' \in [Kinds -> Seq(Items)] /\ work' \in [Workers -> Items \cup {NoItem}]
      BY <2>1, <3>1, <3>3 DEF Receive
    <3>. QED
      BY <2>1, <3>4 DEF Receive
  <2>2. CASE WorkerExit(w)
    BY <2>2 DEF WorkerExit
  <2>. QED
    BY <1>5, <2>1, <2>2 DEF WorkStep
<1>6. ASSUME NEW w \in Subs, SubStep(w) PROVE RestTyped'
  <2>1. CASE TaskSend(w)
    BY <2>1 DEF TaskSend, pipe, workers
  <2>2. CASE Scrape(w)
    BY <2>2 DEF Scrape, ErrorContinues, pipe, workers
  <2>3. CASE TopicClosed(w)
    BY <2>3 DEF TopicClosed, workers
  <2>. QED
    BY <1>6, <2>1, <2>2, <2>3 DEF SubStep
<1>7. ASSUME NEW t \in Tasks, FeedStep(t) PROVE RestTyped'
  <2>1. CASE FeedNext(t) \/ FeedList(t) \/ FilterStores(t) \/ SendOnClosed(t) \/ FeedEnd(t)
    BY <2>1 DEF FeedNext, FeedList, FilterStores, SendOnClosed, FeedEnd, pipe, workers
  <2>2. CASE ItemSend(t)
    <3>1. hand' \in Items
      BY <2>2 DEF ItemSend, PipeInv, FeedInv, L!ItemsOf
    <3>. QED
      BY <2>2, <3>1 DEF ItemSend, workers
  <2>. QED
    BY <1>7, <2>1, <2>2 DEF FeedStep
<1>8. ASSUME NEW i \in Items, CountStep(i) PROVE RestTyped'
  <2>1. CASE Count(i)
    BY <2>1 DEF Count, pipe, workers
  <2>2. CASE CountEnd(i)
    BY <2>2 DEF CountEnd
  <2>. QED
    BY <1>8, <2>1, <2>2 DEF CountStep
<1>. QED
  BY <1>1, <1>2, <1>3, <1>4, <1>5, <1>6, <1>7, <1>8 DEF Next

(* The record the pipeline works on is well typed, as TaskLedger's is.     *)
LEMMA RecordTyped == Spec => []L!TypeOK
<1>1. LP!TypeOK => L!TypeOK
  BY DEF LP!TypeOK, L!TypeOK, LP!Task, L!Task, LP!StatusEnum, L!StatusEnum, LP!Stage, L!Stage,
         LP!Call, L!Call
<1>. QED
  BY <1>1, LedgerAssumed, PipelineImplementsLedger, SameLedger, LP!TypeCorrect, PTL

(* The pipeline is well typed: queues hold items, workers that have left   *)
(* were counted, and main is at one of its jobs (scrapperV1.go:157-290,    *)
(* cmd/reddit/scrape.go:40-62).                                            *)
THEOREM PipelineTypeCorrect == Spec => []TypeOK
<1>1. PipeInv /\ RestTyped /\ L!TypeOK => TypeOK
  BY DEF PipeInv, MainInv, MainPcs, FeedInv, RestTyped, TypeOK
<1>. QED
  BY <1>1, RecordTyped, PipeInit, PipeStep, RestInit, RestStep, PTL DEF Spec
-----------------------------------------------------------------------------
(* A feeder between two items holds none; a job not submitted yet has no   *)
(* feeder.                                                                 *)
Busy == {"list", "filter", "send", "skip"}

CurInv    == \A t \in Tasks : feed[t].pc \notin Busy => feed[t].cur = NoItem
SubmitInv == main.pc \in {"submit", "stored", "indexing", "send"} =>
                 \A m \in main.n .. Len(Jobs) : feed[Jobs[m]].pc = "none"

(* A feeder that has been started goes on, and no job yet to be submitted  *)
(* is concerned, as jobs are distinct.                                     *)
LEMMA OneFeederCur ==
    ASSUME MainInv, FeedInv, CurInv, SubmitInv, NEW t \in Tasks, feed[t].pc # "none",
           NEW r \in Feeder, feed' = [feed EXCEPT ![t] = r], main' = main,
           r.pc \notin Busy => r.cur = NoItem
    PROVE  CurInv' /\ SubmitInv'
<1>1. CurInv'
  BY DEF CurInv, FeedInv
<1>2. SubmitInv'
  <2> SUFFICES ASSUME main.pc \in {"submit", "stored", "indexing", "send"},
                      NEW m \in main.n .. Len(Jobs)
               PROVE  feed'[Jobs[m]].pc = "none"
    BY DEF SubmitInv
  <2>1. m \in 1 .. Len(Jobs) /\ feed[Jobs[m]].pc = "none"
    BY ScrapperAssumption DEF MainInv, SubmitInv
  <2>2. Jobs[m] \in Tasks /\ Jobs[m] # t
    BY <2>1, ScrapperAssumption
  <2>. QED
    BY <2>1, <2>2 DEF FeedInv
<1>. QED
  BY <1>1, <1>2

(* At the start no job has a feeder.                                       *)
LEMMA CurInit == Init => CurInv /\ SubmitInv
<1> SUFFICES ASSUME Init PROVE CurInv /\ SubmitInv
  OBVIOUS
<1>1. CurInv
  BY DEF Init, CurInv, Idle
<1>2. \A m \in 1 .. Len(Jobs) : Jobs[m] \in Tasks
  BY ScrapperAssumption
<1>3. SubmitInv
  BY <1>2 DEF Init, SubmitInv, Idle
<1>. QED
  BY <1>1, <1>3

(* A feeder between two posts holds no item, and a job gets its feeder     *)
(* only after it has been sent on TaskQ: main sends each job once          *)
(* (api.go:23-56, scrapperV1.go:157-211).                                  *)
LEMMA CurStep == PipeInv /\ CurInv /\ SubmitInv /\ [Next]_vars => CurInv' /\ SubmitInv'
<1> SUFFICES ASSUME PipeInv, CurInv, SubmitInv, [Next]_vars PROVE CurInv' /\ SubmitInv'
  OBVIOUS
<1>0. MainInv /\ FeedInv /\ Job \in Tasks
  BY JobIsTask DEF PipeInv
<1>1. ASSUME UNCHANGED <<main, feed>> PROVE CurInv' /\ SubmitInv'
  BY <1>1 DEF CurInv, SubmitInv
<1>2. ASSUME MainStep PROVE CurInv' /\ SubmitInv'
  <2>1. UNCHANGED feed
    BY <1>2 DEF MainStep, StoreTask, IndexBegin, IndexEnd, MainWait, CloseTaskQ
  <2>2. \/ UNCHANGED main \/ main'.pc \in {"wait", "exit", "closed"}
        \/ main.pc \in {"submit", "stored", "indexing"} /\ main'.n = main.n
    BY <1>0, <1>2 DEF MainStep, StoreTask, IndexBegin, IndexEnd, MainWait, CloseTaskQ, MainInv
  <2>. QED
    BY <2>1, <2>2 DEF CurInv, SubmitInv
<1>3. ASSUME NEW w \in Subs, TaskSend(w) PROVE CurInv' /\ SubmitInv'
  <2>1. main.pc = "send" /\ main.n \in 1 .. Len(Jobs)
    BY <1>0, <1>3 DEF TaskSend, MainInv
  <2>2. feed[Job].pc = "none" /\ feed[Job].cur = NoItem
    BY <1>0, <2>1, ScrapperAssumption DEF SubmitInv, CurInv, Job, Busy
  <2>3. feed' = [feed EXCEPT ![Job].pc = "scraping", ![Job].by = w]
    BY <1>3 DEF TaskSend
  <2>4. feed'[Job].cur = NoItem /\ \A t \in Tasks \ {Job} : feed'[t] = feed[t]
    BY <1>0, <2>2, <2>3 DEF FeedInv, Feeder
  <2>5. CurInv'
    BY <2>4 DEF CurInv
  <2>6. CASE main.n < Len(Jobs)
    <3>1. main' = [pc |-> "submit", n |-> main.n + 1]
      BY <1>3, <2>6 DEF TaskSend
    <3>2. ASSUME NEW m \in main.n + 1 .. Len(Jobs) PROVE feed'[Jobs[m]].pc = "none"
      <4>1. m \in 1 .. Len(Jobs) /\ m \in main.n .. Len(Jobs) /\ m # main.n
        BY <2>1
      <4>2. Jobs[m] \in Tasks /\ Jobs[m] # Job /\ feed[Jobs[m]].pc = "none"
        BY <2>1, <4>1, ScrapperAssumption DEF SubmitInv, Job
      <4>. QED
        BY <2>4, <4>2
    <3>. QED
      BY <2>5, <3>1, <3>2 DEF SubmitInv
  <2>7. CASE ~(main.n < Len(Jobs))
    <3>1. main'.pc \in {"wait", "close"}
      BY <1>3, <2>7, ScrapperAssumption DEF TaskSend, AfterJobs
    <3>. QED
      BY <2>5, <3>1 DEF SubmitInv
  <2>. QED
    BY <2>6, <2>7
<1>4. ASSUME NEW w \in Subs, Scrape(w) PROVE CurInv' /\ SubmitInv'
  <2>1. PICK t \in Tasks :
          /\ feed[t].pc = "scraping"
          /\ \/ feed' = [feed EXCEPT ![t].pc = "ended"]
             \/ \E posts \in {{}, L!ItemsOf(t)} :
                   feed' = [feed EXCEPT ![t].pc = "next", ![t].left = posts]
    BY <1>4 DEF Scrape
  <2>2. feed[t].cur = NoItem /\ feed[t] \in Feeder
    BY <1>0, <2>1 DEF CurInv, Busy, FeedInv
  <2>3. ASSUME feed' = [feed EXCEPT ![t].pc = "ended"]
        PROVE  \E r \in Feeder : feed' = [feed EXCEPT ![t] = r] /\ r.cur = NoItem
    <3> DEFINE r == [feed[t] EXCEPT !.pc = "ended"]
    <3>1. r \in Feeder /\ r.cur = NoItem
      BY <2>2 DEF Feeder
    <3>2. feed' = [feed EXCEPT ![t] = r]
      BY <2>3
    <3>. QED
      BY <3>1, <3>2
  <2>4. ASSUME NEW x \in {{}, L!ItemsOf(t)}, feed' = [feed EXCEPT ![t].pc = "next", ![t].left = x]
        PROVE  \E r \in Feeder : feed' = [feed EXCEPT ![t] = r] /\ r.cur = NoItem
    <3> DEFINE r == [feed[t] EXCEPT !.pc = "next", !.left = x]
    <3>1. r \in Feeder /\ r.cur = NoItem
      BY <2>2 DEF Feeder, L!ItemsOf
    <3>2. feed' = [feed EXCEPT ![t] = r]
      BY <2>4
    <3>. QED
      BY <3>1, <3>2
  <2>5. \E r \in Feeder : feed' = [feed EXCEPT ![t] = r] /\ r.cur = NoItem
    BY <2>1, <2>3, <2>4
  <2>6. main' = main
    BY <1>4 DEF Scrape
  <2>. QED
    BY <1>0, <2>1, <2>5, <2>6, OneFeederCur
<1>5. ASSUME NEW t \in Tasks, FeedStep(t) PROVE CurInv' /\ SubmitInv'
  <2>1. main' = main
    BY <1>5 DEF FeedStep, FeedNext, FeedList, FilterStores, ItemSend, SendOnClosed, FeedEnd
  <2>2. CASE feed' = feed
    BY <1>1, <2>1, <2>2
  <2>3. CASE FeedNext(t)
    <3>1. PICK i \in feed[t].left :
            feed' = [feed EXCEPT ![t].pc = "list", ![t].cur = i, ![t].left = @ \ {i}]
      BY <2>3 DEF FeedNext
    <3> DEFINE r == [feed[t] EXCEPT !.pc = "list", !.cur = i, !.left = @ \ {i}]
    <3>2. r \in Feeder /\ r.pc = "list"
      <4>1. feed[t] \in Feeder /\ i \in Items
        BY <1>0 DEF FeedInv, L!ItemsOf
      <4>. QED
        BY <4>1 DEF Feeder
    <3>3. feed' = [feed EXCEPT ![t] = r] /\ feed[t].pc # "none"
      BY <2>3, <3>1 DEF FeedNext
    <3> HIDE DEF r
    <3>. QED
      BY <1>0, <2>1, <3>2, <3>3, OneFeederCur DEF Busy
  <2>4. ASSUME NEW where \in {"filter", "send", "skip"}, feed' = [feed EXCEPT ![t].pc = where],
               feed[t].pc # "none"
        PROVE  CurInv' /\ SubmitInv'
    <3> DEFINE r == [feed[t] EXCEPT !.pc = where]
    <3>1. r \in Feeder /\ r.pc = where
      BY <1>0 DEF FeedInv, Feeder
    <3>2. feed' = [feed EXCEPT ![t] = r]
      BY <2>4
    <3> HIDE DEF r
    <3>. QED
      BY <1>0, <2>1, <2>4, <3>1, <3>2, OneFeederCur DEF Busy
  <2>5. CASE FeedList(t) \/ (FilterStores(t) /\ feed' # feed)
    BY <2>4, <2>5 DEF FeedList, FilterStores
  <2>6. CASE ItemSend(t)
    <3> DEFINE r == [feed[t] EXCEPT !.pc = "next", !.cur = NoItem]
    <3>1. r \in Feeder /\ r.cur = NoItem
      BY <1>0 DEF FeedInv, Feeder
    <3>2. feed' = [feed EXCEPT ![t] = r] /\ feed[t].pc # "none"
      BY <2>6 DEF ItemSend, NextPost
    <3> HIDE DEF r
    <3>. QED
      BY <1>0, <2>1, <3>1, <3>2, OneFeederCur
  <2>7. CASE FeedEnd(t)
    <3> DEFINE r == [feed[t] EXCEPT !.pc = "ended"]
    <3>1. r \in Feeder /\ r.cur = NoItem
      <4>1. feed[t] \in Feeder /\ feed[t].cur = NoItem
        BY <1>0, <2>7 DEF FeedEnd, FeedInv, CurInv, Busy
      <4>. QED
        BY <4>1 DEF Feeder
    <3>2. feed' = [feed EXCEPT ![t] = r] /\ feed[t].pc # "none"
      BY <2>7 DEF FeedEnd
    <3> HIDE DEF r
    <3>. QED
      BY <1>0, <2>1, <3>1, <3>2, OneFeederCur
  <2>8. SendOnClosed(t) => feed' = feed
    BY DEF SendOnClosed
  <2>. QED
    BY <1>5, <2>2, <2>3, <2>5, <2>6, <2>7, <2>8 DEF FeedStep
<1>6. ASSUME NEW i \in Items, CountStep(i) PROVE CurInv' /\ SubmitInv'
  <2>1. main' = main /\ TaskOf[i] \in Tasks
    BY <1>6, ScrapperAssumption DEF CountStep, Count, CountEnd
  <2>2. CASE feed' = feed
    BY <1>1, <2>1, <2>2
  <2>3. CASE feed' # feed
    <3> DEFINE t == TaskOf[i]
               r == [feed[t] EXCEPT !.pc = "next", !.cur = NoItem]
    <3>1. r \in Feeder /\ r.cur = NoItem
      <4>1. feed[t] \in Feeder
        BY <1>0, <2>1 DEF FeedInv
      <4>. QED
        BY <4>1 DEF Feeder
    <3>2. feed' = [feed EXCEPT ![t] = r] /\ feed[t].pc # "none"
      <4>1. feed' = NextPost(t) /\ feed[t].pc = "skip"
        BY <1>6, <2>3 DEF CountStep, Count, CountEnd, Skipping
      <4>. QED
        BY <4>1 DEF NextPost
    <3> HIDE DEF r
    <3>. QED
      BY <1>0, <2>1, <3>1, <3>2, OneFeederCur
  <2>. QED
    BY <2>2, <2>3
<1>7. ASSUME \/ UNCHANGED vars \/ StartStep \/ \E w \in Workers : AddWorker(w) \/ WorkStep(w)
             \/ \E w \in Subs : TopicClosed(w)
      PROVE  CurInv' /\ SubmitInv'
  BY <1>1, <1>7 DEF vars, StartStep, Dispatch, StartLeavesLoop, SwgWait, AddWorker, WorkStep,
                    Receive, WorkerExit, TopicClosed
<1>. QED
  BY <1>2, <1>3, <1>4, <1>5, <1>6, <1>7 DEF Next, SubStep
-----------------------------------------------------------------------------
(* Who has an item: its feeder, Start, a queue, a worker.                  *)
Fd(i) == feed[TaskOf[i]].cur = i
Hd(i) == hand = i
Qd(i) == \E k \in Kinds : \E n \in DOMAIN q[k] : q[k][n] = i
Wd(i) == \E w \in Workers : work[w] = i

(* At most one of them, and one exactly as long as the item is reported    *)
(* and not counted; an increment is made by whoever has the item.          *)
HoldInv(i) ==
    /\ Fd(i) => ~Hd(i) /\ ~Qd(i) /\ ~Wd(i)
    /\ Hd(i) => ~Qd(i) /\ ~Wd(i)
    /\ Qd(i) => ~Wd(i)
    /\ Fd(i) \/ Hd(i) \/ Qd(i) \/ Wd(i) <=> pc[i] \notin {"post", "counted"}
    /\ pc[i] \in {"incrementing", "counting"} => Skipping(i) \/ Wd(i)

QueueOnce ==
    \A k, j \in Kinds : \A m \in DOMAIN q[k], n \in DOMAIN q[j] :
        q[k][m] = q[j][n] => k = j /\ m = n
WorkOnce  == \A v, w \in Workers : work[v] = work[w] /\ work[v] # NoItem => v = w

HoldAll == (\A i \in Items : HoldInv(i)) /\ QueueOnce /\ WorkOnce

(* No item is anywhere before the first feeder starts.                     *)
LEMMA HoldInit == Init => HoldAll
<1> SUFFICES ASSUME Init PROVE HoldAll
  OBVIOUS
<1>1. ASSUME NEW i \in Items PROVE HoldInv(i)
  <2>1. pc[i] = "post" /\ ~Hd(i) /\ ~Wd(i) /\ i # NoItem
    BY ScrapperAssumption DEF Init, L!Init, Hd, Wd
  <2>2. ~Fd(i)
    BY <2>1, ScrapperAssumption DEF Init, Fd, Idle
  <2>3. ~Qd(i)
    BY DEF Init, Qd
  <2>. QED
    BY <2>1, <2>2, <2>3 DEF HoldInv
<1>2. QueueOnce /\ WorkOnce
  BY DEF Init, QueueOnce, WorkOnce
<1>. QED
  BY <1>1, <1>2 DEF HoldAll

(* A step that leaves the items where they are.                            *)
LEMMA HoldSame ==
    ASSUME HoldAll, UNCHANGED <<hand, q, work, pc>>,
           \A t \in Tasks : feed'[t] = feed[t]
                             \/ (feed'[t].cur = feed[t].cur /\ feed[t].pc # "skip")
    PROVE  HoldAll'
<1>1. ASSUME NEW i \in Items PROVE HoldInv(i)'
  <2>1. TaskOf[i] \in Tasks
    BY ScrapperAssumption
  <2>2. /\ Fd(i)' <=> Fd(i)
        /\ Hd(i)' <=> Hd(i)
        /\ Qd(i)' <=> Qd(i)
        /\ Wd(i)' <=> Wd(i)
    BY <2>1 DEF Fd, Hd, Qd, Wd
  <2>3. Skipping(i) => Skipping(i)'
    BY <2>1 DEF Skipping
  <2>. QED
    BY <2>2, <2>3 DEF HoldAll, HoldInv
<1>2. QueueOnce' /\ WorkOnce'
  BY DEF HoldAll, QueueOnce, WorkOnce
<1>. QED
  BY <1>1, <1>2 DEF HoldAll

(* A sequence with an element appended: its domain and its elements.       *)
LEMMA Appended ==
    ASSUME NEW S, NEW s \in Seq(S), NEW x
    PROVE  /\ DOMAIN Append(s, x) = 1 .. Len(s) + 1
           /\ \A n \in 1 .. Len(s) : Append(s, x)[n] = s[n]
           /\ Append(s, x)[Len(s) + 1] = x
           /\ DOMAIN s = 1 .. Len(s) /\ Len(s) \in Nat
OBVIOUS

(* A sequence without its first element: its domain and its elements.      *)
LEMMA Taken ==
    ASSUME NEW S, NEW s \in Seq(S), s # <<>>
    PROVE  /\ DOMAIN Tail(s) = 1 .. Len(s) - 1
           /\ \A n \in 1 .. Len(s) - 1 : Tail(s)[n] = s[n + 1]
           /\ Head(s) = s[1] /\ 1 \in DOMAIN s
           /\ DOMAIN s = 1 .. Len(s) /\ Len(s) \in Nat
OBVIOUS

(* What the steps need to know besides.                                    *)
Known == PipeInv /\ CurInv /\ SubmitInv /\ RestTyped /\ L!TypeOK

(* A feeder that takes its next post is the first to have it               *)
(* (scrapperV1.go:171-198).                                                *)
LEMMA HoldFeedNext ==
    ASSUME Known, HoldAll, NEW t \in Tasks, FeedNext(t)
    PROVE  HoldAll'
<1>1. PICK j \in feed[t].left :
        /\ pc[j] = "post" /\ pc' = [pc EXCEPT ![j] = "listing"]
        /\ feed' = [feed EXCEPT ![t].pc = "list", ![t].cur = j, ![t].left = @ \ {j}]
  BY DEF FeedNext, L!UpdateTaskBegin
<1>2. j \in Items /\ TaskOf[j] = t /\ feed[t] \in Feeder /\ feed \in [Tasks -> Feeder]
  BY DEF Known, PipeInv, FeedInv, L!ItemsOf
<1>3. feed[t].pc = "next" /\ feed[t].cur = NoItem /\ UNCHANGED <<hand, q, work>>
  BY DEF FeedNext, Known, CurInv, Busy, pipe, workers
<1>4. feed'[t].cur = j /\ \A u \in Tasks \ {t} : feed'[u] = feed[u]
  BY <1>1, <1>2 DEF Feeder
<1>5. pc \in [Items -> L!Stage]
  BY DEF Known, L!TypeOK
<1>6. ASSUME NEW i \in Items PROVE HoldInv(i)'
  <2>1. TaskOf[i] \in Tasks /\ i # NoItem
    BY ScrapperAssumption
  <2>2. HoldInv(i)
    BY DEF HoldAll
  <2>3. Hd(i)' = Hd(i) /\ Qd(i)' = Qd(i) /\ Wd(i)' = Wd(i)
    BY <1>3 DEF Hd, Qd, Wd
  <2>4. CASE i = j
    <3>1. Fd(i)' /\ pc'[i] = "listing"
      BY <1>1, <1>2, <1>4, <1>5, <2>4 DEF Fd
    <3>2. ~Hd(i) /\ ~Qd(i) /\ ~Wd(i)
      BY <1>1, <2>2, <2>4 DEF HoldInv
    <3>. QED
      BY <2>3, <3>1, <3>2 DEF HoldInv
  <2>5. CASE i # j
    <3>1. Fd(i)' = Fd(i) /\ pc'[i] = pc[i]
      BY <1>1, <1>3, <1>4, <1>5, <2>1, <2>5 DEF Fd
    <3>2. Skipping(i) => Skipping(i)'
      BY <1>3, <1>4, <2>1 DEF Skipping
    <3>. QED
      BY <2>2, <2>3, <3>1, <3>2 DEF HoldInv
  <2>. QED
    BY <2>4, <2>5
<1>7. QueueOnce' /\ WorkOnce'
  BY <1>3 DEF HoldAll, QueueOnce, WorkOnce
<1>. QED
  BY <1>6, <1>7 DEF HoldAll

(* Reporting an item leaves it with its feeder (scrapperV1.go:171-198).    *)
LEMMA HoldFeedList ==
    ASSUME Known, HoldAll, NEW t \in Tasks, FeedList(t)
    PROVE  HoldAll'
<1> DEFINE j == feed[t].cur
<1>1. /\ pc[j] = "listing" /\ pc' = [pc EXCEPT ![j] = "listed"]
      /\ feed' = [feed EXCEPT ![t].pc = "filter"] /\ feed[t].pc = "list"
      /\ UNCHANGED <<hand, q, work>>
  BY DEF FeedList, L!UpdateTaskEnd, pipe, workers
<1>2. feed[t] \in Feeder /\ feed \in [Tasks -> Feeder] /\ pc \in [Items -> L!Stage]
  BY DEF Known, PipeInv, FeedInv, L!TypeOK
<1>3. feed'[t].cur = feed[t].cur /\ \A u \in Tasks \ {t} : feed'[u] = feed[u]
  BY <1>1, <1>2 DEF Feeder
<1>4. ASSUME NEW i \in Items PROVE HoldInv(i)'
  <2>1. TaskOf[i] \in Tasks
    BY ScrapperAssumption
  <2>2. HoldInv(i)
    BY DEF HoldAll
  <2>3. Fd(i)' = Fd(i) /\ Hd(i)' = Hd(i) /\ Qd(i)' = Qd(i) /\ Wd(i)' = Wd(i)
    BY <1>1, <1>3, <2>1 DEF Fd, Hd, Qd, Wd
  <2>4. pc'[i] = pc[i] \/ (pc[i] = "listing" /\ pc'[i] = "listed")
    BY <1>1, <1>2
  <2>5. Skipping(i) => Skipping(i)'
    BY <1>1, <1>3, <2>1 DEF Skipping
  <2>. QED
    BY <2>2, <2>3, <2>4, <2>5 DEF HoldInv
<1>5. QueueOnce' /\ WorkOnce'
  BY <1>1 DEF HoldAll, QueueOnce, WorkOnce
<1>. QED
  BY <1>4, <1>5 DEF HoldAll

(* ItemQ hands an item over from its feeder to Start, which has none       *)
(* (scrapperV1.go:205-209).                                                *)
LEMMA HoldItemSend ==
    ASSUME Known, HoldAll, NEW t \in Tasks, ItemSend(t)
    PROVE  HoldAll'
<1> DEFINE j == feed[t].cur
<1>1. /\ feed[t].pc = "send" /\ hand = NoItem /\ hand' = j
      /\ feed' = [feed EXCEPT ![t].pc = "next", ![t].cur = NoItem]
      /\ UNCHANGED <<q, work, pc>>
  BY DEF ItemSend, NextPost, ledger, workers
<1>2. j \in Items /\ TaskOf[j] = t /\ feed[t] \in Feeder /\ feed \in [Tasks -> Feeder]
  BY <1>1 DEF Known, PipeInv, FeedInv, L!ItemsOf
<1>3. feed'[t].cur = NoItem /\ \A u \in Tasks \ {t} : feed'[u] = feed[u]
  BY <1>1, <1>2 DEF Feeder
<1>4. ASSUME NEW i \in Items PROVE HoldInv(i)'
  <2>1. TaskOf[i] \in Tasks /\ i # NoItem
    BY ScrapperAssumption
  <2>2. HoldInv(i)
    BY DEF HoldAll
  <2>3. Qd(i)' = Qd(i) /\ Wd(i)' = Wd(i) /\ pc'[i] = pc[i]
    BY <1>1 DEF Qd, Wd
  <2>4. CASE i = j
    <3>1. Fd(i) /\ ~Skipping(i) /\ ~Fd(i)' /\ Hd(i)'
      BY <1>1, <1>2, <1>3, <2>1, <2>4 DEF Fd, Hd, Skipping
    <3>. QED
      BY <2>2, <2>3, <3>1 DEF HoldInv
  <2>5. CASE i # j
    <3>1. Fd(i)' = Fd(i) /\ ~Hd(i) /\ ~Hd(i)'
      BY <1>1, <1>3, <2>1, <2>5 DEF Fd, Hd
    <3>2. Skipping(i) => Skipping(i)'
      BY <1>1, <1>3, <2>1 DEF Skipping
    <3>. QED
      BY <2>2, <2>3, <3>1, <3>2 DEF HoldInv
  <2>. QED
    BY <2>4, <2>5
<1>5. QueueOnce' /\ WorkOnce'
  BY <1>1 DEF HoldAll, QueueOnce, WorkOnce
<1>. QED
  BY <1>4, <1>5 DEF HoldAll

(* Start puts the item it has at the end of one queue, where it was not    *)
(* yet (scrapperV1.go:277-284).                                            *)
LEMMA HoldDispatch == Known /\ HoldAll /\ Dispatch => HoldAll'
<1> SUFFICES ASSUME Known, HoldAll, Dispatch PROVE HoldAll'
  OBVIOUS
<1> DEFINE j == hand
           k == TypeOf[hand]
           m == Len(q[k]) + 1
<1>1. /\ j \in Items /\ j # NoItem /\ k \in Kinds /\ q \in [Kinds -> Seq(Items)]
      /\ q' = [q EXCEPT ![k] = Append(@, j)] /\ hand' = NoItem
      /\ UNCHANGED <<feed, work, pc>>
  BY ScrapperAssumption DEF Dispatch, Queued, Known, RestTyped, ledger, workers
<1>2. /\ q'[k] = Append(q[k], j) /\ \A h \in Kinds \ {k} : q'[h] = q[h]
      /\ q[k] \in Seq(Items)
  BY <1>1
<1>3. /\ DOMAIN q'[k] = 1 .. m /\ m \in Nat /\ m >= 1 /\ q'[k][m] = j
      /\ DOMAIN q[k] = 1 .. m - 1 /\ \A n \in 1 .. m - 1 : q'[k][n] = q[k][n]
  <2>1. /\ DOMAIN Append(q[k], j) = 1 .. Len(q[k]) + 1
        /\ \A n \in 1 .. Len(q[k]) : Append(q[k], j)[n] = q[k][n]
        /\ Append(q[k], j)[Len(q[k]) + 1] = j
        /\ DOMAIN q[k] = 1 .. Len(q[k]) /\ Len(q[k]) \in Nat
    BY <1>2, Appended
  <2>. QED
    BY <1>2, <2>1
<1> HIDE DEF j, k, m
<1>4. /\ HoldInv(j) /\ Hd(j)
      /\ ~Qd(j)
  BY <1>1 DEF HoldAll, HoldInv, Hd, j
<1>5. ASSUME NEW i \in Items PROVE HoldInv(i)'
  <2>1. HoldInv(i) /\ i # NoItem
    BY ScrapperAssumption DEF HoldAll
  <2>2. Fd(i)' = Fd(i) /\ Wd(i)' = Wd(i) /\ Skipping(i)' = Skipping(i) /\ pc'[i] = pc[i]
    BY <1>1 DEF Fd, Wd, Skipping
  <2>3. ~Hd(i)' /\ (Hd(i) <=> i = j)
    BY <1>1, <2>1 DEF Hd, j
  <2>4. Qd(i) => Qd(i)'
    <3> SUFFICES ASSUME NEW h \in Kinds, NEW n \in DOMAIN q[h], q[h][n] = i
                 PROVE  \E n2 \in DOMAIN q'[h] : q'[h][n2] = i
      BY DEF Qd
    <3>1. CASE h = k
      <4>1. n \in 1 .. m - 1 /\ n \in 1 .. m
        BY <1>3, <3>1
      <4>2. n \in DOMAIN q'[h] /\ q'[h][n] = i
        BY <1>3, <3>1, <4>1
      <4>. QED
        BY <4>2
    <3>2. CASE h # k
      <4>1. q'[h] = q[h]
        BY <1>2, <3>2
      <4>. QED
        BY <4>1
    <3>. QED
      BY <3>1, <3>2
  <2>5. i = j => Qd(i)'
    BY <1>1, <1>3 DEF Qd
  <2>6. Qd(i)' => Qd(i) \/ i = j
    <3> SUFFICES ASSUME NEW h \in Kinds, NEW n \in DOMAIN q'[h], q'[h][n] = i, i # j
                 PROVE  \E n2 \in DOMAIN q[h] : q[h][n2] = i
      BY DEF Qd
    <3>1. CASE h = k
      <4>1. n \in 1 .. m /\ n # m
        BY <1>3, <3>1
      <4>. QED
        BY <1>3, <3>1, <4>1
    <3>. QED
      BY <1>2, <3>1
  <2>. QED
    BY <2>1, <2>2, <2>3, <2>4, <2>5, <2>6 DEF HoldInv
<1>6. QueueOnce'
  <2> SUFFICES ASSUME NEW g \in Kinds, NEW h \in Kinds,
                      NEW a \in DOMAIN q'[g], NEW b \in DOMAIN q'[h], q'[g][a] = q'[h][b]
               PROVE  g = h /\ a = b
    BY DEF QueueOnce
  <2>1. (a \in DOMAIN q[g] /\ q'[g][a] = q[g][a]) \/ (g = k /\ a = m /\ q'[g][a] = j)
    BY <1>2, <1>3
  <2>2. (b \in DOMAIN q[h] /\ q'[h][b] = q[h][b]) \/ (h = k /\ b = m /\ q'[h][b] = j)
    BY <1>2, <1>3
  <2>3. \A f \in Kinds : \A n \in DOMAIN q[f] : q[f][n] # j
    BY <1>4 DEF Qd
  <2>. QED
    BY <2>1, <2>2, <2>3 DEF HoldAll, QueueOnce
<1>7. WorkOnce'
  BY <1>1 DEF HoldAll, WorkOnce
<1>. QED
  BY <1>5, <1>6, <1>7 DEF HoldAll

(* A queue worker that has nothing takes the first item of its queue,      *)
(* which is in no other place of it (scrapperV1.go:231-237).               *)
LEMMA HoldReceive ==
    ASSUME Known, HoldAll, NEW v \in Workers, Receive(v)
    PROVE  HoldAll'
<1> DEFINE k == QueueOf[v]
           j == Head(q[k])
           m == Len(q[k])
<1>1. /\ k \in Kinds /\ q \in [Kinds -> Seq(Items)] /\ q[k] # <<>> /\ work[v] = NoItem
      /\ work' = [work EXCEPT ![v] = j] /\ q' = [q EXCEPT ![k] = Tail(@)]
      /\ UNCHANGED <<feed, hand, pc>>
  BY ScrapperAssumption DEF Receive, Known, RestTyped, ledger
<1>2. q'[k] = Tail(q[k]) /\ (\A h \in Kinds \ {k} : q'[h] = q[h]) /\ q[k] \in Seq(Items)
  BY <1>1
<1>3. /\ DOMAIN q'[k] = 1 .. m - 1 /\ m \in Nat /\ DOMAIN q[k] = 1 .. m /\ 1 \in DOMAIN q[k]
      /\ \A n \in 1 .. m - 1 : q'[k][n] = q[k][n + 1]
      /\ j = q[k][1]
  <2>1. /\ DOMAIN Tail(q[k]) = 1 .. Len(q[k]) - 1
        /\ \A n \in 1 .. Len(q[k]) - 1 : Tail(q[k])[n] = q[k][n + 1]
        /\ Head(q[k]) = q[k][1] /\ 1 \in DOMAIN q[k]
        /\ DOMAIN q[k] = 1 .. Len(q[k]) /\ Len(q[k]) \in Nat
    BY <1>1, <1>2, Taken
  <2>. QED
    BY <1>2, <2>1
<1>4. j \in Items /\ j # NoItem
  BY <1>1, <1>2, QueueTyped, ScrapperAssumption
<1>5. /\ work'[v] = j /\ \A w \in Workers \ {v} : work'[w] = work[w]
  BY <1>1 DEF Known, RestTyped
<1> HIDE DEF j, k, m
<1>6. HoldInv(j) /\ Qd(j) /\ ~Wd(j)
  <2>1. Qd(j) /\ HoldInv(j)
    BY <1>1, <1>3, <1>4 DEF Qd, HoldAll
  <2>. QED
    BY <2>1 DEF HoldInv
<1>7. QueueOnce /\ WorkOnce
  BY DEF HoldAll
<1>8. ASSUME NEW i \in Items PROVE HoldInv(i)'
  <2>1. HoldInv(i) /\ i # NoItem
    BY ScrapperAssumption DEF HoldAll
  <2>2. Fd(i)' = Fd(i) /\ Hd(i)' = Hd(i) /\ Skipping(i)' = Skipping(i) /\ pc'[i] = pc[i]
    BY <1>1 DEF Fd, Hd, Skipping
  <2>3. Wd(i)' <=> Wd(i) \/ i = j
    BY <1>1, <1>5, <2>1 DEF Wd
  <2>4. Qd(i) /\ i # j => Qd(i)'
    <3> SUFFICES ASSUME NEW h \in Kinds, NEW n \in DOMAIN q[h], q[h][n] = i, i # j
                 PROVE  \E n2 \in DOMAIN q'[h] : q'[h][n2] = i
      BY DEF Qd
    <3>1. CASE h = k
      <4>1. n \in 1 .. m /\ n # 1
        BY <1>3, <3>1
      <4>2. n - 1 \in 1 .. m - 1 /\ q'[k][n - 1] = q[k][n]
        BY <1>3, <4>1
      <4>. QED
        BY <1>3, <3>1, <4>2
    <3>. QED
      BY <1>2, <3>1
  <2>5. Qd(i)' => Qd(i)
    <3> SUFFICES ASSUME NEW h \in Kinds, NEW n \in DOMAIN q'[h], q'[h][n] = i
                 PROVE  \E n2 \in DOMAIN q[h] : q[h][n2] = i
      BY DEF Qd
    <3>1. CASE h = k
      <4>1. n \in 1 .. m - 1 /\ n + 1 \in 1 .. m
        BY <1>3, <3>1
      <4>. QED
        BY <1>3, <3>1, <4>1
    <3>. QED
      BY <1>2, <3>1
  <2>6. i = j => ~Qd(i)'
    <3> SUFFICES ASSUME i = j, NEW h \in Kinds, NEW n \in DOMAIN q'[h], q'[h][n] = i
                 PROVE  FALSE
      BY DEF Qd
    <3>1. CASE h = k
      <4>1. n \in 1 .. m - 1
        BY <1>3, <3>1
      <4>2. n + 1 \in DOMAIN q[k] /\ n + 1 # 1
        BY <1>3, <4>1
      <4>3. q[k][n + 1] = q[k][1]
        BY <1>3, <3>1, <4>1
      <4>. QED
        BY <1>1, <1>3, <1>7, <4>2, <4>3 DEF QueueOnce
    <3>2. CASE h # k
      <4>1. n \in DOMAIN q[h] /\ q[h][n] = q[k][1]
        BY <1>2, <1>3, <3>2
      <4>. QED
        BY <1>1, <1>3, <1>7, <3>2, <4>1 DEF QueueOnce
    <3>. QED
      BY <3>1, <3>2
  <2>. QED
    BY <1>6, <2>1, <2>2, <2>3, <2>4, <2>5, <2>6 DEF HoldInv
<1>9. QueueOnce'
  <2> SUFFICES ASSUME NEW g \in Kinds, NEW h \in Kinds,
                      NEW a \in DOMAIN q'[g], NEW b \in DOMAIN q'[h], q'[g][a] = q'[h][b]
               PROVE  g = h /\ a = b
    BY DEF QueueOnce
  <2> DEFINE Was(f, n) == IF f = k THEN n + 1 ELSE n
  <2>1. ASSUME NEW f \in Kinds, NEW n \in DOMAIN q'[f]
        PROVE  Was(f, n) \in DOMAIN q[f] /\ q'[f][n] = q[f][Was(f, n)] /\ (f = k => n \in Nat)
    <3>1. CASE f = k
      <4>1. n \in 1 .. m - 1 /\ n + 1 \in 1 .. m /\ n \in Nat
        BY <1>3, <3>1
      <4>. QED
        BY <1>3, <3>1, <4>1
    <3>2. CASE f # k
      BY <1>2, <3>2
    <3>. QED
      BY <3>1, <3>2
  <2>2. (g = k => a \in Nat) /\ (h = k => b \in Nat)
    BY <2>1
  <2>3. g = h /\ Was(g, a) = Was(h, b)
    <3>1. /\ Was(g, a) \in DOMAIN q[g] /\ Was(h, b) \in DOMAIN q[h]
          /\ q[g][Was(g, a)] = q[h][Was(h, b)]
      BY <2>1
    <3> HIDE DEF Was
    <3>. QED
      BY <1>7, <3>1 DEF QueueOnce
  <2>. QED
    BY <2>1, <2>2, <2>3
<1>10. WorkOnce'
  <2>1. \A w \in Workers : work[w] # j
    BY <1>6 DEF Wd
  <2>. QED
    BY <1>5, <1>7, <2>1 DEF WorkOnce
<1>. QED
  BY <1>8, <1>9, <1>10 DEF HoldAll

(* An increment under way leaves the item with the worker or the feeder    *)
(* that makes it (api.go:157-173).                                         *)
LEMMA HoldCount ==
    ASSUME Known, HoldAll, NEW j \in Items, Count(j)
    PROVE  HoldAll'
<1>1. /\ UNCHANGED <<feed, hand, q, work>>
      /\ Skipping(j) \/ Wd(j)
      /\ \/ pc[j] = "listed" /\ pc' = [pc EXCEPT ![j] = "incrementing"]
         \/ pc[j] = "incrementing" /\ pc' = [pc EXCEPT ![j] = "counting"]
  BY DEF Count, L!Increment, L!UpdateItemDoneBegin, pipe, workers, Processing, Wd
<1>2. pc \in [Items -> L!Stage]
  BY DEF Known, L!TypeOK
<1>3. ASSUME NEW i \in Items PROVE HoldInv(i)'
  <2>1. HoldInv(i)
    BY DEF HoldAll
  <2>2. /\ Fd(i)' = Fd(i) /\ Hd(i)' = Hd(i) /\ Qd(i)' = Qd(i) /\ Wd(i)' = Wd(i)
        /\ Skipping(i)' = Skipping(i)
    BY <1>1 DEF Fd, Hd, Qd, Wd, Skipping
  <2>3. CASE i = j
    BY <1>1, <1>2, <2>1, <2>2, <2>3 DEF HoldInv
  <2>4. CASE i # j
    <3>1. pc'[i] = pc[i]
      BY <1>1, <1>2, <2>4
    <3>. QED
      BY <2>1, <2>2, <3>1 DEF HoldInv
  <2>. QED
    BY <2>3, <2>4
<1>4. QueueOnce' /\ WorkOnce'
  BY <1>1 DEF HoldAll, QueueOnce, WorkOnce
<1>. QED
  BY <1>3, <1>4 DEF HoldAll

(* The end of an increment takes the item from its worker, or its feeder,  *)
(* and nobody else has it (api.go:157-173).                                *)
LEMMA HoldCountEnd ==
    ASSUME Known, HoldAll, NEW j \in Items, CountEnd(j)
    PROVE  HoldAll'
<1> DEFINE t == TaskOf[j]
<1>1. /\ pc[j] = "counting" /\ pc' = [pc EXCEPT ![j] = "counted"]
      /\ feed' = IF Skipping(j) THEN NextPost(t) ELSE feed
      /\ work' = [w \in Workers |-> IF work[w] = j THEN NoItem ELSE work[w]]
      /\ UNCHANGED <<hand, q>>
  BY DEF CountEnd, L!UpdateItemDoneEnd
<1>2. /\ t \in Tasks /\ j # NoItem /\ feed \in [Tasks -> Feeder] /\ pc \in [Items -> L!Stage]
  BY ScrapperAssumption DEF Known, PipeInv, FeedInv, L!TypeOK
<1>3. \A u \in Tasks : feed'[u] = feed[u] \/ (u = t /\ Skipping(j) /\ feed'[u].cur = NoItem)
  BY <1>1, <1>2 DEF NextPost, Feeder
<1>4. HoldInv(j) /\ (Skipping(j) \/ Wd(j)) /\ (Skipping(j) => Fd(j))
  BY <1>1 DEF HoldAll, HoldInv, Skipping, Fd
<1>5. ASSUME NEW i \in Items PROVE HoldInv(i)'
  <2>1. HoldInv(i) /\ i # NoItem /\ TaskOf[i] \in Tasks
    BY ScrapperAssumption DEF HoldAll
  <2>2. Hd(i)' = Hd(i) /\ Qd(i)' = Qd(i)
    BY <1>1 DEF Hd, Qd
  <2>3. CASE i = j
    <3>1. ~Wd(i)' /\ pc'[i] = "counted"
      BY <1>1, <1>2, <2>3 DEF Wd
    <3>2. ~Fd(i)'
      <4>1. CASE Skipping(j)
        <5>1. feed'[t].cur = NoItem
          BY <1>1, <1>2, <4>1 DEF NextPost, Feeder
        <5>. QED
          BY <1>2, <2>3, <5>1 DEF Fd
      <4>2. CASE ~Skipping(j)
        <5>1. ~Fd(j) /\ feed' = feed
          BY <1>1, <1>4, <4>2 DEF HoldInv
        <5>. QED
          BY <2>3, <5>1 DEF Fd
      <4>. QED
        BY <4>1, <4>2
    <3>. QED
      BY <1>4, <2>2, <2>3, <3>1, <3>2 DEF HoldInv
  <2>4. CASE i # j
    <3>1. Wd(i)' = Wd(i) /\ pc'[i] = pc[i]
      BY <1>1, <1>2, <2>1, <2>4 DEF Wd
    <3>2. Fd(i)' = Fd(i) /\ (Skipping(i) => Skipping(i)')
      <4>1. CASE feed'[TaskOf[i]] = feed[TaskOf[i]]
        BY <4>1 DEF Fd, Skipping
      <4>2. CASE TaskOf[i] = t /\ Skipping(j) /\ feed'[TaskOf[i]].cur = NoItem
        BY <2>1, <2>4, <4>2 DEF Fd, Skipping
      <4>. QED
        BY <1>3, <2>1, <4>1, <4>2
    <3>. QED
      BY <2>1, <2>2, <3>1, <3>2 DEF HoldInv
  <2>. QED
    BY <2>3, <2>4
<1>6. QueueOnce'
  BY <1>1 DEF HoldAll, QueueOnce
<1>7. WorkOnce'
  BY <1>1 DEF HoldAll, WorkOnce
<1>. QED
  BY <1>5, <1>6, <1>7 DEF HoldAll

(* Every step keeps each item in at most one place, and in one as long as  *)
(* it is reported and not counted.                                         *)
LEMMA HoldStep == Known /\ HoldAll /\ [Next]_vars => HoldAll'
<1> SUFFICES ASSUME Known, HoldAll, [Next]_vars PROVE HoldAll'
  OBVIOUS
<1>0. /\ feed \in [Tasks -> Feeder] /\ Job \in Tasks
      /\ CurInv /\ SubmitInv /\ MainInv
  BY JobIsTask DEF Known, PipeInv, FeedInv
<1>1. ASSUME UNCHANGED <<hand, q, work, pc, feed>> PROVE HoldAll'
  BY <1>1, HoldSame
<1>2. ASSUME MainStep PROVE HoldAll'
  <2>1. UNCHANGED pc
    BY <1>2 DEF MainStep, StoreTask, IndexBegin, IndexEnd, MainWait, CloseTaskQ, ledger,
                L!SubmitJob, L!WaitOnId, L!WaitStep, L!CheckJob, L!Wake, L!Deadline
  <2>2. UNCHANGED <<feed, pipe>>
    BY <1>2 DEF MainStep, StoreTask, IndexBegin, IndexEnd, MainWait, CloseTaskQ
  <2>. QED
    BY <1>1, <2>1, <2>2 DEF pipe, workers
<1>3. ASSUME NEW w \in Subs, TaskSend(w) PROVE HoldAll'
  <2>1. feed[Job].pc = "none"
    BY <1>0, <1>3, ScrapperAssumption DEF TaskSend, SubmitInv, MainInv, Job
  <2>2. \A t \in Tasks : feed'[t] = feed[t]
                         \/ (feed'[t].cur = feed[t].cur /\ feed[t].pc # "skip")
    BY <1>0, <1>3, <2>1 DEF TaskSend, Feeder
  <2>3. UNCHANGED <<hand, q, work, pc>>
    BY <1>3 DEF TaskSend, ledger, pipe, workers
  <2>. QED
    BY <2>2, <2>3, HoldSame
<1>4. ASSUME NEW w \in Subs, Scrape(w) PROVE HoldAll'
  <2>1. \A t \in Tasks : feed'[t] = feed[t]
                         \/ (feed'[t].cur = feed[t].cur /\ feed[t].pc # "skip")
    BY <1>0, <1>4 DEF Scrape, Feeder
  <2>2. UNCHANGED <<hand, q, work, pc>>
    BY <1>4 DEF Scrape, ledger, pipe, workers
  <2>. QED
    BY <2>1, <2>2, HoldSame
<1>5. ASSUME NEW t \in Tasks, FilterStores(t) \/ FeedEnd(t) PROVE HoldAll'
  <2>1. /\ feed' = feed \/ \E where \in {"send", "skip", "ended"} :
                             feed' = [feed EXCEPT ![t].pc = where]
        /\ feed[t].pc # "skip"
    BY <1>5 DEF FilterStores, FeedEnd
  <2>3. \A u \in Tasks : feed'[u] = feed[u]
                         \/ (feed'[u].cur = feed[u].cur /\ feed[u].pc # "skip")
    BY <1>0, <2>1 DEF Feeder
  <2>2. UNCHANGED <<hand, q, work, pc>>
    BY <1>5 DEF FilterStores, FeedEnd, ledger, pipe, workers
  <2>. QED
    BY <2>2, <2>3, HoldSame
<1>6. ASSUME NEW t \in Tasks, FeedStep(t) PROVE HoldAll'
  <2>1. SendOnClosed(t) => HoldAll'
    BY <1>1 DEF SendOnClosed, ledger, pipe, workers
  <2>. QED
    BY <1>5, <1>6, <2>1, HoldFeedNext, HoldFeedList, HoldItemSend DEF FeedStep
<1>7. ASSUME NEW i \in Items, CountStep(i) PROVE HoldAll'
  BY <1>7, HoldCount, HoldCountEnd DEF CountStep
<1>8. ASSUME \/ UNCHANGED vars \/ StartLeavesLoop \/ SwgWait
             \/ \E w \in Workers : AddWorker(w) \/ WorkerExit(w)
             \/ \E w \in Subs : TopicClosed(w)
      PROVE  HoldAll'
  <2>1. UNCHANGED <<hand, q, work, pc, feed>>
    BY <1>8 DEF vars, ledger, pipe, workers, StartLeavesLoop, SwgWait, AddWorker, WorkerExit,
                TopicClosed
  <2>. QED
    BY <1>1, <2>1
<1>. QED
  BY <1>2, <1>3, <1>4, <1>6, <1>7, <1>8, HoldDispatch, HoldReceive
     DEF Next, SubStep, StartStep, WorkStep

(* One place at most, in terms of the set of places: a set that is empty   *)
(* or has one element.                                                     *)
LEMMA HoldImplies ==
    ASSUME MainInv, FeedInv, CurInv, RestTyped, HoldAll
    PROVE  HeldOnce
<1> SUFFICES ASSUME NEW i \in Items
             PROVE  Cardinality(HeldAt(i)) = IF pc[i] \in {"post", "counted"} THEN 0 ELSE 1
  BY DEF HeldOnce
<1>0. /\ HoldInv(i) /\ QueueOnce /\ WorkOnce /\ i # NoItem /\ TaskOf[i] \in Tasks
  BY ScrapperAssumption DEF HoldAll
<1> DEFINE F == { <<"feeder", t>> : t \in {t \in Tasks : feed[t].cur = i} }
           H == { <<"hand", 0>> : x \in {x \in {hand} : x = i} }
           Q == UNION { { <<k, n>> : n \in {n \in DOMAIN q[k] : q[k][n] = i} } : k \in Kinds }
           W == { <<"worker", w>> : w \in {w \in Workers : work[w] = i} }
<1>1. HeldAt(i) = F \cup H \cup Q \cup W
  BY DEF HeldAt
<1>2. F = IF Fd(i) THEN {<<"feeder", TaskOf[i]>>} ELSE {}
  <2>1. ASSUME NEW t \in Tasks, feed[t].cur = i PROVE t = TaskOf[i]
    <3>1. feed[t].pc \in Busy
      BY <1>0, <2>1 DEF CurInv
    <3>. QED
      BY <2>1, <3>1 DEF FeedInv, Busy, L!ItemsOf
  <2>. QED
    BY <1>0, <2>1 DEF Fd
<1>3. H = IF Hd(i) THEN {<<"hand", 0>>} ELSE {}
  BY DEF Hd
<1>4. IF Qd(i) THEN \E x : Q = {x} ELSE Q = {}
  <2>1. CASE Qd(i)
    <3>1. PICK k \in Kinds : \E n \in DOMAIN q[k] : q[k][n] = i
      BY <2>1 DEF Qd
    <3>2. PICK n \in DOMAIN q[k] : q[k][n] = i
      BY <3>1
    <3>3. Q = {<<k, n>>}
      BY <1>0, <3>2 DEF QueueOnce
    <3>. QED
      BY <2>1, <3>3
  <2>2. CASE ~Qd(i)
    BY <2>2 DEF Qd
  <2>. QED
    BY <2>1, <2>2
<1>5. IF Wd(i) THEN \E x : W = {x} ELSE W = {}
  <2>1. CASE Wd(i)
    <3>1. PICK w \in Workers : work[w] = i
      BY <2>1 DEF Wd
    <3>2. W = {<<"worker", w>>}
      BY <1>0, <3>1 DEF WorkOnce
    <3>. QED
      BY <2>1, <3>2
  <2>2. CASE ~Wd(i)
    BY <2>2 DEF Wd
  <2>. QED
    BY <2>1, <2>2
<1> HIDE DEF F, H, Q, W
<1>6. IF pc[i] \in {"post", "counted"} THEN HeldAt(i) = {} ELSE \E x : HeldAt(i) = {x}
  BY <1>0, <1>1, <1>2, <1>3, <1>4, <1>5 DEF HoldInv
<1>. QED
  BY <1>6, FS_EmptySet, FS_Singleton

(* An item that has been reported and not yet counted is held by exactly   *)
(* one goroutine or queue slot, any other by none: none is dropped between *)
(* two channels or processed twice (scrapperV1.go:171-209, 268-289).       *)
THEOREM HeldOnceCorrect == Spec => []HeldOnce
<1>1. Init => HoldAll
  BY HoldInit
<1>2. Spec => [](PipeInv /\ CurInv /\ SubmitInv /\ RestTyped)
  BY PipeInit, PipeStep, RestInit, RestStep, CurInit, CurStep, PTL DEF Spec
<1>3. PipeInv /\ CurInv /\ RestTyped /\ HoldAll => HeldOnce
  BY HoldImplies DEF PipeInv
<1>4. Spec => []Known
  BY <1>2, RecordTyped, PTL DEF Known
<1>. QED
  BY <1>1, <1>2, <1>3, <1>4, HoldStep, PTL DEF Spec
-----------------------------------------------------------------------------
(* The feeder has reported item i.                                         *)
Reported(i) == \E a \in DOMAIN vI[TaskOf[i]] : vI[TaskOf[i]][a] = i

(* Of two items of a task on their way, the one ahead was reported first:  *)
(* within a queue, from a queue to Start, from either to the feeder.       *)
Reports    == \A i \in Items : pc[i] # "post" => Reported(i)
InQueue    == \A t \in Tasks, k \in Kinds : \A m, n \in DOMAIN q[k] :
                  m < n /\ TaskOf[q[k][m]] = t /\ TaskOf[q[k][n]] = t
                      => ReportedBefore(t, q[k][m], q[k][n])
ToHand     == \A t \in Tasks, k \in Kinds : \A m \in DOMAIN q[k] :
                  TaskOf[q[k][m]] = t /\ hand # NoItem /\ TaskOf[hand] = t
                      => ReportedBefore(t, q[k][m], hand)
ToFeeder   == \A t \in Tasks, k \in Kinds : \A m \in DOMAIN q[k] :
                  TaskOf[q[k][m]] = t /\ feed[t].cur # NoItem
                      => ReportedBefore(t, q[k][m], feed[t].cur)
FromHand   == \A t \in Tasks : hand # NoItem /\ TaskOf[hand] = t /\ feed[t].cur # NoItem
                      => ReportedBefore(t, hand, feed[t].cur)

OrderInv == Reports /\ InQueue /\ ToHand /\ ToFeeder /\ FromHand

(* A report is added at the end, behind each earlier one.                  *)
LEMMA ReportAppends ==
    ASSUME vI \in [Tasks -> Seq(Items)], NEW u \in Tasks, NEW j \in Items,
           vI' = [vI EXCEPT ![u] = Append(@, j)]
    PROVE  /\ \A t \in Tasks : \A x, y :
                ReportedBefore(t, x, y) => ReportedBefore(t, x, y)'
           /\ \A i \in Items : TaskOf[i] \in Tasks /\ Reported(i) => Reported(i)'
           /\ \A i \in Items : TaskOf[i] = u /\ Reported(i) => ReportedBefore(u, i, j)'
           /\ TaskOf[j] = u => Reported(j)'
<1>1. /\ vI[u] \in Seq(Items) /\ vI'[u] = Append(vI[u], j)
      /\ \A t \in Tasks \ {u} : vI'[t] = vI[t]
  OBVIOUS
<1>2. /\ DOMAIN vI'[u] = 1 .. Len(vI[u]) + 1 /\ vI'[u][Len(vI[u]) + 1] = j
      /\ \A n \in 1 .. Len(vI[u]) : vI'[u][n] = vI[u][n]
      /\ DOMAIN vI[u] = 1 .. Len(vI[u]) /\ Len(vI[u]) \in Nat
  BY <1>1, Appended
<1>3. ASSUME NEW t \in Tasks PROVE /\ DOMAIN vI[t] \subseteq DOMAIN vI'[t]
                                   /\ \A n \in DOMAIN vI[t] : vI'[t][n] = vI[t][n]
  BY <1>1, <1>2
<1>4. \A t \in Tasks : \A x, y : ReportedBefore(t, x, y) => ReportedBefore(t, x, y)'
  BY <1>3 DEF ReportedBefore
<1>5. \A i \in Items : TaskOf[i] \in Tasks /\ Reported(i) => Reported(i)'
  BY <1>3 DEF Reported
<1>6. ASSUME NEW i \in Items, TaskOf[i] = u, Reported(i) PROVE ReportedBefore(u, i, j)'
  <2>1. PICK a \in DOMAIN vI[u] : vI[u][a] = i
    BY <1>6 DEF Reported
  <2>2. /\ a \in DOMAIN vI'[u] /\ Len(vI[u]) + 1 \in DOMAIN vI'[u] /\ a < Len(vI[u]) + 1
        /\ vI'[u][a] = i /\ vI'[u][Len(vI[u]) + 1] = j
    BY <1>2, <2>1
  <2>. QED
    BY <2>2 DEF ReportedBefore
<1>7. TaskOf[j] = u => Reported(j)'
  <2>1. Len(vI[u]) + 1 \in DOMAIN vI'[u]
    BY <1>2
  <2>. QED
    BY <1>2, <2>1 DEF Reported
<1>. QED
  BY <1>4, <1>5, <1>6, <1>7

(* No step but a report writes the reports, and a report leaves the items  *)
(* on their way where they are (scrapperV1.go:171-198).                    *)
LEMMA OrderSame ==
    ASSUME OrderInv, UNCHANGED <<hand, q, vI>>,
           \A i \in Items : pc[i] = "post" => pc'[i] = "post",
           \A t \in Tasks : feed'[t].cur = feed[t].cur \/ feed'[t].cur = NoItem
    PROVE  OrderInv'
<1>1. /\ \A t \in Tasks : \A x, y : ReportedBefore(t, x, y) <=> ReportedBefore(t, x, y)'
      /\ \A i \in Items : Reported(i) <=> Reported(i)'
  BY DEF ReportedBefore, Reported
<1>. QED
  BY <1>1 DEF OrderInv, Reports, InQueue, ToHand, ToFeeder, FromHand

(* A feeder takes its next post: it is reported behind all it has reported *)
(* before.                                                                 *)
LEMMA OrderFeedNext ==
    ASSUME Known, HoldAll, OrderInv, NEW u \in Tasks, FeedNext(u)
    PROVE  OrderInv'
<1>1. PICK j \in feed[u].left :
        /\ pc[j] = "post" /\ pc' = [pc EXCEPT ![j] = "listing"]
        /\ vI' = [vI EXCEPT ![TaskOf[j]] = Append(@, j)]
        /\ feed' = [feed EXCEPT ![u].pc = "list", ![u].cur = j, ![u].left = @ \ {j}]
  BY DEF FeedNext, L!UpdateTaskBegin
<1>2. j \in Items /\ TaskOf[j] = u /\ feed[u] \in Feeder /\ feed \in [Tasks -> Feeder]
  BY DEF Known, PipeInv, FeedInv, L!ItemsOf
<1>3. UNCHANGED <<hand, q>> /\ vI \in [Tasks -> Seq(Items)] /\ pc \in [Items -> L!Stage]
      /\ hand \in Items \cup {NoItem} /\ q \in [Kinds -> Seq(Items)]
  BY DEF FeedNext, pipe, Known, L!TypeOK, RestTyped
<1>4. feed'[u].cur = j /\ \A t \in Tasks \ {u} : feed'[t] = feed[t]
  BY <1>1, <1>2 DEF Feeder
<1>5. /\ \A t \in Tasks : \A x, y : ReportedBefore(t, x, y) => ReportedBefore(t, x, y)'
      /\ \A i \in Items : TaskOf[i] \in Tasks /\ Reported(i) => Reported(i)'
      /\ \A i \in Items : TaskOf[i] = u /\ Reported(i) => ReportedBefore(u, i, j)'
      /\ Reported(j)'
  BY <1>1, <1>2, <1>3, ReportAppends
<1>6. \A i \in Items : TaskOf[i] \in Tasks /\ pc'[i] # "post" => Reported(i)'
  BY <1>1, <1>3, <1>5 DEF OrderInv, Reports, InQueue, ToHand, ToFeeder, FromHand
<1>7. ASSUME NEW i \in Items, Hd(i) \/ Qd(i) PROVE Reported(i)
  BY <1>7 DEF HoldAll, HoldInv, OrderInv, Reports
<1>8. ASSUME NEW k \in Kinds, NEW m \in DOMAIN q[k] PROVE q[k][m] \in Items /\ Reported(q[k][m])
  <2>1. q[k][m] \in Items
    BY <1>3
  <2>. QED
    BY <1>7, <2>1 DEF Qd
<1>9. hand # NoItem => hand \in Items /\ Reported(hand)
  BY <1>3, <1>7 DEF Hd
<1>10. \A i \in Items : TaskOf[i] \in Tasks
  BY ScrapperAssumption
<1>11. Reports'
  BY <1>6, <1>10 DEF Reports
<1>12. InQueue' /\ ToHand'
  BY <1>3, <1>5 DEF OrderInv, InQueue, ToHand
<1>13. ToFeeder'
  <2> SUFFICES ASSUME NEW t \in Tasks, NEW k \in Kinds, NEW m \in DOMAIN q[k],
                      NEW x, NEW y, x = q[k][m], y = feed'[t].cur,
                      TaskOf[x] = t, y # NoItem
               PROVE  ReportedBefore(t, x, y)'
    BY <1>3 DEF ToFeeder
  <2>1. CASE t = u
    BY <1>4, <1>5, <1>8, <2>1
  <2>2. CASE t # u
    BY <1>4, <1>5, <2>2 DEF OrderInv, ToFeeder
  <2>. QED
    BY <2>1, <2>2
<1>14. FromHand'
  <2> SUFFICES ASSUME NEW t \in Tasks, NEW x, NEW y, x = hand, y = feed'[t].cur,
                      x # NoItem, TaskOf[x] = t, y # NoItem
               PROVE  ReportedBefore(t, x, y)'
    BY <1>3 DEF FromHand
  <2>1. CASE t = u
    BY <1>4, <1>5, <1>9, <2>1
  <2>2. CASE t # u
    BY <1>4, <1>5, <2>2 DEF OrderInv, FromHand
  <2>. QED
    BY <2>1, <2>2
<1>. QED
  BY <1>11, <1>12, <1>13, <1>14 DEF OrderInv

(* ItemQ hands over the newest item of its task to Start.                  *)
LEMMA OrderItemSend ==
    ASSUME Known, OrderInv, NEW u \in Tasks, ItemSend(u)
    PROVE  OrderInv'
<1>1. /\ feed[u].pc = "send" /\ hand' = feed[u].cur
      /\ feed' = [feed EXCEPT ![u].pc = "next", ![u].cur = NoItem]
      /\ UNCHANGED <<q, vI, pc>>
  BY DEF ItemSend, NextPost, ledger
<1>2. TaskOf[feed[u].cur] = u /\ feed[u].cur # NoItem /\ feed \in [Tasks -> Feeder]
  BY <1>1, ScrapperAssumption DEF Known, PipeInv, FeedInv, L!ItemsOf
<1>3. feed'[u].cur = NoItem /\ \A t \in Tasks \ {u} : feed'[t] = feed[t]
  BY <1>1, <1>2 DEF Feeder
<1>4. /\ \A t \in Tasks : \A x, y : ReportedBefore(t, x, y) <=> ReportedBefore(t, x, y)'
      /\ \A i \in Items : Reported(i) <=> Reported(i)'
  BY <1>1 DEF ReportedBefore, Reported
<1>. QED
  BY <1>1, <1>2, <1>3, <1>4 DEF OrderInv, Reports, InQueue, ToHand, ToFeeder, FromHand

(* Start puts the newest item at the end of a queue.                       *)
LEMMA OrderDispatch == Known /\ OrderInv /\ Dispatch => OrderInv'
<1> SUFFICES ASSUME Known, OrderInv, Dispatch PROVE OrderInv'
  OBVIOUS
<1> DEFINE k == TypeOf[hand]
           m == Len(q[k]) + 1
<1>1. /\ hand \in Items /\ hand # NoItem /\ k \in Kinds /\ q \in [Kinds -> Seq(Items)]
      /\ q' = [q EXCEPT ![k] = Append(@, hand)] /\ hand' = NoItem
      /\ UNCHANGED <<feed, vI, pc>>
  BY ScrapperAssumption DEF Dispatch, Queued, Known, RestTyped, ledger
<1>2. /\ q'[k] = Append(q[k], hand) /\ \A h \in Kinds \ {k} : q'[h] = q[h]
      /\ q[k] \in Seq(Items)
  BY <1>1
<1>3. /\ DOMAIN q'[k] = 1 .. m /\ m \in Nat /\ q'[k][m] = hand
      /\ DOMAIN q[k] = 1 .. m - 1 /\ \A n \in 1 .. m - 1 : q'[k][n] = q[k][n]
  <2>1. /\ DOMAIN Append(q[k], hand) = 1 .. Len(q[k]) + 1
        /\ \A n \in 1 .. Len(q[k]) : Append(q[k], hand)[n] = q[k][n]
        /\ Append(q[k], hand)[Len(q[k]) + 1] = hand
        /\ DOMAIN q[k] = 1 .. Len(q[k]) /\ Len(q[k]) \in Nat
    BY <1>2, Appended
  <2>. QED
    BY <1>2, <2>1
<1> HIDE DEF k, m
<1>4. /\ \A t \in Tasks : \A x, y : ReportedBefore(t, x, y) <=> ReportedBefore(t, x, y)'
      /\ \A i \in Items : Reported(i) <=> Reported(i)'
  BY <1>1 DEF ReportedBefore, Reported
<1>5. ASSUME NEW h \in Kinds, NEW a \in DOMAIN q'[h]
      PROVE  \/ a \in DOMAIN q[h] /\ q'[h][a] = q[h][a]
             \/ h = k /\ a = m /\ q'[h][a] = hand
  <2>1. CASE h = k
    <3>1. a \in 1 .. m - 1 \/ a = m
      BY <1>3, <2>1
    <3>. QED
      BY <1>3, <2>1, <3>1
  <2>. QED
    BY <1>2, <2>1
<1>6. ASSUME NEW t \in Tasks, NEW h \in Kinds, NEW a \in DOMAIN q'[h], NEW b \in DOMAIN q'[h],
             a < b, TaskOf[q'[h][a]] = t, TaskOf[q'[h][b]] = t
      PROVE  ReportedBefore(t, q'[h][a], q'[h][b])
  <2>1. CASE b \in DOMAIN q[h] /\ q'[h][b] = q[h][b]
    <3>1. a \in DOMAIN q[h] /\ q'[h][a] = q[h][a]
      BY <1>3, <1>5, <1>6, <2>1
    <3>. QED
      BY <1>6, <2>1, <3>1 DEF OrderInv, Reports, InQueue, ToHand, ToFeeder, FromHand
  <2>2. CASE h = k /\ b = m /\ q'[h][b] = hand
    <3>1. a \in DOMAIN q[h] /\ q'[h][a] = q[h][a]
      <4>1. a \in 1 .. m /\ a < m
        BY <1>3, <1>6, <2>2
      <4>2. a \in 1 .. m - 1
        BY <1>3, <4>1
      <4>. QED
        BY <1>3, <2>2, <4>2
    <3>. QED
      BY <1>1, <1>6, <2>2, <3>1 DEF OrderInv, Reports, InQueue, ToHand, ToFeeder, FromHand
  <2>. QED
    BY <1>5, <2>1, <2>2
<1>7. ASSUME NEW t \in Tasks, NEW h \in Kinds, NEW a \in DOMAIN q'[h], TaskOf[q'[h][a]] = t,
             feed[t].cur # NoItem
      PROVE  ReportedBefore(t, q'[h][a], feed[t].cur)
  BY <1>1, <1>5, <1>7 DEF OrderInv, Reports, InQueue, ToHand, ToFeeder, FromHand
<1>. QED
  BY <1>1, <1>4, <1>6, <1>7 DEF OrderInv, Reports, InQueue, ToHand, ToFeeder, FromHand

(* A queue worker takes the oldest item of its queue.                      *)
LEMMA OrderReceive ==
    ASSUME Known, OrderInv, NEW v \in Workers, Receive(v)
    PROVE  OrderInv'
<1> DEFINE k == QueueOf[v]
           m == Len(q[k])
<1>1. /\ k \in Kinds /\ q \in [Kinds -> Seq(Items)] /\ q[k] # <<>>
      /\ q' = [q EXCEPT ![k] = Tail(@)] /\ UNCHANGED <<feed, hand, vI, pc>>
  BY ScrapperAssumption DEF Receive, Known, RestTyped, ledger
<1>2. q'[k] = Tail(q[k]) /\ (\A h \in Kinds \ {k} : q'[h] = q[h]) /\ q[k] \in Seq(Items)
  BY <1>1
<1>3. /\ DOMAIN q'[k] = 1 .. m - 1 /\ m \in Nat /\ DOMAIN q[k] = 1 .. m
      /\ \A n \in 1 .. m - 1 : q'[k][n] = q[k][n + 1]
  BY <1>1, <1>2, Taken
<1> HIDE DEF k, m
<1>4. /\ \A t \in Tasks : \A x, y : ReportedBefore(t, x, y) <=> ReportedBefore(t, x, y)'
      /\ \A i \in Items : Reported(i) <=> Reported(i)'
  BY <1>1 DEF ReportedBefore, Reported
<1>5. ASSUME NEW h \in Kinds, NEW a \in DOMAIN q'[h]
      PROVE  \E c \in DOMAIN q[h] : q'[h][a] = q[h][c] /\ c = (IF h = k THEN a + 1 ELSE a)
  <2>1. CASE h = k
    <3>1. a \in 1 .. m - 1 /\ a + 1 \in 1 .. m
      BY <1>3, <2>1
    <3>. QED
      BY <1>3, <2>1, <3>1
  <2>. QED
    BY <1>2, <2>1
<1>6. ASSUME NEW t \in Tasks, NEW h \in Kinds, NEW a \in DOMAIN q'[h], NEW b \in DOMAIN q'[h],
             a < b, TaskOf[q'[h][a]] = t, TaskOf[q'[h][b]] = t
      PROVE  ReportedBefore(t, q'[h][a], q'[h][b])
  <2>1. PICK c \in DOMAIN q[h] : q'[h][a] = q[h][c] /\ c = (IF h = k THEN a + 1 ELSE a)
    BY <1>5
  <2>2. PICK d \in DOMAIN q[h] : q'[h][b] = q[h][d] /\ d = (IF h = k THEN b + 1 ELSE b)
    BY <1>5
  <2>3. c < d
    <3>1. h = k => a \in Nat /\ b \in Nat
      BY <1>3
    <3>. QED
      BY <1>6, <2>1, <2>2, <3>1
  <2>. QED
    BY <1>6, <2>1, <2>2, <2>3 DEF OrderInv, Reports, InQueue, ToHand, ToFeeder, FromHand
<1>7. ASSUME NEW t \in Tasks, NEW h \in Kinds, NEW a \in DOMAIN q'[h], TaskOf[q'[h][a]] = t
      PROVE  /\ hand # NoItem /\ TaskOf[hand] = t => ReportedBefore(t, q'[h][a], hand)
             /\ feed[t].cur # NoItem => ReportedBefore(t, q'[h][a], feed[t].cur)
  <2>1. PICK c \in DOMAIN q[h] : q'[h][a] = q[h][c]
    BY <1>5
  <2>. QED
    BY <1>7, <2>1 DEF OrderInv, Reports, InQueue, ToHand, ToFeeder, FromHand
<1>. QED
  BY <1>1, <1>4, <1>6, <1>7 DEF OrderInv, Reports, InQueue, ToHand, ToFeeder, FromHand

(* Every step keeps the items of a task on their way in the order of their *)
(* reports (scrapperV1.go:157-237,268-289).                                *)
LEMMA OrderStep == Known /\ HoldAll /\ OrderInv /\ [Next]_vars => OrderInv'
<1> SUFFICES ASSUME Known, HoldAll, OrderInv, [Next]_vars PROVE OrderInv'
  OBVIOUS
<1>0. /\ feed \in [Tasks -> Feeder] /\ Job \in Tasks /\ pc \in [Items -> L!Stage]
  BY JobIsTask DEF Known, PipeInv, FeedInv, L!TypeOK
<1>1. ASSUME UNCHANGED <<hand, q, vI, pc, feed>> PROVE OrderInv'
  BY <1>1, OrderSame
<1>2. ASSUME MainStep PROVE OrderInv'
  <2>1. UNCHANGED <<pc, vI>>
    BY <1>2 DEF MainStep, StoreTask, IndexBegin, IndexEnd, MainWait, CloseTaskQ, ledger,
                L!SubmitJob, L!WaitOnId, L!WaitStep, L!CheckJob, L!Wake, L!Deadline
  <2>2. UNCHANGED <<feed, pipe>>
    BY <1>2 DEF MainStep, StoreTask, IndexBegin, IndexEnd, MainWait, CloseTaskQ
  <2>. QED
    BY <1>1, <2>1, <2>2 DEF pipe
<1>3. ASSUME NEW w \in Subs, TaskSend(w) \/ Scrape(w) PROVE OrderInv'
  <2>1. \A t \in Tasks : feed'[t].cur = feed[t].cur
    <3>1. CASE TaskSend(w)
      BY <1>0, <3>1 DEF TaskSend, Feeder
    <3>2. CASE Scrape(w)
      BY <1>0, <3>2 DEF Scrape, Feeder
    <3>. QED
      BY <1>3, <3>1, <3>2
  <2>2. UNCHANGED <<hand, q, vI, pc>>
    BY <1>3 DEF TaskSend, Scrape, ledger, pipe
  <2>. QED
    BY <2>1, <2>2, OrderSame
<1>4. ASSUME NEW t \in Tasks, FilterStores(t) \/ FeedEnd(t) \/ SendOnClosed(t) PROVE OrderInv'
  <2>1. feed' = feed \/ \E where \in {"send", "skip", "ended"} :
                             feed' = [feed EXCEPT ![t].pc = where]
    BY <1>4 DEF FilterStores, FeedEnd, SendOnClosed
  <2>2. \A u \in Tasks : feed'[u].cur = feed[u].cur
    BY <1>0, <2>1 DEF Feeder
  <2>3. UNCHANGED <<hand, q, vI, pc>>
    BY <1>4 DEF FilterStores, FeedEnd, SendOnClosed, ledger, pipe
  <2>. QED
    BY <2>2, <2>3, OrderSame
<1>5. ASSUME NEW t \in Tasks, FeedList(t) PROVE OrderInv'
  <2>1. /\ pc[feed[t].cur] = "listing" /\ pc' = [pc EXCEPT ![feed[t].cur] = "listed"]
        /\ feed' = [feed EXCEPT ![t].pc = "filter"] /\ UNCHANGED <<hand, q, vI>>
    BY <1>5 DEF FeedList, L!UpdateTaskEnd, pipe
  <2>2. \A u \in Tasks : feed'[u].cur = feed[u].cur
    BY <1>0, <2>1 DEF Feeder
  <2>3. \A i \in Items : pc[i] = "post" => pc'[i] = "post"
    BY <1>0, <2>1
  <2>. QED
    BY <2>1, <2>2, <2>3, OrderSame
<1>6. ASSUME NEW i \in Items, CountStep(i) PROVE OrderInv'
  <2>1. /\ UNCHANGED <<hand, q, vI>>
        /\ \/ pc[i] # "post" /\ \E s \in {"incrementing", "counting", "counted"} :
                pc' = [pc EXCEPT ![i] = s]
    BY <1>6 DEF CountStep, Count, CountEnd, L!Increment, L!UpdateItemDoneBegin,
                L!UpdateItemDoneEnd, pipe
  <2>2. feed' = feed \/ feed' = NextPost(TaskOf[i])
    BY <1>6 DEF CountStep, Count, CountEnd
  <2>3. \A u \in Tasks : feed'[u].cur = feed[u].cur \/ feed'[u].cur = NoItem
    BY <1>0, <2>2 DEF NextPost, Feeder
  <2>4. \A j \in Items : pc[j] = "post" => pc'[j] = "post"
    BY <1>0, <2>1
  <2>. QED
    BY <2>1, <2>3, <2>4, OrderSame
<1>7. ASSUME \/ UNCHANGED vars \/ StartLeavesLoop \/ SwgWait
             \/ \E w \in Workers : AddWorker(w) \/ WorkerExit(w)
             \/ \E w \in Subs : TopicClosed(w)
      PROVE  OrderInv'
  <2>1. UNCHANGED <<hand, q, vI, pc, feed>>
    BY <1>7 DEF vars, ledger, pipe, StartLeavesLoop, SwgWait, AddWorker, WorkerExit,
                TopicClosed
  <2>. QED
    BY <1>1, <2>1
<1>. QED
  BY <1>2, <1>3, <1>4, <1>5, <1>6, <1>7, OrderFeedNext, OrderItemSend, OrderDispatch,
     OrderReceive
     DEF Next, SubStep, FeedStep, StartStep, WorkStep

(* What is on its way for one task and type, seen as one line.             *)
LEMMA OrderImplies == RestTyped /\ OrderInv => OrderKept
<1> SUFFICES ASSUME RestTyped, OrderInv, NEW t \in Tasks, NEW k \in Kinds,
                    NEW m \in DOMAIN Flow(t, k), NEW n \in DOMAIN Flow(t, k), m < n,
                    OfFlow(Flow(t, k)[m], t, k), OfFlow(Flow(t, k)[n], t, k)
             PROVE  ReportedBefore(t, Flow(t, k)[m], Flow(t, k)[n])
  BY DEF OrderKept
<1> DEFINE s == q[k]
           z == Len(s)
<1>1. s \in Seq(Items) /\ z \in Nat /\ DOMAIN s = 1 .. z
  BY DEF RestTyped
<1>2. /\ DOMAIN Flow(t, k) = 1 .. z + 2
      /\ \A x \in 1 .. z : Flow(t, k)[x] = s[x]
      /\ Flow(t, k)[z + 1] = hand /\ Flow(t, k)[z + 2] = feed[t].cur
  <2>1. \A x, y : /\ DOMAIN (s \o <<x, y>>) = 1 .. z + 2
                  /\ \A p \in 1 .. z : (s \o <<x, y>>)[p] = s[p]
                  /\ (s \o <<x, y>>)[z + 1] = x /\ (s \o <<x, y>>)[z + 2] = y
    BY <1>1
  <2>. QED
    BY <2>1 DEF Flow
<1> HIDE DEF z
<1>3. CASE m \in 1 .. z /\ n \in 1 .. z
  BY <1>1, <1>2, <1>3 DEF OrderInv, InQueue, ToHand, ToFeeder, FromHand, OfFlow
<1>4. CASE m \in 1 .. z /\ n = z + 1
  BY <1>1, <1>2, <1>4 DEF OrderInv, InQueue, ToHand, ToFeeder, FromHand, OfFlow
<1>5. CASE m \in 1 .. z /\ n = z + 2
  BY <1>1, <1>2, <1>5 DEF OrderInv, InQueue, ToHand, ToFeeder, FromHand, OfFlow
<1>6. CASE m = z + 1 /\ n = z + 2
  BY <1>2, <1>6 DEF OrderInv, InQueue, ToHand, ToFeeder, FromHand, OfFlow
<1>. QED
  BY <1>1, <1>2, <1>3, <1>4, <1>5, <1>6
-----------------------------------------------------------------------------
(* A feeder that has been started belongs to a job main has sent, and to   *)
(* the topic worker that received it.                                      *)
Submitting == main.pc \in {"submit", "stored", "indexing", "send"}
StartedInv ==
    \A t \in Tasks : feed[t].pc # "none" =>
        /\ feed[t].by \in Subs
        /\ \E m \in 1 .. Len(Jobs) : Jobs[m] = t /\ (Submitting => m < main.n)

(* The map is being assigned to only while main is at it.                  *)
WritingInv == idx.writing => main.pc = "indexing"

(* With one topic worker: once it has closed ItemQ it is over, its feeders *)
(* are done, and no more are started as main has closed TaskQ.             *)
OneSub    == \A v, w \in Subs : v = w
ClosedInv ==
    OneSub => /\ itemq = "closed" => /\ main.pc = "closed"
                                     /\ \A w \in Subs : sub[w] = "exited"
                                     /\ \A t \in Tasks : feed[t].pc \in {"none", "ended"}
              /\ dead \notin {"close of closed channel", "send on closed channel"}

LateInv == StartedInv /\ WritingInv /\ RaceNeedsLaterJob /\ ClosedInv

(* At the start nothing is closed and nobody is started.                   *)
LEMMA LateInit == Init => LateInv
BY ScrapperAssumption
   DEF Init, LateInv, StartedInv, WritingInv, RaceNeedsLaterJob, ClosedInv, Idle

(* A step that leaves the feeders' stages, or ends one, and nothing else   *)
(* that matters here.                                                      *)
LEMMA LateSame ==
    ASSUME LateInv, UNCHANGED <<main, idx, sub, itemq, qopen, exited, dead>>,
           \A t \in Tasks : \/ feed'[t] = feed[t]
                            \/ /\ feed'[t].by = feed[t].by
                               /\ feed[t].pc \notin {"none", "ended"}
    PROVE  LateInv'
<1>1. StartedInv'
  BY DEF LateInv, StartedInv, Submitting
<1>2. ClosedInv'
  BY DEF LateInv, ClosedInv, OneSub
<1>. QED
  BY <1>1, <1>2 DEF LateInv, WritingInv, RaceNeedsLaterJob

(* Every step keeps the order in which the pipeline is started and closed  *)
(* (api.go:23-57, scrapperV1.go:157-290).                                  *)
LEMMA LateStep == PipeInv /\ RestTyped /\ LateInv /\ [Next]_vars => LateInv'
<1> SUFFICES ASSUME PipeInv, RestTyped, LateInv, [Next]_vars PROVE LateInv'
  OBVIOUS
<1>0. /\ feed \in [Tasks -> Feeder] /\ Job \in Tasks /\ MainInv
      /\ sub \in [Subs -> {"recv", "scrape", "exited"}]
      /\ StartedInv /\ WritingInv /\ RaceNeedsLaterJob /\ ClosedInv
  BY JobIsTask DEF PipeInv, FeedInv, RestTyped, LateInv
<1>1. CASE UNCHANGED vars
  BY <1>1, LateSame DEF vars, pipe, workers
<1>2. ASSUME Running, MainStep PROVE LateInv'
  <2>1. UNCHANGED <<sub, feed, pipe, dead>> /\ dead = "no"
    BY <1>2 DEF Running, MainStep, StoreTask, IndexBegin, IndexEnd, MainWait, CloseTaskQ
  <2>2. /\ Submitting' => Submitting /\ main'.n = main.n
        /\ main.pc = "closed" => FALSE
        /\ idx'.writing => main'.pc = "indexing"
    <3>1. CASE StoreTask
      BY <1>0, <3>1 DEF StoreTask, Submitting, MainInv, WritingInv
    <3>2. CASE IndexBegin \/ IndexEnd
      BY <1>0, <3>2 DEF IndexBegin, IndexEnd, Indexed, Submitting, MainInv
    <3>3. CASE MainWait \/ CloseTaskQ
      BY <1>0, <3>3 DEF MainWait, CloseTaskQ, Submitting, MainInv, WritingInv
    <3>. QED
      BY <1>2, <3>1, <3>2, <3>3 DEF MainStep
  <2>3. StartedInv'
    BY <1>0, <2>1, <2>2 DEF StartedInv
  <2>4. ClosedInv'
    BY <1>0, <2>1, <2>2 DEF ClosedInv, OneSub, pipe
  <2>5. WritingInv' /\ RaceNeedsLaterJob'
    BY <1>0, <2>1, <2>2 DEF WritingInv, RaceNeedsLaterJob, pipe, workers
  <2>. QED
    BY <2>3, <2>4, <2>5 DEF LateInv
<1>3. ASSUME NEW w \in Workers, AddWorker(w) PROVE LateInv'
  BY <1>0, <1>3
     DEF AddWorker, LateInv, StartedInv, Submitting, WritingInv, RaceNeedsLaterJob,
         ClosedInv, OneSub
<1>4. ASSUME StartStep PROVE LateInv'
  <2>1. CASE Dispatch
    BY <2>1, LateSame DEF Dispatch, workers
  <2>2. CASE StartLeavesLoop
    BY <1>0, <2>2
       DEF StartLeavesLoop, Closing, workers, LateInv, StartedInv, Submitting, WritingInv,
           RaceNeedsLaterJob, ClosedInv, OneSub
  <2>3. CASE SwgWait
    BY <1>0, <2>3
       DEF SwgWait, workers, LateInv, StartedInv, Submitting, WritingInv,
           RaceNeedsLaterJob, ClosedInv, OneSub
  <2>. QED
    BY <1>4, <2>1, <2>2, <2>3 DEF StartStep
<1>5. ASSUME NEW w \in Workers, WorkStep(w) PROVE LateInv'
  <2>1. CASE Receive(w)
    BY <2>1, LateSame DEF Receive
  <2>2. CASE WorkerExit(w)
    BY <1>0, <2>2
       DEF WorkerExit, LateInv, StartedInv, Submitting, WritingInv,
           RaceNeedsLaterJob, ClosedInv, OneSub
  <2>. QED
    BY <1>5, <2>1, <2>2 DEF WorkStep
<1>6. ASSUME Running, NEW w \in Subs, TaskSend(w) PROVE LateInv'
  <2>1. /\ main.pc = "send" /\ sub[w] = "recv" /\ main.n \in 1 .. Len(Jobs)
        /\ UNCHANGED <<idx, pipe, dead>> /\ dead = "no" /\ Jobs[main.n] = Job
    BY <1>0, <1>6 DEF TaskSend, Running, MainInv, Job
  <2>2. feed'[Job].by = w /\ \A t \in Tasks \ {Job} : feed'[t] = feed[t]
    BY <1>0, <1>6 DEF TaskSend, Feeder
  <2>3. \/ main' = [pc |-> "submit", n |-> main.n + 1]
        \/ main'.pc \in {"wait", "close"}
    BY <1>6, ScrapperAssumption DEF TaskSend, AfterJobs
  <2>4. Submitting' => main'.n = main.n + 1
    BY <2>3 DEF Submitting
  <2>5. StartedInv'
    <3> SUFFICES ASSUME NEW t \in Tasks, feed'[t].pc # "none"
                 PROVE  /\ feed'[t].by \in Subs
                        /\ \E m \in 1 .. Len(Jobs) :
                              Jobs[m] = t /\ (Submitting' => m < main'.n)
      BY DEF StartedInv
    <3>1. CASE t = Job
      <4>1. main.n < main.n + 1
        BY <2>1
      <4>. QED
        BY <2>1, <2>2, <2>4, <3>1, <4>1
    <3>2. CASE t # Job
      <4>1. feed[t].by \in Subs
        BY <1>0, <2>2, <3>2 DEF StartedInv
      <4>2. PICK m \in 1 .. Len(Jobs) : Jobs[m] = t /\ m < main.n
        BY <1>0, <2>1, <2>2, <3>2 DEF StartedInv, Submitting
      <4>3. m < main.n + 1
        BY <2>1, <4>2
      <4>. QED
        BY <2>2, <2>4, <3>2, <4>1, <4>2, <4>3
    <3>. QED
      BY <3>1, <3>2
  <2>6. ClosedInv'
    BY <1>0, <2>1 DEF ClosedInv, OneSub, pipe
  <2>7. WritingInv' /\ RaceNeedsLaterJob'
    BY <1>0, <2>1 DEF WritingInv, RaceNeedsLaterJob, pipe, workers
  <2>. QED
    BY <2>5, <2>6, <2>7 DEF LateInv
<1>7. ASSUME NEW w \in Subs, Scrape(w) PROVE LateInv'
  <2>1. PICK t \in Tasks :
          /\ sub[w] = "scrape" /\ feed[t].pc = "scraping"
          /\ \/ feed' = [feed EXCEPT ![t].pc = "ended"]
             \/ \E posts \in {{}, L!ItemsOf(t)} :
                   feed' = [feed EXCEPT ![t].pc = "next", ![t].left = posts]
    BY <1>7 DEF Scrape
  <2>2. /\ \A u \in Tasks : feed'[u].by = feed[u].by
        /\ \A u \in Tasks : feed[u].pc = "none" => feed'[u].pc = "none"
    <3>1. feed[t] \in Feeder
      BY <1>0
    <3>. QED
      BY <1>0, <2>1, <3>1 DEF Feeder
  <2>3. UNCHANGED <<main, idx, pipe, dead>>
    BY <1>7 DEF Scrape
  <2>4. StartedInv'
    BY <1>0, <2>2, <2>3 DEF StartedInv, Submitting
  <2>5. ClosedInv'
    BY <1>0, <2>1, <2>3 DEF ClosedInv, OneSub, pipe
  <2>6. WritingInv' /\ RaceNeedsLaterJob'
    BY <1>0, <2>3 DEF WritingInv, RaceNeedsLaterJob, pipe, workers
  <2>. QED
    BY <2>4, <2>5, <2>6 DEF LateInv
<1>8. ASSUME Running, NEW w \in Subs, TopicClosed(w) PROVE LateInv'
  <2>1. /\ main.pc = "closed" /\ sub[w] = "recv" /\ dead = "no"
        /\ \A t \in Tasks : feed[t].by = w => feed[t].pc = "ended"
        /\ sub' = [sub EXCEPT ![w] = "exited"]
        /\ dead' = IF itemq = "closed" THEN "close of closed channel" ELSE dead
        /\ UNCHANGED <<main, idx, feed, qopen, exited>>
    BY <1>8 DEF TopicClosed, Running, FeedersEnded, workers
  <2>2. ClosedInv'
    <3> SUFFICES ASSUME OneSub
                 PROVE  /\ \A v \in Subs : sub'[v] = "exited"
                        /\ \A t \in Tasks : feed[t].pc \in {"none", "ended"}
                        /\ dead' = "no"
      BY <2>1 DEF ClosedInv, OneSub
    <3>1. \A v \in Subs : v = w
      BY DEF OneSub
    <3>2. \A t \in Tasks : feed[t].pc \in {"none", "ended"}
      BY <1>0, <2>1, <3>1 DEF StartedInv
    <3>3. itemq # "closed"
      BY <1>0, <2>1 DEF ClosedInv
    <3>. QED
      BY <1>0, <2>1, <3>1, <3>2, <3>3
  <2>3. StartedInv' /\ WritingInv'
    BY <1>0, <2>1 DEF StartedInv, Submitting, WritingInv
  <2>4. RaceNeedsLaterJob'
    BY <2>1 DEF RaceNeedsLaterJob
  <2>. QED
    BY <2>2, <2>3, <2>4 DEF LateInv
<1>9. ASSUME Running, NEW t \in Tasks, FeedStep(t) PROVE LateInv'
  <2>1. ASSUME NEW r \in Feeder, r.by = feed[t].by, feed' = [feed EXCEPT ![t] = r],
               feed[t].pc \notin {"none", "ended"},
               UNCHANGED <<main, idx, sub, itemq, qopen, exited, dead>>
        PROVE  LateInv'
    BY <1>0, <2>1, LateSame
  <2>2. CASE FeedNext(t)
    <3>1. PICK i \in feed[t].left :
            feed' = [feed EXCEPT ![t].pc = "list", ![t].cur = i, ![t].left = @ \ {i}]
      BY <2>2 DEF FeedNext
    <3> DEFINE r == [feed[t] EXCEPT !.pc = "list", !.cur = i, !.left = @ \ {i}]
    <3>2. r \in Feeder /\ r.by = feed[t].by
      <4>1. feed[t] \in Feeder /\ i \in Items
        BY <1>0, <3>1 DEF PipeInv, FeedInv, L!ItemsOf
      <4>. QED
        BY <4>1 DEF Feeder
    <3>3. feed' = [feed EXCEPT ![t] = r]
      BY <3>1
    <3> HIDE DEF r
    <3>. QED
      BY <2>1, <2>2, <3>2, <3>3 DEF FeedNext, pipe, workers
  <2>3. ASSUME NEW where \in {"filter", "send", "skip", "ended"},
               feed' = [feed EXCEPT ![t].pc = where], feed[t].pc \notin {"none", "ended"},
               UNCHANGED <<main, idx, sub, itemq, qopen, exited, dead>>
        PROVE  LateInv'
    <3> DEFINE r == [feed[t] EXCEPT !.pc = where]
    <3>1. r \in Feeder /\ r.by = feed[t].by
      BY <1>0 DEF Feeder
    <3>2. feed' = [feed EXCEPT ![t] = r]
      BY <2>3
    <3> HIDE DEF r
    <3>. QED
      BY <2>1, <2>3, <3>1, <3>2
  <2>4. CASE FeedList(t) \/ FeedEnd(t)
    BY <2>3, <2>4 DEF FeedList, FeedEnd, pipe, workers
  <2>5. CASE FilterStores(t)
    <3>1. CASE dead' = dead
      <4>1. \E where \in {"send", "skip"} : feed' = [feed EXCEPT ![t].pc = where]
        BY <1>9, <2>5, <3>1 DEF FilterStores, Running
      <4>. QED
        BY <2>3, <2>5, <3>1, <4>1 DEF FilterStores, pipe, workers
    <3>2. CASE dead' # dead
      <4>1. /\ idx.writing /\ feed[t].pc = "filter" /\ UNCHANGED <<main, idx, sub, feed, pipe>>
            /\ dead' = "concurrent map read and map write"
        BY <2>5, <3>2 DEF FilterStores
      <4>2. main.n > 1
        <5>1. Submitting /\ main.n \in 1 .. Len(Jobs)
          BY <1>0, <4>1 DEF WritingInv, Submitting, MainInv
        <5>2. PICK m \in 1 .. Len(Jobs) : m < main.n
          BY <1>0, <4>1, <5>1 DEF StartedInv
        <5>. QED
          BY <5>1, <5>2
      <4>. QED
        BY <1>0, <4>1, <4>2
           DEF LateInv, StartedInv, Submitting, WritingInv, RaceNeedsLaterJob, ClosedInv,
               OneSub, pipe, workers
    <3>. QED
      BY <3>1, <3>2
  <2>6. CASE ItemSend(t)
    <3> DEFINE r == [feed[t] EXCEPT !.pc = "next", !.cur = NoItem]
    <3>1. r \in Feeder /\ r.by = feed[t].by
      BY <1>0 DEF Feeder
    <3>2. feed' = [feed EXCEPT ![t] = r]
      BY <2>6 DEF ItemSend, NextPost
    <3> HIDE DEF r
    <3>. QED
      BY <2>1, <2>6, <3>1, <3>2 DEF ItemSend, workers
  <2>7. CASE SendOnClosed(t)
    <3>1. /\ feed[t].pc = "send" /\ itemq = "closed"
          /\ dead' = "send on closed channel"
          /\ UNCHANGED <<main, idx, sub, feed, pipe>>
      BY <2>7 DEF SendOnClosed
    <3>2. ~OneSub
      BY <1>0, <3>1 DEF ClosedInv
    <3>. QED
      BY <1>0, <3>1, <3>2
         DEF LateInv, StartedInv, Submitting, WritingInv, RaceNeedsLaterJob, ClosedInv,
             OneSub, pipe, workers
  <2>. QED
    BY <1>9, <2>2, <2>4, <2>5, <2>6, <2>7 DEF FeedStep
<1>10. ASSUME NEW i \in Items, CountStep(i) PROVE LateInv'
  <2>1. UNCHANGED <<main, idx, sub, itemq, qopen, exited, dead>> /\ TaskOf[i] \in Tasks
    BY <1>10, ScrapperAssumption DEF CountStep, Count, CountEnd, pipe, workers
  <2>2. feed' = feed \/ (feed' = NextPost(TaskOf[i]) /\ feed[TaskOf[i]].pc = "skip")
    BY <1>10 DEF CountStep, Count, CountEnd, Skipping
  <2>3. \A t \in Tasks : \/ feed'[t] = feed[t]
                         \/ /\ feed'[t].by = feed[t].by
                            /\ feed[t].pc \notin {"none", "ended"}
    BY <1>0, <2>1, <2>2 DEF NextPost, Feeder
  <2>. QED
    BY <2>1, <2>3, LateSame
<1>. QED
  BY <1>1, <1>2, <1>3, <1>4, <1>5, <1>6, <1>7, <1>8, <1>9, <1>10 DEF Next, SubStep

(* The conjunction of what the pipeline's own properties rest on.          *)
LEMMA PipelineInductive ==
    Spec => [](Known /\ HoldAll /\ OrderInv /\ LateInv)
<1>1. Init => OrderInv
  BY DEF Init, L!Init, OrderInv, Reports, InQueue, ToHand, ToFeeder, FromHand
<1>2. Spec => [](PipeInv /\ CurInv /\ SubmitInv /\ RestTyped)
  BY PipeInit, PipeStep, RestInit, RestStep, CurInit, CurStep, PTL DEF Spec
<1>3. Spec => []Known
  BY <1>2, RecordTyped, PTL DEF Known
<1>4. Known => PipeInv /\ RestTyped
  BY DEF Known
<1>. QED
  BY <1>1, <1>3, <1>4, HoldInit, HoldStep, OrderStep, LateInit, LateStep, PTL DEF Spec

(* Items of one task and type stay in the order in which the feeder        *)
(* reported them, from the feeder through ItemQ and Start to the end of    *)
(* the queue, whatever else the other feeders and workers do               *)
(* (scrapperV1.go:157-237,268-289).                                        *)
THEOREM OrderCorrect == Spec => []OrderKept
BY PipelineInductive, OrderImplies, PTL DEF Known

(* taskStoreIdx is read and assigned at once only when a later job is      *)
(* submitted while a feeder is at work: the entry of the first job is      *)
(* complete before any feeder can be there (api.go:57, scrapperV1.go:221). *)
THEOREM RaceCorrect == Spec => []RaceNeedsLaterJob
BY PipelineInductive, PTL DEF LateInv

(* With one topic worker ItemQ is closed once, after every feeder is done  *)
(* sending, and no feeder is started after that                            *)
(* (scrapperV1.go:214-216,271-276).                                        *)
THEOREM CloseCorrect == Spec => []CloseAfterFeeders
<1>1. LateInv => CloseAfterFeeders
  <2> SUFFICES ASSUME LateInv, Cardinality(Subs) = 1
               PROVE  /\ itemq = "closed" => \A t \in Tasks : feed[t].pc \in {"none", "ended"}
                      /\ dead \notin {"close of closed channel", "send on closed channel"}
    BY DEF CloseAfterFeeders
  <2>1. \E x : Subs = {x}
    BY FS_Singleton, ScrapperAssumption
  <2>2. OneSub
    BY <2>1 DEF OneSub
  <2>. QED
    BY <2>2 DEF LateInv, ClosedInv
<1>. QED
  BY <1>1, PipelineInductive, PTL

-----------------------------------------------------------------------------
(* The pipeline does not hang.                                              *)

(* A job has its record from SubmitJob on, and no other has one.            *)
Pending(m) == \/ main.pc = "submit" /\ m >= main.n
              \/ main.pc \in {"stored", "indexing", "send"} /\ m > main.n
RecordInv ==
    /\ \A m \in 1 .. Len(Jobs) : Pending(m) => kv[Jobs[m]] = L!NoTask
    /\ main.pc \in {"stored", "indexing", "send"} => kv[Job].Status # "TASK_ABSENT"
    /\ \A t \in Tasks : feed[t].pc # "none" => kv[t].Status # "TASK_ABSENT"

(* What a feeder has left has not been reported.                            *)
LeftInv ==
    \A t \in Tasks :
        /\ \A i \in feed[t].left : pc[i] = "post"
        /\ feed[t].pc \in {"none", "scraping"} => \A i \in L!ItemsOf(t) : pc[i] = "post"

(* The section in which an item is listed is its feeder's.                  *)
ListingInv ==
    /\ \A t \in Tasks : feed[t].pc = "list" => pc[feed[t].cur] = "listing"
    /\ \A i \in Items : pc[i] = "listing" =>
          feed[TaskOf[i]].pc = "list" /\ feed[TaskOf[i]].cur = i

(* A topic worker scrapes for one feeder, and leaves when TaskQ is closed.  *)
ScrapeInv ==
    /\ \A t \in Tasks : feed[t].pc = "none" => feed[t].by = NoItem
    /\ \A t \in Tasks : feed[t].pc = "scraping" => sub[feed[t].by] = "scrape"
    /\ \A t, u \in Tasks :
          feed[t].pc = "scraping" /\ feed[u].pc = "scraping" /\ feed[t].by = feed[u].by => t = u
    /\ \A w \in Subs : sub[w] = "exited" => main.pc = "closed" /\ itemq = "closed"
    /\ \A w \in Subs : sub[w] = "scrape" =>
          \E t \in Tasks : feed[t].pc = "scraping" /\ feed[t].by = w

(* Start leaves its loop with nothing in hand, and only then are queues     *)
(* closed; what a worker has left behind is a closed queue, and empty.      *)
DrainInv ==
    /\ itemq = "open" => start = "loop"
    /\ start # "loop" => hand = NoItem
    /\ qopen = IF start = "loop" THEN Kinds ELSE Kinds \ Closing
    /\ \A w \in exited : q[QueueOf[w]] = <<>> /\ QueueOf[w] \notin qopen

(* The steps of items do not take a task's record away, and give it none.   *)
LEMMA RecordKept ==
    ASSUME L!TypeOK, LP!StatusInv, LP!CopyInv, NEW i \in Items, L!ItemStep(i), NEW t \in Tasks
    PROVE  /\ kv[t] = L!NoTask => kv'[t] = L!NoTask
           /\ kv[t].Status # "TASK_ABSENT" => kv'[t].Status # "TASK_ABSENT"
<1>1. TaskOf[i] \in Tasks /\ kv \in [Tasks -> L!Task] /\ local \in [Items -> L!Task]
  BY ScrapperAssumption DEF L!TypeOK
<1>2. pc[i] # "post" => kv[TaskOf[i]] # L!NoTask
  BY <1>1 DEF LP!StatusInv, LP!Read, LP!ItemsOf, L!NoTask
<1>3. CASE L!UpdateTaskEnd(i)
  <2>1. pc[i] = "listing" /\ kv'[TaskOf[i]].Status = "TASK_STARTED"
        /\ (t # TaskOf[i] => kv'[t] = kv[t])
    BY <1>1, <1>3 DEF L!UpdateTaskEnd, L!Task
  <2>. QED
    BY <1>2, <2>1
<1>4. CASE L!UpdateItemDoneEnd(i)
  <2>1. pc[i] = "counting" /\ local[i] = kv[TaskOf[i]]
    BY <1>4 DEF L!UpdateItemDoneEnd, LP!CopyInv, LP!InSection
  <2>2. kv'[TaskOf[i]].Status = kv[TaskOf[i]].Status /\ (t # TaskOf[i] => kv'[t] = kv[t])
    BY <1>1, <1>4, <2>1 DEF L!UpdateItemDoneEnd, L!Task
  <2>. QED
    BY <1>2, <2>1, <2>2
<1>5. CASE L!UpdateTaskBegin(i) \/ L!Increment(i) \/ L!UpdateItemDoneBegin(i)
  BY <1>5 DEF L!UpdateTaskBegin, L!Increment, L!UpdateItemDoneBegin
<1>. QED
  BY <1>3, <1>4, <1>5 DEF L!ItemStep

(* But for the start of a feeder, its posts and its next one, a step leaves *)
(* the feeders' stages that matter here, and what they have left.           *)
LEMMA FeedersKept ==
    ASSUME PipeInv, L!TypeOK, [Next]_vars,
           \A w \in Subs : ~TaskSend(w) /\ ~Scrape(w), \A t \in Tasks : ~FeedNext(t)
    PROVE  /\ \A t \in Tasks :
                 /\ feed'[t].left = feed[t].left /\ feed'[t].by = feed[t].by
                 /\ feed'[t].pc \in {"none", "scraping"} <=> feed[t].pc \in {"none", "scraping"}
                 /\ feed'[t].pc = "none" <=> feed[t].pc = "none"
                 /\ feed'[t].pc = "list" => feed[t].pc = "list" /\ feed'[t].cur = feed[t].cur
           /\ \A i \in Items : /\ pc'[i] = "post" <=> pc[i] = "post"
                               /\ pc'[i] = "listing" => pc[i] = "listing"
<1>0. feed \in [Tasks -> Feeder] /\ pc \in [Items -> L!Stage]
  BY DEF PipeInv, FeedInv, L!TypeOK
<1>1. ASSUME UNCHANGED <<feed, pc>>
      PROVE  /\ \A t \in Tasks : feed'[t] = feed[t]
             /\ \A i \in Items : pc'[i] = pc[i]
  BY <1>1
<1>2. ASSUME NEW t \in Tasks, FeedList(t)
      PROVE  /\ feed' = [feed EXCEPT ![t].pc = "filter"] /\ feed[t].pc = "list"
             /\ pc' = [pc EXCEPT ![feed[t].cur] = "listed"] /\ pc[feed[t].cur] = "listing"
  BY <1>2 DEF FeedList, L!UpdateTaskEnd
<1>3. ASSUME NEW t \in Tasks, \/ FilterStores(t) \/ ItemSend(t) \/ SendOnClosed(t) \/ FeedEnd(t)
      PROVE  /\ feed[t].pc \notin {"none", "scraping", "list"} /\ pc' = pc
             /\ \/ feed' = feed
                \/ \E p \in {"send", "skip", "ended"} : feed' = [feed EXCEPT ![t].pc = p]
                \/ feed' = NextPost(t)
  BY <1>3 DEF FilterStores, ItemSend, SendOnClosed, FeedEnd, ledger
<1>4. ASSUME NEW i \in Items, CountStep(i)
      PROVE  /\ TaskOf[i] \in Tasks
             /\ feed' = feed \/ (feed' = NextPost(TaskOf[i]) /\ feed[TaskOf[i]].pc = "skip")
             /\ pc[i] \in {"listed", "incrementing", "counting"}
             /\ \E p \in {"incrementing", "counting", "counted"} : pc' = [pc EXCEPT ![i] = p]
  BY <1>4, ScrapperAssumption
     DEF CountStep, Count, CountEnd, Skipping, L!Increment, L!UpdateItemDoneBegin,
         L!UpdateItemDoneEnd
<1>5. CASE \E t \in Tasks : FeedList(t)
  <2>1. PICK t \in Tasks :
          /\ feed' = [feed EXCEPT ![t].pc = "filter"] /\ feed[t].pc = "list"
          /\ pc' = [pc EXCEPT ![feed[t].cur] = "listed"] /\ pc[feed[t].cur] = "listing"
    BY <1>2, <1>5
  <2>2. feed'[t] = [feed[t] EXCEPT !.pc = "filter"] /\ \A u \in Tasks \ {t} : feed'[u] = feed[u]
    BY <1>0, <2>1
  <2>3. feed[t] \in Feeder
    BY <1>0
  <2>. QED
    BY <1>0, <2>1, <2>2, <2>3 DEF Feeder
<1>6. CASE \E t \in Tasks : FilterStores(t) \/ ItemSend(t) \/ SendOnClosed(t) \/ FeedEnd(t)
  <2>1. PICK t \in Tasks :
          /\ feed[t].pc \notin {"none", "scraping", "list"} /\ pc' = pc
          /\ \/ feed' = feed
             \/ \E p \in {"send", "skip", "ended"} : feed' = [feed EXCEPT ![t].pc = p]
             \/ feed' = NextPost(t)
    BY <1>3, <1>6
  <2>2. /\ \A u \in Tasks \ {t} : feed'[u] = feed[u]
        /\ feed'[t].left = feed[t].left /\ feed'[t].by = feed[t].by
        /\ feed'[t].pc \notin {"none", "scraping", "list"}
    <3>1. feed[t] \in Feeder
      BY <1>0
    <3>. QED
      BY <1>0, <2>1, <3>1 DEF Feeder, NextPost
  <2>. QED
    BY <1>0, <2>1, <2>2
<1>7. CASE \E i \in Items : CountStep(i)
  <2>1. PICK i \in Items :
          /\ TaskOf[i] \in Tasks
          /\ feed' = feed \/ (feed' = NextPost(TaskOf[i]) /\ feed[TaskOf[i]].pc = "skip")
          /\ pc[i] \in {"listed", "incrementing", "counting"}
          /\ \E p \in {"incrementing", "counting", "counted"} : pc' = [pc EXCEPT ![i] = p]
    BY <1>4, <1>7
  <2>2. \A t \in Tasks : \/ feed'[t] = feed[t]
                         \/ /\ feed'[t].left = feed[t].left /\ feed'[t].by = feed[t].by
                            /\ feed'[t].pc = "next" /\ feed[t].pc = "skip"
    <3>1. \A t \in Tasks : feed[t] \in Feeder
      BY <1>0
    <3>. QED
      BY <1>0, <2>1, <3>1 DEF Feeder, NextPost
  <2>3. \A j \in Items : \/ pc'[j] = pc[j]
                         \/ pc[j] \notin {"post", "listing"} /\ pc'[j] \notin {"post", "listing"}
    BY <1>0, <2>1
  <2>. QED
    BY <2>2, <2>3
<1>8. CASE \/ UNCHANGED vars \/ MainStep \/ StartStep \/ \E w \in Workers : AddWorker(w) \/ WorkStep(w)
           \/ \E w \in Subs : TopicClosed(w)
  <2>1. UNCHANGED <<feed, pc>>
    BY <1>8 DEF vars, ledger, MainStep, StoreTask, IndexBegin, IndexEnd, MainWait, CloseTaskQ,
                L!SubmitJob, L!WaitOnId, L!WaitStep, L!CheckJob, L!Wake, L!Deadline,
                StartStep, Dispatch, StartLeavesLoop, SwgWait, AddWorker, WorkStep, Receive,
                WorkerExit, TopicClosed
  <2>. QED
    BY <1>1, <2>1
<1>. QED
  BY <1>5, <1>6, <1>7, <1>8 DEF Next, SubStep, FeedStep

(* The start of a feeder.                                                   *)
LEMMA FeederStarts ==
    ASSUME PipeInv, SubmitInv, NEW w \in Subs, TaskSend(w)
    PROVE  /\ main.pc = "send" /\ sub[w] = "recv" /\ feed[Job].pc = "none" /\ Job \in Tasks
           /\ sub' = [sub EXCEPT ![w] = "scrape"]
           /\ feed'[Job].pc = "scraping" /\ feed'[Job].by = w /\ feed'[Job].left = feed[Job].left
           /\ \A t \in Tasks \ {Job} : feed'[t] = feed[t]
           /\ UNCHANGED <<ledger, pipe>>
           /\ main' = [pc |-> "submit", n |-> main.n + 1] \/ main'.pc \in {"wait", "close"}
<1>1. MainInv /\ feed \in [Tasks -> Feeder] /\ Job \in Tasks
  BY JobIsTask DEF PipeInv, FeedInv
<1>2. main.pc = "send" /\ main.n \in 1 .. Len(Jobs)
  BY <1>1 DEF TaskSend, MainInv
<1>3. feed[Job].pc = "none"
  BY <1>2, ScrapperAssumption DEF SubmitInv, Job
<1>4. feed[Job] \in Feeder /\ feed' = [feed EXCEPT ![Job].pc = "scraping", ![Job].by = w]
  BY <1>1 DEF TaskSend
<1>5. /\ feed'[Job].pc = "scraping" /\ feed'[Job].by = w /\ feed'[Job].left = feed[Job].left
      /\ \A t \in Tasks \ {Job} : feed'[t] = feed[t]
  BY <1>1, <1>4 DEF Feeder
<1>6. main' = [pc |-> "submit", n |-> main.n + 1] \/ main'.pc \in {"wait", "close"}
  BY ScrapperAssumption DEF TaskSend, AfterJobs
<1>. QED
  BY <1>1, <1>2, <1>3, <1>5, <1>6 DEF TaskSend

(* Its posts.                                                               *)
LEMMA FeederScraped ==
    ASSUME PipeInv, NEW w \in Subs, Scrape(w)
    PROVE  \E t \in Tasks :
             /\ feed[t].pc = "scraping" /\ feed[t].by = w /\ sub[w] = "scrape"
             /\ feed'[t].by = w /\ \A u \in Tasks \ {t} : feed'[u] = feed[u]
             /\ \/ feed'[t].pc = "ended" /\ feed'[t].left = feed[t].left
                \/ feed'[t].pc = "next" /\ feed'[t].left \subseteq L!ItemsOf(t)
             /\ sub' = [sub EXCEPT ![w] = "recv"]
             /\ UNCHANGED <<ledger, main, pipe>>
<1>1. feed \in [Tasks -> Feeder]
  BY DEF PipeInv, FeedInv
<1>2. PICK t \in Tasks :
        /\ sub[w] = "scrape" /\ feed[t].pc = "scraping" /\ feed[t].by = w
        /\ sub' = [sub EXCEPT ![w] = "recv"]
        /\ \/ feed' = [feed EXCEPT ![t].pc = "ended"]
           \/ \E posts \in {{}, L!ItemsOf(t)} :
                 feed' = [feed EXCEPT ![t].pc = "next", ![t].left = posts]
        /\ UNCHANGED <<ledger, main, idx, pipe, dead>>
  BY DEF Scrape, ErrorContinues
<1>3. feed[t] \in Feeder
  BY <1>1
<1>4. CASE feed' = [feed EXCEPT ![t].pc = "ended"]
  <2>1. feed'[t].by = w /\ feed'[t].pc = "ended" /\ feed'[t].left = feed[t].left
        /\ \A u \in Tasks \ {t} : feed'[u] = feed[u]
    BY <1>1, <1>2, <1>3, <1>4 DEF Feeder
  <2>. QED
    BY <1>2, <2>1
<1>5. CASE \E posts \in {{}, L!ItemsOf(t)} :
              feed' = [feed EXCEPT ![t].pc = "next", ![t].left = posts]
  <2>1. PICK posts \in {{}, L!ItemsOf(t)} :
              feed' = [feed EXCEPT ![t].pc = "next", ![t].left = posts]
    BY <1>5
  <2>2. feed'[t].by = w /\ feed'[t].pc = "next" /\ feed'[t].left = posts
        /\ \A u \in Tasks \ {t} : feed'[u] = feed[u]
    BY <1>1, <1>2, <1>3, <2>1 DEF Feeder
  <2>3. posts \subseteq L!ItemsOf(t)
    OBVIOUS
  <2>. QED
    BY <1>2, <2>2, <2>3
<1>. QED
  BY <1>2, <1>4, <1>5

(* Its next post.                                                           *)
LEMMA FeederNext ==
    ASSUME PipeInv, L!TypeOK, NEW t \in Tasks, FeedNext(t)
    PROVE  \E i \in feed[t].left :
             /\ i \in Items /\ TaskOf[i] = t /\ pc[i] = "post" /\ feed[t].pc = "next"
             /\ L!UpdateTaskBegin(i)
             /\ pc' = [pc EXCEPT ![i] = "listing"]
             /\ feed'[t].pc = "list" /\ feed'[t].cur = i /\ feed'[t].left = feed[t].left \ {i}
             /\ feed'[t].by = feed[t].by /\ \A u \in Tasks \ {t} : feed'[u] = feed[u]
             /\ UNCHANGED <<main, sub, pipe>>
<1>1. feed \in [Tasks -> Feeder] /\ feed[t].left \subseteq L!ItemsOf(t)
  BY DEF PipeInv, FeedInv
<1>2. PICK i \in feed[t].left :
        /\ feed[t].pc = "next" /\ L!UpdateTaskBegin(i)
        /\ feed' = [feed EXCEPT ![t].pc = "list", ![t].cur = i, ![t].left = @ \ {i}]
        /\ UNCHANGED <<main, idx, sub, pipe, dead>>
  BY DEF FeedNext
<1>3. i \in Items /\ TaskOf[i] = t /\ feed[t] \in Feeder
  BY <1>1 DEF L!ItemsOf
<1>4. /\ feed'[t].pc = "list" /\ feed'[t].cur = i /\ feed'[t].left = feed[t].left \ {i}
      /\ feed'[t].by = feed[t].by /\ \A u \in Tasks \ {t} : feed'[u] = feed[u]
  BY <1>1, <1>2, <1>3 DEF Feeder
<1>5. pc[i] = "post" /\ pc' = [pc EXCEPT ![i] = "listing"]
  BY <1>2 DEF L!UpdateTaskBegin
<1>. QED
  BY <1>2, <1>3, <1>4, <1>5

(* The invariants at the start.                                             *)
GoInv == RecordInv /\ LeftInv /\ ListingInv /\ ScrapeInv /\ DrainInv

LEMMA GoInit == Init => GoInv
<1> SUFFICES ASSUME Init PROVE GoInv
  OBVIOUS
<1>1. /\ \A t \in Tasks : kv[t] = L!NoTask /\ feed[t] = Idle
      /\ \A i \in Items : pc[i] = "post"
      /\ main.pc = "submit" /\ itemq = "open" /\ start = "loop" /\ hand = NoItem
      /\ exited = {} /\ qopen = Kinds /\ \A w \in Subs : sub[w] = "recv"
  BY DEF Init, L!Init
<1>2. RecordInv
  BY <1>1, ScrapperAssumption DEF RecordInv, Idle
<1>3. LeftInv /\ ListingInv /\ ScrapeInv /\ DrainInv
  BY <1>1 DEF LeftInv, ListingInv, ScrapeInv, DrainInv, Idle, L!ItemsOf
<1>. QED
  BY <1>2, <1>3 DEF GoInv

(* SubmitJob writes the record of main's job and no other; jobs are         *)
(* distinct (api.go:39-56).                                                 *)
LEMMA RecordStep ==
    ASSUME PipeInv, SubmitInv, L!TypeOK, LP!StatusInv, LP!CopyInv, RecordInv, [Next]_vars
    PROVE  RecordInv'
<1>0. /\ MainInv /\ Job \in Tasks /\ kv \in [Tasks -> L!Task]
      /\ \A m \in 1 .. Len(Jobs) : Jobs[m] \in Tasks
      /\ L!NewTask.Status # "TASK_ABSENT" /\ L!NoTask.Status = "TASK_ABSENT"
  BY JobIsTask, ScrapperAssumption DEF PipeInv, L!TypeOK, L!NewTask, L!NoTask
<1>1. CASE StoreTask
  <2>1. /\ main.pc = "submit" /\ main' = [main EXCEPT !.pc = "stored"] /\ feed' = feed
        /\ kv' = [kv EXCEPT ![Job] = L!NewTask]
    BY <1>1 DEF StoreTask, L!SubmitJob
  <2>2. main'.pc = "stored" /\ main'.n = main.n /\ main.n \in 1 .. Len(Jobs)
    BY <1>0, <2>1 DEF MainInv
  <2>3. Job' = Job
    BY <2>2 DEF Job
  <2>4. kv'[Job] = L!NewTask /\ \A t \in Tasks \ {Job} : kv'[t] = kv[t]
    BY <1>0, <2>1
  <2>5. ASSUME NEW m \in 1 .. Len(Jobs), Pending(m)' PROVE kv'[Jobs[m]] = L!NoTask
    <3>1. m > main.n
      BY <2>2, <2>5 DEF Pending
    <3>2. m >= main.n /\ m # main.n
      BY <2>2, <3>1
    <3>3. Jobs[m] \in Tasks \ {Job} /\ Pending(m)
      BY <1>0, <2>1, <2>2, <3>2, ScrapperAssumption DEF Job, Pending
    <3>. QED
      BY <2>4, <3>3 DEF RecordInv
  <2>6. \A t \in Tasks : feed[t].pc # "none" => kv'[t].Status # "TASK_ABSENT"
    BY <1>0, <2>4 DEF RecordInv
  <2>. QED
    BY <1>0, <2>1, <2>3, <2>4, <2>5, <2>6 DEF RecordInv, L!NoTask
<1>2. CASE IndexBegin \/ IndexEnd
  <2>1. /\ main.pc \in {"stored", "indexing"} /\ main'.pc \in {"indexing", "send"}
        /\ main'.n = main.n /\ UNCHANGED <<kv, feed>>
    BY <1>0, <1>2 DEF IndexBegin, IndexEnd, ledger, MainInv
  <2>2. Job' = Job /\ \A m \in 1 .. Len(Jobs) : Pending(m)' => Pending(m)
    BY <2>1 DEF Job, Pending
  <2>. QED
    BY <2>1, <2>2 DEF RecordInv, L!NoTask
<1>3. CASE MainWait \/ CloseTaskQ
  <2>1. main'.pc \in {"wait", "exit", "closed"} /\ UNCHANGED <<kv, feed>>
    BY <1>0, <1>3 DEF MainWait, CloseTaskQ, ledger, MainInv, L!WaitOnId, L!WaitStep,
                      L!CheckJob, L!Wake, L!Deadline
  <2>2. \A m \in 1 .. Len(Jobs) : ~Pending(m)'
    BY <2>1 DEF Pending
  <2>. QED
    BY <2>1, <2>2 DEF RecordInv
<1>4. ASSUME NEW w \in Subs, TaskSend(w) PROVE RecordInv'
  <2>1. /\ main.pc = "send" /\ main.n \in 1 .. Len(Jobs)
        /\ UNCHANGED kv /\ \A t \in Tasks \ {Job} : feed'[t] = feed[t]
        /\ main' = [pc |-> "submit", n |-> main.n + 1] \/ main'.pc \in {"wait", "close"}
    BY <1>0, <1>4, FeederStarts DEF ledger, MainInv
  <2>2. ASSUME NEW m \in 1 .. Len(Jobs), Pending(m)' PROVE Pending(m)
    <3>1. m >= main.n + 1
      BY <2>1, <2>2 DEF Pending
    <3>. QED
      BY <2>1, <3>1 DEF Pending
  <2>3. main'.pc \notin {"stored", "indexing", "send"}
    BY <2>1
  <2>4. \A t \in Tasks : feed'[t].pc # "none" => kv[t].Status # "TASK_ABSENT"
    BY <2>1 DEF RecordInv
  <2>. QED
    BY <2>1, <2>2, <2>3, <2>4 DEF RecordInv, L!NoTask
<1>5. ASSUME UNCHANGED main, \A t \in Tasks : feed'[t].pc # "none" => feed[t].pc # "none",
             UNCHANGED kv \/ \E i \in Items : L!ItemStep(i)
      PROVE  RecordInv'
  <2>1. \A t \in Tasks : /\ kv[t] = L!NoTask => kv'[t] = L!NoTask
                         /\ kv[t].Status # "TASK_ABSENT" => kv'[t].Status # "TASK_ABSENT"
    BY <1>5, RecordKept
  <2>2. Job' = Job /\ \A m \in 1 .. Len(Jobs) : Pending(m)' <=> Pending(m)
    BY <1>5 DEF Job, Pending
  <2>3. L!NoTask' = L!NoTask
    BY DEF L!NoTask
  <2>. QED
    BY <1>0, <1>5, <2>1, <2>2, <2>3 DEF RecordInv
<1>6. ASSUME NEW w \in Subs, Scrape(w) PROVE RecordInv'
  <2>1. /\ UNCHANGED <<ledger, main>>
        /\ \A t \in Tasks : feed'[t].pc # "none" => feed[t].pc # "none"
    BY <1>6, FeederScraped
  <2>. QED
    BY <1>5, <2>1 DEF ledger
<1>7. ASSUME NEW t \in Tasks, FeedNext(t) PROVE RecordInv'
  <2>1. /\ UNCHANGED main /\ \E i \in Items : L!ItemStep(i)
        /\ \A u \in Tasks : feed'[u].pc # "none" => feed[u].pc # "none"
    BY <1>7, FeederNext DEF L!ItemStep
  <2>. QED
    BY <1>5, <2>1
<1>8. ASSUME \A w \in Subs : ~TaskSend(w) /\ ~Scrape(w), \A t \in Tasks : ~FeedNext(t), ~MainStep
      PROVE  RecordInv'
  <2>1. \A t \in Tasks : feed'[t].pc # "none" => feed[t].pc # "none"
    BY <1>8, FeedersKept
  <2>2. CASE \E i \in Items : CountStep(i)
    <3>1. UNCHANGED main /\ \E i \in Items : L!ItemStep(i)
      BY <2>2 DEF CountStep, Count, CountEnd, L!ItemStep
    <3>. QED
      BY <1>5, <2>1, <3>1
  <2>3. CASE \E t \in Tasks : FeedList(t)
    <3>1. UNCHANGED main /\ \E i \in Items : L!ItemStep(i)
      BY <2>3 DEF FeedList, L!ItemStep, PipeInv, FeedInv, L!ItemsOf
    <3>. QED
      BY <1>5, <2>1, <3>1
  <2>4. CASE \/ UNCHANGED vars \/ StartStep \/ \E w \in Workers : AddWorker(w) \/ WorkStep(w)
             \/ \E w \in Subs : TopicClosed(w)
             \/ \E t \in Tasks : FilterStores(t) \/ ItemSend(t) \/ SendOnClosed(t) \/ FeedEnd(t)
    <3>1. UNCHANGED <<main, kv>>
      BY <2>4 DEF vars, ledger, StartStep, Dispatch, StartLeavesLoop, SwgWait, AddWorker, WorkStep,
                  Receive, WorkerExit, TopicClosed, FilterStores, ItemSend, SendOnClosed, FeedEnd
    <3>. QED
      BY <1>5, <2>1, <3>1
  <2>. QED
    BY <1>8, <2>2, <2>3, <2>4 DEF Next, SubStep, FeedStep
<1>. QED
  BY <1>1, <1>2, <1>3, <1>4, <1>6, <1>7, <1>8 DEF MainStep

(* Posts a feeder has left are reported by nobody else (scrapperV1.go:163-  *)
(* 191).                                                                    *)
LEMMA LeftStep ==
    ASSUME PipeInv, SubmitInv, L!TypeOK, LeftInv, [Next]_vars PROVE LeftInv'
<1>0. /\ pc \in [Items -> L!Stage]
      /\ \A t \in Tasks : feed[t].left \subseteq L!ItemsOf(t) /\ L!ItemsOf(t)' = L!ItemsOf(t)
  BY DEF L!TypeOK, PipeInv, FeedInv, L!ItemsOf
<1>1. ASSUME NEW w \in Subs, TaskSend(w) PROVE LeftInv'
  BY <1>0, <1>1, FeederStarts DEF LeftInv, ledger, L!ItemsOf
<1>2. ASSUME NEW w \in Subs, Scrape(w) PROVE LeftInv'
  <2>1. PICK t \in Tasks :
          /\ feed[t].pc = "scraping" /\ \A u \in Tasks \ {t} : feed'[u] = feed[u]
          /\ \/ feed'[t].pc = "ended" /\ feed'[t].left = feed[t].left
             \/ feed'[t].pc = "next" /\ feed'[t].left \subseteq L!ItemsOf(t)
          /\ UNCHANGED ledger
    BY <1>2, FeederScraped
  <2>2. \A i \in feed'[t].left : pc[i] = "post"
    BY <2>1 DEF LeftInv
  <2>. QED
    BY <1>0, <2>1, <2>2 DEF LeftInv, ledger
<1>3. ASSUME NEW t \in Tasks, FeedNext(t) PROVE LeftInv'
  <2>1. PICK i \in feed[t].left :
          /\ i \in Items /\ TaskOf[i] = t /\ pc' = [pc EXCEPT ![i] = "listing"]
          /\ feed'[t].pc = "list" /\ feed'[t].left = feed[t].left \ {i}
          /\ \A u \in Tasks \ {t} : feed'[u] = feed[u]
    BY <1>3, FeederNext
  <2>2. \A j \in Items : j # i => pc'[j] = pc[j]
    BY <1>0, <2>1
  <2>3. \A u \in Tasks \ {t} : \A j \in L!ItemsOf(u) : j \in Items /\ j # i
    BY <2>1 DEF L!ItemsOf
  <2>4. ASSUME NEW u \in Tasks
        PROVE  /\ \A j \in feed'[u].left : pc'[j] = "post"
               /\ feed'[u].pc \in {"none", "scraping"} => \A j \in L!ItemsOf(u) : pc'[j] = "post"
    <3>1. CASE u = t
      <4>1. \A j \in feed[t].left : j \in Items
        BY <1>0 DEF L!ItemsOf
      <4>. QED
        BY <2>1, <2>2, <3>1, <4>1 DEF LeftInv
    <3>2. CASE u # t
      BY <1>0, <2>1, <2>2, <2>3, <3>2 DEF LeftInv
    <3>. QED
      BY <3>1, <3>2
  <2>. QED
    BY <1>0, <2>4 DEF LeftInv
<1>4. ASSUME \A w \in Subs : ~TaskSend(w) /\ ~Scrape(w), \A t \in Tasks : ~FeedNext(t)
      PROVE  LeftInv'
  <2>1. /\ \A t \in Tasks :
              /\ feed'[t].left = feed[t].left
              /\ feed'[t].pc \in {"none", "scraping"} <=> feed[t].pc \in {"none", "scraping"}
        /\ \A i \in Items : pc'[i] = "post" <=> pc[i] = "post"
    BY <1>4, FeedersKept
  <2>2. \A t \in Tasks : \A j \in L!ItemsOf(t) : j \in Items
    BY DEF L!ItemsOf
  <2>. QED
    BY <1>0, <2>1, <2>2 DEF LeftInv
<1>. QED
  BY <1>1, <1>2, <1>3, <1>4

(* UpdateTask is called by the feeder alone, for the item it is at          *)
(* (scrapperV1.go:187-198).                                                 *)
LEMMA ListingStep ==
    ASSUME PipeInv, SubmitInv, L!TypeOK, ListingInv, [Next]_vars PROVE ListingInv'
<1>0. /\ pc \in [Items -> L!Stage] /\ \A i \in Items : TaskOf[i] \in Tasks
      /\ \A t \in Tasks : feed[t].pc = "list" => feed[t].cur \in Items /\ TaskOf[feed[t].cur] = t
  BY ScrapperAssumption DEF L!TypeOK, PipeInv, FeedInv, L!ItemsOf
<1>1. ASSUME NEW w \in Subs, TaskSend(w) PROVE ListingInv'
  BY <1>0, <1>1, FeederStarts DEF ListingInv, ledger
<1>2. ASSUME NEW w \in Subs, Scrape(w) PROVE ListingInv'
  <2>1. PICK t \in Tasks :
          /\ feed[t].pc = "scraping" /\ \A u \in Tasks \ {t} : feed'[u] = feed[u]
          /\ feed'[t].pc \in {"ended", "next"}
          /\ UNCHANGED ledger
    BY <1>2, FeederScraped
  <2>. QED
    BY <1>0, <2>1 DEF ListingInv, ledger
<1>3. ASSUME NEW t \in Tasks, FeedNext(t) PROVE ListingInv'
  <2>1. PICK i \in feed[t].left :
          /\ i \in Items /\ TaskOf[i] = t /\ pc' = [pc EXCEPT ![i] = "listing"]
          /\ feed[t].pc = "next"
          /\ feed'[t].pc = "list" /\ feed'[t].cur = i
          /\ \A u \in Tasks \ {t} : feed'[u] = feed[u]
    BY <1>3, FeederNext
  <2>2. pc'[i] = "listing" /\ \A j \in Items : j # i => pc'[j] = pc[j]
    BY <1>0, <2>1
  <2>3. \A u \in Tasks : feed'[u].pc = "list" => pc'[feed'[u].cur] = "listing"
    BY <1>0, <2>1, <2>2 DEF ListingInv
  <2>4. ASSUME NEW j \in Items, pc'[j] = "listing"
        PROVE  feed'[TaskOf[j]].pc = "list" /\ feed'[TaskOf[j]].cur = j
    BY <1>0, <2>1, <2>2, <2>4 DEF ListingInv
  <2>. QED
    BY <2>3, <2>4 DEF ListingInv
<1>4. ASSUME NEW t \in Tasks, FeedList(t) PROVE ListingInv'
  <2>1. /\ feed[t].pc = "list" /\ feed[t].cur \in Items
        /\ feed' = [feed EXCEPT ![t].pc = "filter"]
        /\ pc' = [pc EXCEPT ![feed[t].cur] = "listed"]
    BY <1>0, <1>4 DEF FeedList, L!UpdateTaskEnd
  <2>2. feed \in [Tasks -> Feeder] /\ feed[t] \in Feeder
    BY DEF PipeInv, FeedInv
  <2>3. feed'[t].pc = "filter" /\ \A u \in Tasks \ {t} : feed'[u] = feed[u]
    BY <2>1, <2>2 DEF Feeder
  <2>4. pc'[feed[t].cur] = "listed" /\ \A j \in Items : j # feed[t].cur => pc'[j] = pc[j]
    BY <1>0, <2>1
  <2>5. ASSUME NEW u \in Tasks, feed'[u].pc = "list" PROVE pc'[feed'[u].cur] = "listing"
    <3>1. u # t /\ feed'[u] = feed[u]
      BY <2>3, <2>5
    <3>2. feed[u].cur \in Items /\ feed[u].cur # feed[t].cur /\ pc[feed[u].cur] = "listing"
      BY <1>0, <2>1, <2>5, <3>1 DEF ListingInv
    <3>. QED
      BY <2>4, <3>1, <3>2
  <2>6. ASSUME NEW j \in Items, pc'[j] = "listing"
        PROVE  feed'[TaskOf[j]].pc = "list" /\ feed'[TaskOf[j]].cur = j
    <3>1. j # feed[t].cur /\ pc[j] = "listing"
      BY <2>4, <2>6
    <3>2. feed[TaskOf[j]].pc = "list" /\ feed[TaskOf[j]].cur = j
      BY <3>1 DEF ListingInv
    <3>. QED
      BY <1>0, <2>3, <3>1, <3>2
  <2>. QED
    BY <2>5, <2>6 DEF ListingInv
<1>5. ASSUME NEW i \in Items, CountStep(i) PROVE ListingInv'
  <2>1. /\ feed' = feed \/ (feed' = NextPost(TaskOf[i]) /\ feed[TaskOf[i]].pc = "skip")
        /\ pc[i] \in {"listed", "incrementing", "counting"}
        /\ \E p \in {"incrementing", "counting", "counted"} : pc' = [pc EXCEPT ![i] = p]
    BY <1>5, ScrapperAssumption
       DEF CountStep, Count, CountEnd, Skipping, L!Increment, L!UpdateItemDoneBegin,
           L!UpdateItemDoneEnd
  <2>2. \A t \in Tasks : feed'[t] = feed[t] \/ (feed'[t].pc = "next" /\ feed[t].pc = "skip")
    <3>1. feed \in [Tasks -> Feeder] /\ TaskOf[i] \in Tasks /\ feed[TaskOf[i]] \in Feeder
      BY <1>0 DEF PipeInv, FeedInv
    <3>. QED
      BY <2>1, <3>1 DEF NextPost, Feeder
  <2>3. \A j \in Items : pc'[j] = pc[j] \/ (pc[j] # "listing" /\ pc'[j] # "listing")
    BY <1>0, <2>1
  <2>. QED
    BY <1>0, <2>2, <2>3 DEF ListingInv
<1>6. ASSUME NEW t \in Tasks, FilterStores(t) \/ ItemSend(t) \/ SendOnClosed(t) \/ FeedEnd(t)
      PROVE  ListingInv'
  <2>1. /\ feed[t].pc # "list" /\ pc' = pc
        /\ \/ feed' = feed
           \/ \E p \in {"send", "skip", "ended"} : feed' = [feed EXCEPT ![t].pc = p]
           \/ feed' = NextPost(t)
    BY <1>6 DEF FilterStores, ItemSend, SendOnClosed, FeedEnd, ledger
  <2>2. feed'[t].pc # "list" /\ \A u \in Tasks \ {t} : feed'[u] = feed[u]
    <3>1. feed \in [Tasks -> Feeder] /\ feed[t] \in Feeder
      BY DEF PipeInv, FeedInv
    <3>. QED
      BY <2>1, <3>1 DEF NextPost, Feeder
  <2>. QED
    BY <1>0, <2>1, <2>2 DEF ListingInv
<1>7. CASE \/ UNCHANGED vars \/ MainStep \/ StartStep \/ \E w \in Workers : AddWorker(w) \/ WorkStep(w)
           \/ \E w \in Subs : TopicClosed(w)
  <2>1. UNCHANGED <<feed, pc>>
    BY <1>7 DEF vars, ledger, MainStep, StoreTask, IndexBegin, IndexEnd, MainWait, CloseTaskQ,
                L!SubmitJob, L!WaitOnId, L!WaitStep, L!CheckJob, L!Wake, L!Deadline,
                StartStep, Dispatch, StartLeavesLoop, SwgWait, AddWorker, WorkStep, Receive,
                WorkerExit, TopicClosed
  <2>. QED
    BY <2>1 DEF ListingInv
<1>. QED
  BY <1>1, <1>2, <1>3, <1>4, <1>5, <1>6, <1>7 DEF Next, SubStep, FeedStep

(* A topic worker is at one scrape at a time, and comes back from each      *)
(* (scrapperV1.go:157-171,214-218).                                         *)
LEMMA ScrapeStep ==
    ASSUME PipeInv, SubmitInv, L!TypeOK, RestTyped, StartedInv, ScrapeInv, [Next]_vars
    PROVE  ScrapeInv'
<1>0. /\ sub \in [Subs -> {"recv", "scrape", "exited"}] /\ MainInv
      /\ \A t \in Tasks : feed[t].pc # "none" => feed[t].by \in Subs
  BY DEF RestTyped, PipeInv, StartedInv
<1>1. ASSUME NEW w \in Subs, TaskSend(w) PROVE ScrapeInv'
  <2>1. /\ main.pc = "send" /\ sub[w] = "recv" /\ feed[Job].pc = "none" /\ Job \in Tasks
        /\ feed'[Job].pc = "scraping" /\ feed'[Job].by = w
        /\ \A t \in Tasks \ {Job} : feed'[t] = feed[t]
        /\ sub' = [sub EXCEPT ![w] = "scrape"]
    BY <1>1, FeederStarts
  <2>2. sub'[w] = "scrape" /\ \A v \in Subs : v # w => sub'[v] = sub[v]
    BY <1>0, <2>1
  <2>3. \A t \in Tasks \ {Job} : feed[t].pc = "scraping" => feed[t].by # w /\ feed[t].by \in Subs
    BY <1>0, <2>1 DEF ScrapeInv
  <2>4. \A v \in Subs : sub'[v] # "exited"
    BY <1>0, <2>1, <2>2 DEF ScrapeInv
  <2>5. ASSUME NEW v \in Subs, sub'[v] = "scrape"
        PROVE  \E t \in Tasks : feed'[t].pc = "scraping" /\ feed'[t].by = v
    <3>1. CASE v = w
      BY <2>1, <3>1
    <3>2. CASE v # w
      <4>1. PICK t \in Tasks : feed[t].pc = "scraping" /\ feed[t].by = v
        BY <2>2, <2>5, <3>2 DEF ScrapeInv
      <4>. QED
        BY <2>1, <4>1
    <3>. QED
      BY <3>1, <3>2
  <2>6. \A t \in Tasks : feed'[t].pc = "scraping" => sub'[feed'[t].by] = "scrape"
    BY <2>1, <2>2, <2>3 DEF ScrapeInv
  <2>7. \A t, u \in Tasks : feed'[t].pc = "scraping" /\ feed'[u].pc = "scraping"
                            /\ feed'[t].by = feed'[u].by => t = u
    BY <2>1, <2>3 DEF ScrapeInv
  <2>8. \A t \in Tasks : feed'[t].pc = "none" => feed'[t].by = NoItem
    BY <2>1 DEF ScrapeInv
  <2>. QED
    BY <2>4, <2>5, <2>6, <2>7, <2>8 DEF ScrapeInv
<1>2. ASSUME NEW w \in Subs, Scrape(w) PROVE ScrapeInv'
  <2>1. PICK t \in Tasks :
          /\ feed[t].pc = "scraping" /\ feed[t].by = w /\ sub[w] = "scrape"
          /\ feed'[t].by = w /\ \A u \in Tasks \ {t} : feed'[u] = feed[u]
          /\ feed'[t].pc \in {"ended", "next"}
          /\ sub' = [sub EXCEPT ![w] = "recv"]
          /\ UNCHANGED <<main, pipe>>
    BY <1>2, FeederScraped
  <2>2. sub'[w] = "recv" /\ \A v \in Subs : v # w => sub'[v] = sub[v]
    BY <1>0, <2>1
  <2>3. \A u \in Tasks \ {t} : feed[u].pc = "scraping" => feed[u].by # w /\ feed[u].by \in Subs
    BY <1>0, <2>1 DEF ScrapeInv
  <2>4. \A v \in Subs : sub'[v] = "exited" => main'.pc = "closed" /\ itemq' = "closed"
    BY <2>1, <2>2 DEF ScrapeInv, pipe
  <2>5. ASSUME NEW v \in Subs, sub'[v] = "scrape"
        PROVE  \E u \in Tasks : feed'[u].pc = "scraping" /\ feed'[u].by = v
    <3>1. v # w
      BY <2>2, <2>5
    <3>2. PICK u \in Tasks : feed[u].pc = "scraping" /\ feed[u].by = v
      BY <2>2, <2>5, <3>1 DEF ScrapeInv
    <3>. QED
      BY <2>1, <3>1, <3>2
  <2>6. \A u \in Tasks : feed'[u].pc = "scraping" => sub'[feed'[u].by] = "scrape"
    BY <2>1, <2>2, <2>3 DEF ScrapeInv
  <2>7. \A u, v \in Tasks : feed'[u].pc = "scraping" /\ feed'[v].pc = "scraping"
                            /\ feed'[u].by = feed'[v].by => u = v
    BY <2>1 DEF ScrapeInv
  <2>8. \A u \in Tasks : feed'[u].pc = "none" => feed'[u].by = NoItem
    BY <2>1 DEF ScrapeInv
  <2>. QED
    BY <2>4, <2>5, <2>6, <2>7, <2>8 DEF ScrapeInv
<1>3. ASSUME /\ \A t \in Tasks : /\ feed'[t].by = feed[t].by
                                 /\ feed'[t].pc = "none" <=> feed[t].pc = "none"
                                 /\ feed'[t].pc = "scraping" <=> feed[t].pc = "scraping",
             main'.pc # main.pc => main.pc # "closed"
      PROVE  /\ UNCHANGED <<sub, itemq>> => ScrapeInv'
             /\ (\E w \in Subs : TopicClosed(w)) => ScrapeInv'
  <2>1. ASSUME UNCHANGED <<sub, itemq>> PROVE ScrapeInv'
    BY <1>3, <2>1 DEF ScrapeInv
  <2>2. ASSUME NEW w \in Subs, TopicClosed(w) PROVE ScrapeInv'
    <3>1. /\ main.pc = "closed" /\ main' = main /\ sub[w] = "recv" /\ itemq' = "closed"
          /\ sub' = [sub EXCEPT ![w] = "exited"]
      BY <2>2 DEF TopicClosed
    <3>2. sub'[w] = "exited" /\ \A v \in Subs : v # w => sub'[v] = sub[v]
      BY <1>0, <3>1
    <3>3. \A t \in Tasks : feed[t].pc = "scraping" => feed[t].by # w /\ feed[t].by \in Subs
      BY <1>0, <3>1 DEF ScrapeInv
    <3>. QED
      BY <1>3, <3>1, <3>2, <3>3 DEF ScrapeInv
  <2>. QED
    BY <2>1, <2>2
<1>4. ASSUME NEW t \in Tasks, FeedNext(t) PROVE ScrapeInv'
  <2>1. /\ feed[t].pc = "next" /\ feed'[t].pc = "list" /\ feed'[t].by = feed[t].by
        /\ \A u \in Tasks \ {t} : feed'[u] = feed[u]
        /\ UNCHANGED <<main, sub, itemq>>
    BY <1>4, FeederNext DEF pipe
  <2>. QED
    BY <1>3, <2>1
<1>5. ASSUME \A w \in Subs : ~TaskSend(w) /\ ~Scrape(w), \A t \in Tasks : ~FeedNext(t)
      PROVE  ScrapeInv'
  <2>1. \A t \in Tasks : /\ feed'[t].by = feed[t].by
                         /\ feed'[t].pc = "none" <=> feed[t].pc = "none"
                         /\ feed'[t].pc = "scraping" <=> feed[t].pc = "scraping"
    BY <1>5, FeedersKept
  <2>2. \/ \E w \in Subs : TopicClosed(w)
        \/ UNCHANGED <<sub, itemq>>
    BY <1>5
       DEF vars, pipe, Next, MainStep, StoreTask, IndexBegin, IndexEnd, MainWait, CloseTaskQ,
           StartStep, Dispatch, StartLeavesLoop, SwgWait, AddWorker, SubStep, FeedStep, FeedList,
           FilterStores, ItemSend, SendOnClosed, FeedEnd, WorkStep, Receive, WorkerExit,
           CountStep, Count, CountEnd
  <2>3. main'.pc # main.pc => main.pc # "closed"
    BY <1>5
       DEF vars, Next, MainStep, StoreTask, IndexBegin, IndexEnd, MainWait, CloseTaskQ,
           StartStep, Dispatch, StartLeavesLoop, SwgWait, AddWorker, SubStep, TopicClosed,
           FeedStep, FeedList, FilterStores, ItemSend, SendOnClosed, FeedEnd, WorkStep, Receive,
           WorkerExit, CountStep, Count, CountEnd
  <2>. QED
    BY <1>3, <2>1, <2>2, <2>3
<1>. QED
  BY <1>1, <1>2, <1>4, <1>5

(* Nothing enters a queue that has been closed (scrapperV1.go:268-290).     *)
LEMMA DrainStep ==
    ASSUME RestTyped, L!TypeOK, DrainInv, [Next]_vars PROVE DrainInv'
<1>0. /\ start \in {"loop", "left", "blocked", "woken", "over"} /\ exited \subseteq Workers
      /\ q \in [Kinds -> Seq(Items)] /\ QueueOf \in [Workers -> Kinds]
      /\ itemq \in {"open", "closed"}
  BY ScrapperAssumption DEF RestTyped
<1>1. ASSUME UNCHANGED <<start, hand, q, qopen, exited>>, itemq' = "open" => itemq = "open"
      PROVE  DrainInv'
  BY <1>1 DEF DrainInv
<1>2. CASE Dispatch
  <2>1. /\ start = "loop" /\ hand' = NoItem /\ UNCHANGED <<start, itemq, qopen, exited>>
    BY <1>0, <1>2 DEF Dispatch, DrainInv, workers
  <2>2. exited = {}
    BY <1>0, <2>1 DEF DrainInv
  <2>. QED
    BY <2>1, <2>2 DEF DrainInv
<1>3. CASE StartLeavesLoop
  BY <1>3 DEF StartLeavesLoop, DrainInv, workers, Closing
<1>4. CASE SwgWait
  <2>1. /\ start # "loop" /\ start' # "loop" /\ UNCHANGED <<itemq, hand, q, qopen, exited>>
    BY <1>4 DEF SwgWait, workers
  <2>. QED
    BY <2>1 DEF DrainInv
<1>5. ASSUME NEW t \in Tasks, ItemSend(t) PROVE DrainInv'
  BY <1>5 DEF ItemSend, DrainInv, workers
<1>6. ASSUME NEW w \in Workers, Receive(w) PROVE DrainInv'
  <2>1. /\ q[QueueOf[w]] # <<>> /\ q' = [q EXCEPT ![QueueOf[w]] = Tail(@)]
        /\ UNCHANGED <<itemq, start, hand, qopen, exited>>
    BY <1>6 DEF Receive
  <2>2. \A v \in exited : q'[QueueOf[v]] = q[QueueOf[v]]
    BY <1>0, <2>1 DEF DrainInv
  <2>. QED
    BY <2>1, <2>2 DEF DrainInv
<1>7. ASSUME NEW w \in Workers, WorkerExit(w) PROVE DrainInv'
  BY <1>0, <1>7 DEF WorkerExit, DrainInv
<1>8. CASE \/ UNCHANGED vars \/ MainStep \/ \E w \in Workers : AddWorker(w)
           \/ \E w \in Subs : SubStep(w)
           \/ \E t \in Tasks : FeedNext(t) \/ FeedList(t) \/ FilterStores(t) \/ SendOnClosed(t)
                               \/ FeedEnd(t)
           \/ \E i \in Items : CountStep(i)
  <2>1. UNCHANGED <<start, hand, q, qopen, exited>> /\ (itemq' = "open" => itemq = "open")
    BY <1>8
       DEF vars, pipe, workers, MainStep, StoreTask, IndexBegin, IndexEnd, MainWait, CloseTaskQ,
           AddWorker, SubStep, TaskSend, Scrape, TopicClosed, FeedNext, FeedList, FilterStores,
           SendOnClosed, FeedEnd, CountStep, Count, CountEnd
  <2>. QED
    BY <1>1, <2>1
<1>. QED
  BY <1>2, <1>3, <1>4, <1>5, <1>6, <1>7, <1>8 DEF Next, StartStep, FeedStep, WorkStep

(* All of it together, with what the record knows of itself.                *)
LEMMA GoInductive ==
    Spec => [](Known /\ HoldAll /\ LateInv /\ LP!IInv /\ GoInv)
<1>1. Spec => []LP!IInv
  BY LedgerAssumed, PipelineImplementsLedger, SameLedger, LP!Inductive, PTL
<1>2. Known /\ LateInv /\ LP!IInv /\ GoInv /\ [Next]_vars => GoInv'
  BY RecordStep, LeftStep, ListingStep, ScrapeStep, DrainStep
     DEF Known, LateInv, LP!IInv, GoInv
<1>. QED
  BY <1>1, <1>2, PipelineInductive, GoInit, PTL DEF Spec

(* Among the workers not yet counted there is one that comes next: of imgq  *)
(* if one is left, else of vidq, else of msgq.                              *)
LEMMA OneComesNext == Workers \ added # {} => AddGoesOn
<1> SUFFICES ASSUME NEW x \in Workers \ added PROVE AddGoesOn
  OBVIOUS
<1>1. /\ \A w \in Workers : QueueOf[w] \in {"imgs", "vids", "msg"}
      /\ Rank["imgs"] = 1 /\ Rank["vids"] = 2 /\ Rank["msg"] = 3
  BY ScrapperAssumption DEF Rank
<1>2. CASE \E w \in Workers \ added : QueueOf[w] = "imgs"
  BY <1>1, <1>2 DEF AddGoesOn
<1>3. CASE /\ \A w \in Workers \ added : QueueOf[w] # "imgs"
           /\ \E w \in Workers \ added : QueueOf[w] = "vids"
  BY <1>1, <1>3 DEF AddGoesOn
<1>4. CASE \A w \in Workers \ added : QueueOf[w] \notin {"imgs", "vids"}
  BY <1>1, <1>4 DEF AddGoesOn
<1>. QED
  BY <1>2, <1>3, <1>4

(* Where nothing can go on everything is done, taken backwards: the mutex   *)
(* is free; no worker has an item, no queue and not Start; no feeder waits; *)
(* no topic worker scrapes, so that one receives; main has sent its jobs.   *)
LEMMA Settles ==
    ASSUME Known, HoldAll, LateInv, LP!IInv, GoInv, Running, Subs # {}, ~GoesOn
    PROVE  Settled
<1>0. /\ \A i \in Items : ~CountGoesOn(i)
      /\ \A t \in Tasks : ~FeedGoesOn(t)
      /\ \A w \in Workers : ~WorkGoesOn(w)
      /\ \A w \in Subs : ~SubGoesOn(w)
      /\ ~MainGoesOn /\ ~StartGoesOn /\ ~AddGoesOn
  BY DEF GoesOn
<1>1. /\ PipeInv /\ CurInv /\ SubmitInv /\ RestTyped /\ L!TypeOK
      /\ MainInv /\ FeedInv /\ RecordInv /\ LeftInv /\ ListingInv /\ ScrapeInv /\ DrainInv
      /\ StartedInv
  BY DEF Known, PipeInv, GoInv, LateInv
<1>2. /\ pc \in [Items -> L!Stage] /\ \A i \in Items : TaskOf[i] \in Tasks /\ i # NoItem
      /\ feed \in [Tasks -> Feeder] /\ q \in [Kinds -> Seq(Items)]
      /\ work \in [Workers -> Items \cup {NoItem}] /\ hand \in Items \cup {NoItem}
      /\ start \in {"loop", "left", "blocked", "woken", "over"} /\ itemq \in {"open", "closed"}
      /\ sub \in [Subs -> {"recv", "scrape", "exited"}] /\ added \subseteq Workers
      /\ l \in Items \cup {NoItem}
  BY <1>1, ScrapperAssumption DEF RestTyped, FeedInv, L!TypeOK
<1>3. \A i \in Items : pc[i] # "counting" /\ pc[i] # "listing"
  <2>1. ASSUME NEW i \in Items, pc[i] = "listing" PROVE FALSE
    <3>1. feed[TaskOf[i]].pc = "list" /\ feed[TaskOf[i]].cur = i
      BY <1>1, <2>1 DEF ListingInv
    <3>. QED
      BY <1>0, <1>2, <2>1, <3>1 DEF FeedGoesOn
  <2>. QED
    BY <1>0, <2>1 DEF CountGoesOn
<1>4. l = NoItem
  BY <1>2, <1>3 DEF LP!IInv, LP!LockInv, LP!InSection
<1>5. ASSUME NEW i \in Items, Skipping(i) \/ Processing(i) PROVE FALSE
  <2>1. Fd(i) \/ Wd(i)
    BY <1>5 DEF Skipping, Processing, Fd, Wd
  <2>2. pc[i] \notin {"post", "counted", "listing", "counting"}
    BY <1>3, <2>1 DEF HoldAll, HoldInv
  <2>3. pc[i] \in {"listed", "incrementing"}
    BY <1>2, <2>2 DEF L!Stage
  <2>. QED
    BY <1>0, <1>4, <1>5, <2>3 DEF CountGoesOn
<1>6. \A w \in Workers : work[w] = NoItem
  BY <1>2, <1>5 DEF Processing
<1>7. added = Workers
  BY <1>0, <1>2, OneComesNext
<1>8. \A w \in Workers \ exited : q[QueueOf[w]] = <<>> /\ QueueOf[w] \in qopen
  BY <1>0, <1>6, <1>7 DEF WorkGoesOn
<1>9. \A k \in Kinds : q[k] = <<>>
  <2> SUFFICES ASSUME NEW k \in Kinds PROVE q[k] = <<>>
    OBVIOUS
  <2>1. PICK w \in Workers : QueueOf[w] = k
    BY ScrapperAssumption
  <2>. QED
    BY <1>1, <1>8, <2>1 DEF DrainInv
<1>10. hand = NoItem
  <2> SUFFICES ASSUME hand # NoItem PROVE FALSE
    OBVIOUS
  <2>1. TypeOf[hand] \in Kinds
    BY <1>2, ScrapperAssumption
  <2>2. Len(q[TypeOf[hand]]) = 0 /\ 0 < Cap
    BY <1>9, <2>1, ScrapperAssumption
  <2>. QED
    BY <1>0, <2>2 DEF StartGoesOn
<1>11. ASSUME NEW t \in Tasks PROVE feed[t].pc \in {"none", "scraping", "ended"}
  <2>1. feed[t].pc # "list"
    <3> SUFFICES ASSUME feed[t].pc = "list" PROVE FALSE
      OBVIOUS
    <3>1. feed[t].cur \in Items /\ pc[feed[t].cur] = "listing"
      BY <1>1 DEF ListingInv, FeedInv, L!ItemsOf
    <3>. QED
      BY <1>3, <3>1
  <2>2. feed[t].pc # "filter"
    BY <1>0 DEF FeedGoesOn
  <2>3. feed[t].pc # "send"
    BY <1>0, <1>1, <1>2, <1>10 DEF FeedGoesOn, DrainInv
  <2>4. feed[t].pc # "skip"
    <3> SUFFICES ASSUME feed[t].pc = "skip" PROVE FALSE
      OBVIOUS
    <3>1. feed[t].cur \in Items /\ TaskOf[feed[t].cur] = t
      BY <1>1 DEF FeedInv, L!ItemsOf
    <3>. QED
      BY <1>5, <3>1 DEF Skipping
  <2>5. feed[t].pc # "next"
    <3> SUFFICES ASSUME feed[t].pc = "next" PROVE FALSE
      OBVIOUS
    <3>1. PICK i \in feed[t].left : TRUE
      BY <1>0 DEF FeedGoesOn
    <3>2. TaskOf[i] = t /\ pc[i] = "post" /\ kv[t].Status # "TASK_ABSENT"
      BY <1>1 DEF FeedInv, L!ItemsOf, LeftInv, RecordInv
    <3>. QED
      BY <1>0, <1>4, <3>2 DEF FeedGoesOn
  <2>. QED
    BY <1>2, <2>1, <2>2, <2>3, <2>4, <2>5 DEF Feeder
<1>12. \A w \in Subs : sub[w] # "scrape"
  <2> SUFFICES ASSUME NEW w \in Subs, sub[w] = "scrape" PROVE FALSE
    OBVIOUS
  <2>1. PICK t \in Tasks : feed[t].pc = "scraping" /\ feed[t].by = w
    BY <1>1 DEF ScrapeInv
  <2>. QED
    BY <1>0, <2>1 DEF SubGoesOn
<1>13. \A t \in Tasks : feed[t].pc \in {"none", "ended"}
  <2> SUFFICES ASSUME NEW t \in Tasks, feed[t].pc = "scraping" PROVE FALSE
    BY <1>11
  <2>1. feed[t].by \in Subs /\ sub[feed[t].by] = "scrape"
    BY <1>1 DEF StartedInv, ScrapeInv
  <2>. QED
    BY <1>12, <2>1
<1>14. ASSUME NEW i \in Items PROVE pc[i] \in {"post", "counted"}
  <2>1. ~Fd(i)
    BY <1>1, <1>2, <1>13 DEF Fd, CurInv, Busy
  <2>2. ~Hd(i) /\ ~Wd(i)
    BY <1>2, <1>6, <1>10 DEF Hd, Wd
  <2>3. ~Qd(i)
    BY <1>9 DEF Qd
  <2>. QED
    BY <2>1, <2>2, <2>3 DEF HoldAll, HoldInv
<1>15. main.pc \in {"wait", "closed"}
  <2>1. main.pc # "send"
    <3> SUFFICES ASSUME main.pc = "send" PROVE FALSE
      OBVIOUS
    <3>1. \A w \in Subs : sub[w] = "recv"
      BY <1>1, <1>2, <1>12 DEF ScrapeInv
    <3>. QED
      BY <1>0, <3>1 DEF MainGoesOn
  <2>2. main.pc # "submit"
    <3> SUFFICES ASSUME main.pc = "submit" PROVE FALSE
      OBVIOUS
    <3>1. main.n \in 1 .. Len(Jobs) /\ Pending(main.n)
      BY <1>1 DEF MainInv, Pending
    <3>. QED
      BY <1>0, <1>1, <3>1 DEF MainGoesOn, RecordInv, Job
  <2>. QED
    BY <1>0, <1>1, <2>1, <2>2 DEF MainGoesOn, MainInv, MainPcs, Running
<1>16. ASSUME main.pc = "closed"
       PROVE  /\ start \in {"blocked", "over"}
              /\ \A w \in Workers : QueueOf[w] # "msg" => w \in exited
  <2>1. \A w \in Subs : sub[w] = "exited"
    <3> SUFFICES ASSUME NEW w \in Subs, sub[w] # "exited" PROVE FALSE
      OBVIOUS
    <3>1. sub[w] = "recv"
      BY <1>2, <1>12
    <3>2. FeedersEnded(w)
      BY <1>1, <1>13, ScrapperAssumption DEF FeedersEnded, ScrapeInv
    <3>. QED
      BY <1>0, <1>16, <3>1, <3>2 DEF SubGoesOn
  <2>2. itemq = "closed"
    BY <1>1, <2>1 DEF ScrapeInv
  <2>3. start \in {"blocked", "over"}
    BY <1>0, <1>2, <1>10, <2>2 DEF StartGoesOn
  <2>4. qopen = {"msg"}
    BY <1>1, <2>3, ScrapperAssumption DEF DrainInv, Closing
  <2>. QED
    BY <1>8, <2>3, <2>4
<1>. QED
  BY <1>13, <1>14, <1>15, <1>16 DEF Settled

(* Nobody waits for anybody for ever, for any jobs, topic workers, queue    *)
(* workers and queue capacity (scrapperV1.go:157-290, api.go:107-173): the  *)
(* safety half of CommandEnds and ClosedDrains.                             *)
THEOREM NeverStuckCorrect == Spec => []NeverStuck
<1>1. Known /\ HoldAll /\ LateInv /\ LP!IInv /\ GoInv => NeverStuck
  BY Settles DEF NeverStuck
<1>. QED
  BY <1>1, GoInductive, PTL
=============================================================================
