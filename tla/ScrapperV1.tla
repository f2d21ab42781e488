----------------------------- MODULE ScrapperV1 -----------------------------
(***************************************************************************)
(* The scrapper's goroutines and channels (pkg/scrapper/scrapperV1.go) and *)
(* the command that drives them (cmd/reddit/scrape.go).                    *)
(*                                                                         *)
(*   main --TaskQ--> topic workers --go--> feeders --ItemQ--> Start        *)
(*                                                              |          *)
(*   queue workers <--imgq, vidq, msgq (buffered)---------------+          *)
(*                                                                         *)
(* TaskQ and ItemQ are unbuffered: a send and its receive are one step.    *)
(* Each goroutine's calls on the progress record are the steps of          *)
(* TaskLedger, which this specification implements.  An operation that     *)
(* leaves through a run-time error, and the return of main, stop every     *)
(* goroutine.                                                              *)
(*                                                                         *)
(* After its jobs main either waits for each of them and returns, as the   *)
(* reddit command does, or closes TaskQ, as subWorker provides for.        *)
(***************************************************************************)
EXTENDS Naturals, Sequences, FiniteSets

CONSTANTS Tasks, Items, TaskOf, NoItem, MaxLooks,   \* see TaskLedger
          Jobs,         \* the tasks in the order main submits them
          Kinds,        \* media types: "imgs", "vids", "msg"
          TypeOf,       \* the media type of an item
          Subs,         \* topic workers
          Workers,      \* queue workers
          QueueOf,      \* the media type whose queue a worker drains
          Cap,          \* capacity of imgq, vidq and msgq (10 in the code)
          Afters        \* what main may do after its last job: see AfterJobs

ASSUME ScrapperAssumption ==
    /\ IsFiniteSet(Items) /\ TaskOf \in [Items -> Tasks]
    /\ NoItem \notin Items /\ MaxLooks \in Nat
    /\ IsFiniteSet(Subs) /\ NoItem \notin Subs
    /\ Jobs \in Seq(Tasks)
    /\ \A m, n \in 1 .. Len(Jobs) : Jobs[m] = Jobs[n] => m = n
    /\ Kinds = {"imgs", "vids", "msg"}
    /\ Len(Jobs) > 0
    /\ TypeOf \in [Items -> Kinds]
    /\ QueueOf \in [Workers -> Kinds]
    /\ \A k \in Kinds : \E w \in Workers : QueueOf[w] = k
    /\ Cap \in Nat \ {0}
    /\ Afters \subseteq {"wait", "close"}

VARIABLES
    kv, l, pc, vI, local, opts, wait,   \* the progress record: see TaskLedger
    main,     \* the command: where it is and the job it is at
    idx,      \* taskStoreIdx: the keys it holds; writing: being assigned to
    sub,      \* sub[w]: what topic worker w does
    feed,     \* feed[t]: the feeder of t, its item and the posts left in p
    itemq,    \* is ItemQ open?
    start,    \* Start: in its select loop, before or in swg.Wait, woken, over
    hand,     \* the item Start has received and not put on a queue yet
    q,        \* q[k]: imgq, vidq, msgq
    qopen,    \* the queues not closed yet
    work,     \* work[w]: the item queue worker w processes
    added,    \* the queue workers startWorkers has counted in swg
    exited,   \* those that have left their range loop
    dead      \* the run-time error that killed the process, "no" if none

ledger  == <<kv, l, pc, vI, local, opts, wait>>
workers == <<work, added, exited>>
pipe    == <<itemq, start, hand, q, qopen, workers>>
vars    == <<ledger, main, idx, sub, feed, pipe, dead>>

L == INSTANCE TaskLedger

Idle == [pc |-> "none", cur |-> NoItem, left |-> {}, by |-> NoItem]

Init ==
    /\ L!Init
    /\ main   = [pc |-> "submit", n |-> 1]
    /\ idx    = [keys |-> {}, writing |-> FALSE]
    /\ sub    = [w \in Subs |-> "recv"]
    /\ feed   = [t \in Tasks |-> Idle]
    /\ itemq  = "open"
    /\ start  = "loop"
    /\ hand   = NoItem
    /\ q      = [k \in Kinds |-> <<>>]
    /\ qopen  = Kinds
    /\ work   = [w \in Workers |-> NoItem]
    /\ added  = {}
    /\ exited = {}
    /\ dead   = "no"

-----------------------------------------------------------------------------
(* main: SubmitJob for each job ...                                        *)

Job == Jobs[main.n]

StoreTask ==
    /\ main.pc = "submit"
    /\ L!SubmitJob(Job)
    /\ main' = [main EXCEPT !.pc = "stored"]
    /\ UNCHANGED <<idx, sub, feed, pipe, dead>>

(* The assignment to the map takes time, and nothing keeps readers out.    *)
IndexBegin ==
    /\ main.pc = "stored"
    /\ idx' = [idx EXCEPT !.writing = TRUE]
    /\ main' = [main EXCEPT !.pc = "indexing"]
    /\ UNCHANGED <<ledger, sub, feed, pipe, dead>>

(* The task offered on TaskQ before and after the assignment is over.      *)
IndexedLate(t) == [keys |-> idx.keys \cup {t}, writing |-> TRUE]
Indexed(t)     == [keys |-> idx.keys \cup {t}, writing |-> FALSE]

IndexEnd ==
    /\ main.pc = "indexing"
    /\ idx' = Indexed(Job)
    /\ main' = [main EXCEPT !.pc = "send"]
    /\ UNCHANGED <<ledger, sub, feed, pipe, dead>>

(* The wait loop's index counted from zero.                                *)
AfterJobsFromZero == [pc : Afters, n : {0}]

AfterJobs == [pc : Afters, n : {1}]

(* TaskQ <- &t, received by topic worker w, which calls ScrapePosts.       *)
TaskSend(w) ==
    /\ main.pc = "send"
    /\ sub[w] = "recv"
    /\ sub' = [sub EXCEPT ![w] = "scrape"]
    /\ feed' = [feed EXCEPT ![Job].pc = "scraping", ![Job].by = w]
    /\ IF main.n < Len(Jobs) THEN main' = [pc |-> "submit", n |-> main.n + 1]
                             ELSE main' \in AfterJobs
    /\ UNCHANGED <<ledger, idx, pipe, dead>>

(* ... then WaitOnId for each, and return; or the close of TaskQ.          *)
MainWait ==
    /\ main.pc = "wait"
    /\ \/ L!WaitOnId(Job) /\ UNCHANGED main
       \/ L!WaitStep(Job) /\ UNCHANGED main
       \/ /\ wait[Job].pc \in {"true", "false"}
          /\ main' = IF main.n < Len(Jobs) THEN [main EXCEPT !.n = @ + 1]
                                           ELSE [main EXCEPT !.pc = "exit"]
          /\ UNCHANGED ledger
    /\ UNCHANGED <<idx, sub, feed, pipe, dead>>

CloseTaskQ ==
    /\ main.pc = "close"
    /\ main' = [main EXCEPT !.pc = "closed"]
    /\ UNCHANGED <<ledger, idx, sub, feed, pipe, dead>>

-----------------------------------------------------------------------------
(* Topic workers.                                                          *)

(* "return" and "continue" when ScrapePosts fails.                         *)
ErrorReturns(w)   == sub' = [sub EXCEPT ![w] = "exited"]
ErrorContinues(w) == sub' = [sub EXCEPT ![w] = "recv"]

(* ScrapePosts returns an error, or a channel with all of the task's posts *)
(* or, when listing failed, with none; a goroutine of its own feeds them.  *)
Scrape(w) ==
    \E t \in Tasks :
        /\ sub[w] = "scrape"
        /\ feed[t].pc = "scraping" /\ feed[t].by = w
        /\ \/ /\ feed' = [feed EXCEPT ![t].pc = "ended"]
              /\ ErrorContinues(w)
           \/ /\ \E posts \in {{}, L!ItemsOf(t)} :
                   feed' = [feed EXCEPT ![t].pc = "next", ![t].left = posts]
              /\ sub' = [sub EXCEPT ![w] = "recv"]
        /\ UNCHANGED <<ledger, main, idx, pipe, dead>>

(* wg.Add(1) forgotten; wg.Wait().                                         *)
FeedersNotCounted(w) == TRUE
FeedersEnded(w)      == \A t \in Tasks : feed[t].by = w => feed[t].pc = "ended"

(* TaskQ closed: wg.Wait() for the feeders this worker started, closeAll.  *)
TopicClosed(w) ==
    /\ main.pc = "closed"
    /\ sub[w] = "recv"
    /\ FeedersEnded(w)
    /\ sub' = [sub EXCEPT ![w] = "exited"]
    /\ itemq' = "closed"
    /\ dead' = IF itemq = "closed" THEN "close of closed channel" ELSE dead
    /\ UNCHANGED <<ledger, main, idx, feed, start, hand, q, qopen, workers>>

-----------------------------------------------------------------------------
(* The feeder of task t.                                                   *)

FeedNext(t) ==
    /\ feed[t].pc = "next"
    /\ \E i \in feed[t].left :
         /\ L!UpdateTaskBegin(i)
         /\ feed' = [feed EXCEPT ![t].pc = "list", ![t].cur = i, ![t].left = @ \ {i}]
    /\ UNCHANGED <<main, idx, sub, pipe, dead>>

FeedList(t) ==
    /\ feed[t].pc = "list"
    /\ L!UpdateTaskEnd(feed[t].cur)
    /\ feed' = [feed EXCEPT ![t].pc = "filter"]
    /\ UNCHANGED <<main, idx, sub, pipe, dead>>

(* filterStores: the stores under the task's key that lack the file; none, *)
(* too, when the key is not found, as may happen while the map is being    *)
(* assigned to - if the run time does not notice and kill the process.     *)
FilterStores(t) ==
    /\ feed[t].pc = "filter"
    /\ \/ /\ t \in idx.keys
          /\ feed' = [feed EXCEPT ![t].pc = "send"]
          /\ UNCHANGED dead
       \/ /\ feed' = [feed EXCEPT ![t].pc = "skip"]
          /\ UNCHANGED dead
       \/ /\ idx.writing
          /\ dead' = "concurrent map read and map write"
          /\ UNCHANGED feed
    /\ UNCHANGED <<ledger, main, idx, sub, pipe>>

(* The item shared by the iterations of the loop, and one of its own.      *)
SharedItem(t) == [feed EXCEPT ![t].pc = "next"]
NextPost(t)   == [feed EXCEPT ![t].pc = "next", ![t].cur = NoItem]

(* ItemQ <- job, received by Start.                                        *)
ItemSend(t) ==
    /\ feed[t].pc = "send"
    /\ itemq = "open"
    /\ start = "loop" /\ hand = NoItem
    /\ hand' = feed[t].cur
    /\ feed' = NextPost(t)
    /\ UNCHANGED <<ledger, main, idx, sub, dead, itemq, start, q, qopen, workers>>

SendOnClosed(t) ==
    /\ feed[t].pc = "send"
    /\ itemq = "closed"
    /\ dead' = "send on closed channel"
    /\ UNCHANGED <<ledger, main, idx, sub, feed, pipe>>

FeedEnd(t) ==
    /\ feed[t].pc = "next"
    /\ feed[t].left = {}
    /\ feed' = [feed EXCEPT ![t].pc = "ended"]
    /\ UNCHANGED <<ledger, main, idx, sub, pipe, dead>>

-----------------------------------------------------------------------------
(* Start, and startWorkers.  A goroutine that has been launched and not    *)
(* been scheduled is at its first step, so only swg.Add is seen of them.   *)

Rank == [imgs |-> 1, vids |-> 2, msg |-> 3]

(* startWorkers, a goroutine too: the workers of imgq, then vidq, then     *)
(* msgq.  Counting one while a Wait that has been woken is not over is a   *)
(* misuse of the wait group that the run time may notice.                  *)
AddWorker(w) ==
    /\ w \notin added
    /\ \A v \in Workers \ added : Rank[QueueOf[w]] <= Rank[QueueOf[v]]
    /\ \/ added' = added \cup {w} /\ UNCHANGED dead
       \/ start = "woken" /\ dead' = "WaitGroup misuse" /\ UNCHANGED added
    /\ UNCHANGED <<ledger, main, idx, sub, feed, itemq, start, hand, q, qopen, work, exited>>

(* Newest first, and last.                                                 *)
Pushed(k, i) == [q EXCEPT ![k] = <<i>> \o @]
Queued(k, i) == [q EXCEPT ![k] = Append(@, i)]

(* The switch on the item's type; a full queue blocks it, whatever the     *)
(* type of the items behind.                                               *)
Dispatch ==
    LET k == TypeOf[hand] IN
    /\ hand # NoItem
    /\ Len(q[k]) < Cap
    /\ q' = Queued(k, hand)
    /\ hand' = NoItem
    /\ UNCHANGED <<ledger, main, idx, sub, feed, dead, itemq, start, qopen, workers>>

(* What Start closes: vidq forgotten, and as it is.                        *)
ImgqOnly == {"imgs"}
Closing  == {"imgs", "vids"}

(* ItemQ closed.                                                           *)
StartLeavesLoop ==
    /\ start = "loop" /\ hand = NoItem
    /\ itemq = "closed"
    /\ start' = "left"
    /\ qopen' = qopen \ Closing
    /\ UNCHANGED <<ledger, main, idx, sub, feed, dead, itemq, hand, q, workers>>

(* swg.Wait returns at once when nobody is counted, or when woken by the   *)
(* last one that was.                                                      *)
SwgWait ==
    /\ start \in {"left", "woken"}
    /\ IF added = exited THEN start' = "over" /\ UNCHANGED dead
       ELSE IF start = "left" THEN start' = "blocked" /\ UNCHANGED dead
       ELSE dead' = "WaitGroup misuse" /\ UNCHANGED start
    /\ UNCHANGED <<ledger, main, idx, sub, feed, itemq, hand, q, qopen, workers>>

-----------------------------------------------------------------------------
(* Queue workers.                                                          *)

Receive(w) ==
    LET k == QueueOf[w] IN
    /\ work[w] = NoItem /\ w \in added \ exited
    /\ q[k] # <<>>
    /\ work' = [work EXCEPT ![w] = Head(q[k])]
    /\ q' = [q EXCEPT ![k] = Tail(@)]
    /\ UNCHANGED <<ledger, main, idx, sub, feed, dead, itemq, start, hand, qopen, added, exited>>

WorkerExit(w) ==
    /\ work[w] = NoItem /\ w \in added \ exited
    /\ q[QueueOf[w]] = <<>> /\ QueueOf[w] \notin qopen
    /\ exited' = exited \cup {w}
    /\ start' = IF start = "blocked" /\ added = exited' THEN "woken" ELSE start
    /\ UNCHANGED <<ledger, main, idx, sub, feed, dead, itemq, hand, q, qopen, work, added>>

-----------------------------------------------------------------------------
(* increment(i), by the worker whose process(i) is over, saved or failed,  *)
(* or by the feeder when no store needs the item.                          *)

Skipping(i)   == feed[TaskOf[i]].pc = "skip" /\ feed[TaskOf[i]].cur = i
Processing(i) == \E w \in Workers : work[w] = i

Count(i) ==
    /\ Skipping(i) \/ Processing(i)
    /\ L!Increment(i) \/ L!UpdateItemDoneBegin(i)
    /\ UNCHANGED <<main, idx, sub, feed, pipe, dead>>

CountEnd(i) ==
    /\ L!UpdateItemDoneEnd(i)
    /\ feed' = IF Skipping(i) THEN NextPost(TaskOf[i]) ELSE feed
    /\ work' = [w \in Workers |-> IF work[w] = i THEN NoItem ELSE work[w]]
    /\ UNCHANGED <<main, idx, sub, dead, itemq, start, hand, q, qopen, added, exited>>

-----------------------------------------------------------------------------
Running == dead = "no" /\ main.pc # "exit"

MainStep    == StoreTask \/ IndexBegin \/ IndexEnd \/ MainWait \/ CloseTaskQ
SubStep(w)  == TaskSend(w) \/ Scrape(w) \/ TopicClosed(w)
FeedStep(t) == \/ FeedNext(t) \/ FeedList(t) \/ FilterStores(t)
               \/ ItemSend(t) \/ SendOnClosed(t) \/ FeedEnd(t)
StartStep   == Dispatch \/ StartLeavesLoop \/ SwgWait
WorkStep(w) == Receive(w) \/ WorkerExit(w)
CountStep(i) == Count(i) \/ CountEnd(i)

Next ==
    /\ Running
    /\ \/ MainStep
       \/ StartStep
       \/ \E w \in Workers : AddWorker(w)
       \/ \E w \in Subs : SubStep(w)
       \/ \E t \in Tasks : FeedStep(t)
       \/ \E w \in Workers : WorkStep(w)
       \/ \E i \in Items : CountStep(i)

Spec == Init /\ [][Next]_vars

(* Goroutines are scheduled, and the calls they make outside (listing,     *)
(* download, forward) return.                                              *)
FairSpec ==
    /\ Spec
    /\ WF_vars(Running /\ MainStep)
    /\ WF_vars(Running /\ StartStep)
    /\ WF_vars(Running /\ \E w \in Workers : AddWorker(w))
    /\ \A w \in Subs : WF_vars(Running /\ SubStep(w))
    /\ \A t \in Tasks : WF_vars(Running /\ FeedStep(t))
    /\ \A w \in Workers : WF_vars(Running /\ WorkStep(w))
    /\ \A i \in Items : WF_vars(Running /\ CountStep(i))

-----------------------------------------------------------------------------
Feeder == [pc : {"none", "scraping", "next", "list", "filter", "send", "skip", "ended"},
           cur : Items \cup {NoItem}, left : SUBSET Items, by : Subs \cup {NoItem}]

RunTimeErrors == {"no", "concurrent map read and map write",
                  "close of closed channel", "send on closed channel", "WaitGroup misuse"}

TypeOK ==
    /\ L!TypeOK
    /\ main \in [pc : {"submit", "stored", "indexing", "send", "wait", "exit",
                       "close", "closed"},
                 n : 1 .. Len(Jobs)]
    /\ idx \in [keys : SUBSET Tasks, writing : BOOLEAN]
    /\ sub \in [Subs -> {"recv", "scrape", "exited"}]
    /\ feed \in [Tasks -> Feeder]
    /\ itemq \in {"open", "closed"}
    /\ start \in {"loop", "left", "blocked", "woken", "over"}
    /\ hand \in Items \cup {NoItem}
    /\ q \in [Kinds -> Seq(Items)]
    /\ qopen \in SUBSET Kinds
    /\ work \in [Workers -> Items \cup {NoItem}]
    /\ added \in SUBSET Workers /\ exited \in SUBSET added
    /\ dead \in RunTimeErrors

(* Who has item i.                                                         *)
HeldAt(i) ==
    { <<"feeder", t>> : t \in {t \in Tasks : feed[t].cur = i} }
      \cup { <<"hand", 0>> : x \in {x \in {hand} : x = i} }
      \cup (UNION { { <<k, n>> : n \in {n \in DOMAIN q[k] : q[k][n] = i} } : k \in Kinds })
      \cup { <<"worker", w>> : w \in {w \in Workers : work[w] = i} }

(* An item that has been reported and not yet counted is held by exactly   *)
(* one goroutine or queue slot, any other by none: it is neither dropped   *)
(* between two channels nor processed twice (scrapperV1.go:171-209,        *)
(* 268-289).                                                               *)
HeldOnce ==
    \A i \in Items :
        Cardinality(HeldAt(i)) = IF pc[i] \in {"post", "counted"} THEN 0 ELSE 1

(* What is on its way from the feeder of t to the workers of k, the oldest *)
(* first, and the items of t and k among it.                               *)
Flow(t, k) == q[k] \o <<hand, feed[t].cur>>
OfFlow(i, t, k) == i # NoItem /\ TaskOf[i] = t /\ TypeOf[i] = k

(* The feeder of t has reported i before j.                                *)
ReportedBefore(t, i, j) ==
    \E a, b \in DOMAIN vI[t] : a < b /\ vI[t][a] = i /\ vI[t][b] = j

(* Items of one task and type stay in the order in which the feeder        *)
(* reported them, from the feeder through Start to the end of the queue.   *)
OrderKept ==
    \A t \in Tasks, k \in Kinds : \A m, n \in DOMAIN Flow(t, k) :
        m < n /\ OfFlow(Flow(t, k)[m], t, k) /\ OfFlow(Flow(t, k)[n], t, k)
            => ReportedBefore(t, Flow(t, k)[m], Flow(t, k)[n])

(* taskStoreIdx is read and assigned at once only when a later job is      *)
(* submitted while a feeder is at work (api.go:57, scrapperV1.go:221): the *)
(* task's own entry is complete before the task is offered on TaskQ.       *)
RaceNeedsLaterJob ==
    dead = "concurrent map read and map write" => main.n > 1

(* With one topic worker, ItemQ is closed once, after every feeder is done *)
(* sending, and imgq and vidq after that (scrapperV1.go:214-216,271-276).  *)
CloseAfterFeeders ==
    Cardinality(Subs) = 1 =>
        /\ itemq = "closed" => \A t \in Tasks : feed[t].pc \in {"none", "ended"}
        /\ dead \notin {"close of closed channel", "send on closed channel"}

(* When each goroutine can go on, polls and run-time errors apart.         *)

MainGoesOn ==
    \/ main.pc = "submit" /\ kv[Job] = L!NoTask
    \/ main.pc \in {"stored", "indexing", "close"}
    \/ main.pc = "send" /\ \E w \in Subs : sub[w] = "recv"

SubGoesOn(w) ==
    \/ sub[w] = "scrape" /\ \E t \in Tasks : feed[t].pc = "scraping" /\ feed[t].by = w
    \/ main.pc = "closed" /\ sub[w] = "recv" /\ FeedersEnded(w)

FeedGoesOn(t) ==
    \/ /\ feed[t].pc = "next"
       /\ \/ feed[t].left = {}
          \/ \E i \in feed[t].left :
                pc[i] = "post" /\ kv[TaskOf[i]].Status # "TASK_ABSENT" /\ l = NoItem
    \/ feed[t].pc = "list" /\ pc[feed[t].cur] = "listing"
    \/ feed[t].pc = "filter"
    \/ feed[t].pc = "send" /\ (itemq = "closed" \/ (start = "loop" /\ hand = NoItem))

StartGoesOn ==
    \/ hand # NoItem /\ Len(q[TypeOf[hand]]) < Cap
    \/ start = "loop" /\ hand = NoItem /\ itemq = "closed"
    \/ start \in {"left", "woken"}

AddGoesOn ==
    \E w \in Workers \ added : \A v \in Workers \ added : Rank[QueueOf[w]] <= Rank[QueueOf[v]]

WorkGoesOn(w) ==
    /\ work[w] = NoItem /\ w \in added \ exited
    /\ q[QueueOf[w]] # <<>> \/ QueueOf[w] \notin qopen

CountGoesOn(i) ==
    \/ /\ Skipping(i) \/ Processing(i)
       /\ pc[i] = "listed" \/ (pc[i] = "incrementing" /\ l = NoItem)
    \/ pc[i] = "counting"

GoesOn ==
    \/ MainGoesOn \/ StartGoesOn \/ AddGoesOn
    \/ \E w \in Subs : SubGoesOn(w)
    \/ \E t \in Tasks : FeedGoesOn(t)
    \/ \E w \in Workers : WorkGoesOn(w)
    \/ \E i \in Items : CountGoesOn(i)

(* All that has been reported is counted, every feeder is over, and main   *)
(* polls, or has closed TaskQ and the workers of imgq and vidq have left:  *)
(* those of msgq, and Start for their sake, are there for good.            *)
Settled ==
    /\ main.pc \in {"wait", "closed"}
    /\ \A t \in Tasks : feed[t].pc \in {"none", "ended"}
    /\ \A i \in Items : pc[i] \in {"post", "counted"}
    /\ main.pc = "closed" =>
          /\ start \in {"blocked", "over"}
          /\ \A w \in Workers : QueueOf[w] # "msg" => w \in exited

(* Nobody waits for anybody for ever: while the process runs, some         *)
(* goroutine other than a polling main can take its next step, or all the  *)
(* work is done.  The unbuffered TaskQ and ItemQ, full queues, s.l and     *)
(* both wait groups could each hold everybody up (scrapperV1.go:157-290,   *)
(* api.go:58,107-173).                                                     *)
NeverStuck == Running /\ Subs # {} => GoesOn \/ Settled

(* Whatever fails - a listing, a scrape, a save - every SubmitJob returns  *)
(* and the command comes to its end, though SubmitJob waits for a topic    *)
(* worker and topic workers, feeders, Start and queue workers wait for     *)
(* each other, if no run-time error kills it (scrapperV1.go:157-211,       *)
(* cmd/reddit/scrape.go:40-62).                                            *)
CommandEnds == main.pc = "submit" ~> main.pc = "closed" \/ ~Running

(* After a close of TaskQ every reported item is still counted, through    *)
(* full queues, skips, lock contention and workers that come late, and the *)
(* image and video workers leave, if the wait group is not misused.        *)
ClosedDrains ==
    main.pc = "closed" ~>
        \/ /\ \A i \in Items : pc[i] \in {"post", "counted"}
           /\ \A w \in Workers : QueueOf[w] # "msg" => w \in exited
        \/ dead = "WaitGroup misuse"
=============================================================================
