# content-pirate in TLA+

A model of content-pirate, a program that scrapes posts from subreddits and
telegram chats and saves them in directories or forwards them to chats.  The
modules are written from the Go source (paths below are relative to `src/`);
third-party code under `vendor/` is modelled only where the program depends on
what it does, and marked external in `PROJECT.json`.

## 1. The system

| component | code | state | operations |
|---|---|---|---|
| progress record | `pkg/scrapper/api.go`, `task.go` | one JSON record per task in the KV, the mutex `s.l` | `SubmitJob`, `GetJob`, `CheckJob`, `WaitOnId`, `UpdateTask`, `UpdateItemDone`, `increment` |
| scrapper pipeline | `pkg/scrapper/scrapperV1.go` | channels `TaskQ`, `ItemQ`, `imgq`, `vidq`, `msgq`, the map `taskStoreIdx`, the wait group `swg`, one goroutine per worker and feeder | `Start`, `startWorkers`, `subWorker`, its feeders, `filterStores`, `queueWorker`, `process`, `closeAll` |
| reddit scrape command | `cmd/reddit/scrape.go` | job ids | submit all, wait for all, return |
| destinations and cache | `process`, `saveItem`, `filterStores`, `store/FileStore.go`, `store/telegram.go` | files, forwarded messages, the bolt file "cache" | `GetStore`, `ItemExists`, `Write`, cache `Get`/`Set` |
| reddit listings | `pkg/reddit/reddit.go` | budget and page token of a call | `GetPosts`, `SearchSubreddits`, `GetSubscribedSubreddits` |
| reddit source | `sources/reddit.go` | the channel of posts | `ScrapePosts`, `convertToPosts`, `DownloadItem` |
| telegram source and command | `sources/telegram.go`, `cmd/telegram/scrape.go` | `LastFrom`, job ids | rounds of `SubmitJob`, `scrape` |
| telegram client | `pkg/telegram/telegram.go` | `t.c`, `t.close`, `t.manager` | `heartBeat`, `GetClientWithStore`, `GetChatHistory`, `ForwardMsg`, ... |
| file downloads | `pkg/telegram/iter.go`, `dl.go`, `elem.go`, `progress.go` | position, `i.err`, `i.elem`, `i.finished`, the temporary files, the resume key | `Next`, `Value`, `Run`, `OnDone` |
| dialog list | `pkg/telegram/ls.go` | page offsets | `List`, `processUser/Channel/Chat`, `fetchTopics` |
| in-memory KV | `pkg/kv/inmemory.go` | a map under its own mutex | `Get`, `Set` (`Del` has no caller) |
| telegram login | `pkg/telegram/login.go`, `cmd/telegram/login.go` | the code hash in the phone's store, the session | `SendCode`, `Otp` |
| telegram storage | `pkg/telegram/storage.go` | bolt files, each open in one process at a time | `GetOrCreateStore`, `NewStore` |
| chats and send commands | `cmd/telegram/ls.go`, `sendMsg.go` | - | open the store, test the login, one call |
| other commands, types, logging, libraries | rest of `pkg`, `cmd`, `commons`, `vendor` | - | not modelled, see section 7 |

How they interact:

    command --SubmitJob--> KV record, taskStoreIdx, TaskQ (unbuffered)
    topic worker <--TaskQ;  ScrapePosts --channel--> a feeder goroutine per task
    feeder: UpdateTask (KV, under s.l), filterStores (taskStoreIdx, os.Stat),
            ItemQ (unbuffered), or increment when no store needs the item
    Start <--ItemQ;  by type --> imgq | vidq | msgq (10 places each)
    queue worker: DownloadItem, then saveItem over the item's stores
                  (cache.Get, Write, cache.Set), then increment (KV, s.l)
    command: WaitOnId polls the KV record until it looks complete or times out
    heartbeat: every 5 s a goroutine that may replace the client used above
    commands started at the same time share the bolt files: "cache", and one
            for each phone number with its session and its code hash

What is hard in it, and where it is listed (`PROJECT.json`, hazards):

* **Shared records.** Feeders and workers of all tasks rewrite whole JSON
  records; `increment` reads one outside the mutex under which it is written.
* **Channels.** Unbuffered and bounded channels in a row, a close that several
  goroutines make, a channel that nobody closes, a map assigned to while other
  goroutines read it.
* **Partial failure and restarts.** An error in one store ends `saveItem`; the
  cache on disk outlives the files, the process and the record.
* **Paging and retries.** Budgets and tokens of listings, windows of chat
  history that overlap, forum topics with deleted ones among them.
* **Overlapping timers.** Heartbeat goroutines that overtake each other; the time
  limit of an item, which runs while the item waits.
* **Several processes.** A login takes two of them, and others may come between.

What makes each component correct, and which property says so:

* progress record: it lists exactly what has been fed (`RecordListsItems`), it
  never over-reports progress (`DoneNeverAhead`), a TRUE of `WaitOnId` is worth
  something (`WaitTrueCoversSeen`), every listed item gets counted
  (`ListedIsCounted`), and all of that amounts to what a caller may rely on
  (`KeepsPromises`).
* pipeline: no item is lost or handled twice between two channels (`HeldOnce`),
  items of a task and type keep their order (`OrderKept`), nobody waits for
  anybody for ever (`NeverStuck`), the first job is safe from the map race
  (`RaceNeedsLaterJob`), one topic worker closes in order
  (`CloseAfterFeeders`), commands end (`CommandEnds`), and a close drains the
  pipeline (`ClosedDrains`).
* stores and cache: a key in the cache means a complete item in the store
  (`CachedIsStored`, `HitMeansFound`), a chat gets a bounded number of copies
  (`CopiesBounded`), what is fed gets everywhere, whatever earlier runs have left,
  unless an error of it is logged (`FedGetsStored`).
* listings and reddit source: a prefix of the listing, as long as asked for
  (`LimitNearlyKept`); in finitely many requests the feeder has read exactly what
  was wanted and the channel is closed (`FedIsWanted`).
* telegram source: every new message once, but of those whose files have one name
  only the first (`SentOnce`, `EventuallyForwarded`).
* telegram client: `CrashNeedsFailure`, `DeadIsReplaced`, and a bound on the
  connections nobody closes (`ClientsBounded`).
* downloads: success means all files, and whole (`NilMeansAll`), failure has a
  reason (`ErrorHasReason`), `Run` comes back (`RunReturns`).
* dialog list: complete (`ListIsComplete`), and it ends (`ListEnds`).
* login and storage: a store belongs to one process (`TypeOK`), the stored hash
  is the newest code's (`HashIsNewest`), which is therefore not refused
  (`NewestCodeSignsIn`).

## 2. The modules

**TaskProgress** - the abstract specification: what a caller of `SubmitJob` and
`WaitOnId` may rely on, without mutex, private copies or channels.  The list of a
task's items only grows, its progress never exceeds what is done, and a wait that
ends with TRUE has once found all items of a list that was not empty done.

**TaskLedger** - the progress record.  `kv[t]` is the record of a task as
`KV.Get` returns it (status, `ItemDone`, `TotalItem`, `I`); `pc[i]` says how far
the calls made on behalf of item `i` have got.  `UpdateTask` and
`UpdateItemDone` are split at their `KV.Get` and `KV.Set` (`...Begin`, `...End`),
with `l` held between; the third read, that of `increment` before the lock, is
the action `Increment`.  `WaitOnId` has an action for its loop head
(`Deadline`), its look (`CheckJob`) and its sleep (`Wake`): what it decides on
has been read before it slept.  `P == INSTANCE TaskProgress WITH ...` is the
refinement mapping: the record's list and count, the items counted, and the
waits whose last look was at a complete record.  TaskLedger is in turn what
ScrapperV1 implements, so that the promises hold of the whole pipeline.

**ScrapperV1** - the goroutines, the channels and the command.  Every goroutine has
a variable (`main`, `sub`, `feed`, `start`/`hand`, `work`), every channel is a
sequence or, if unbuffered, a joint step of sender and receiver.  The operations on
the record are steps of TaskLedger, taken through `L == INSTANCE TaskLedger` on the
same variables, so that the pipeline implements TaskLedger by the way it is
written.  The assignment to `taskStoreIdx` has a beginning and an end; a feeder's
read in between finds the key, or does not, or is noticed by the run time, which
kills the process (`dead`).  So do a send on a closed `ItemQ` and its second close.
`startWorkers` is the action `AddWorker`, which may come late: `swg.Wait`
(`SwgWait`) then finds fewer workers than there will be, returns at once if there
are none, and may notice that one is added while it wakes up. After its jobs the
command either waits and returns (which ends all goroutines, as in
`cmd/reddit/scrape.go`) or closes `TaskQ`, for which `subWorker` has code and which
an embedding program may do (`Afters`).

**StoreCache** - the destinations of an item.  The stores an item still has to go to
are a set of places in `Dst`, and the worker is at the first of them. `disk` is by
path: `Write` makes the path from `Dst` and `FileName`, `ItemExists` from `BasePath`
and `FileName`, and the difference is kept.  `os.Create` and the write after it are
two steps; `CacheHit`/`CacheMiss`, `ForwardMsg` and `CacheSet` are the others.  A
setup has directories or chats and not both, because `SubmitJob` takes every
destination of a telegram source for a chat, and panics if it is not, and gives a
chat no client for any other source (`api.go:33-36`).  `SubmitJob` opens the stores
(`createStructure`), which with `Clean` removes what they hold. The time limit of an
item runs from when it is fed: `Expire` may come while it is queued, and
`DownloadItem` then fails.  `failed` are the items of which an error has been logged
(`process`).  `Crash` is any end of the process; files, chats and cache outlive it.
`setup` chooses among names of one's own, shared and empty ones, `Clean`, whether
there is a time limit, and how many workers there are.

**RedditListing** - one call of one of the three listings, page by page
(`Ask`, `Answer`), with a 429 that is retried (`RateLimited`) and other errors
(`Fails`).  The listing is `1 .. total` and a token is the number of posts
before the page, so that prefix, order and length can be compared.  It is a part of
RedditSource, which gives it its specification.

**RedditSource** - `ScrapePosts`, that is, a call of `GetPosts` page by page, and
its goroutine, which runs on the posts got, or on none after an error: `Convert` is
one turn of `convertToPosts`' loop, with the loop over a gallery as a recursive
function (`Gallery`), `Send` one send on the buffered channel, `Close` the deferred
close, `Receive` the feeder.  `Wanted` is the reference definition of what a listing
comes to, said file by file and without the loop.

**TelegramScrape** - the rounds of the telegram command.  A message has a date,
the name of its file, by which alone the cache knows it and which it may share with
another, and is a `tg.Message` or not; `GetChatHistory` and `scrape` are the
window, `Round` is a job, and a worker takes its posts through the cache to
`ForwardMsg`.  What a feeder has left is the set of their numbers in the chat,
and it sends the newest first.

**TelegramClient** - the heartbeat and its callers.  Clients are numbered in the
order in which they are connected, 0 is nil.  A tick begins a goroutine whatever
older ones are doing; its ping, reconnect, `t.c = c` and `t.manager = ...` are
separate steps, as are a caller's use of `t.manager` and, later, of `t.c`.  No
client is ever closed, so `clients` counts connections.

**DownloadIter** - the iterator, with an action for each way `Next` can go, and
the loop of the downloader that drives it.  `whole` is the set of messages whose
temporary file is complete: `os.Create` comes before the element is handed out,
and truncates what an earlier download of the same message has written.  A
request for an album that fails or is canceled gives an empty album and no error
(`GetGroupedMessages` of the library, which does not ask its iterator): `swallowed`
are the positions where that has happened.  Downloads that are still going when an
error ends `Run` go on beside those of the next (`late`).  `Run`
may be interrupted and run again, with what is stored in between (`Saved`,
`Resumed`).  A request says for each message
whether it has a file, is filtered or has no media, and which album it is in.
The loop of `processGrouped` (`FilesOf`) passes over the files it cannot create
(`lost`).

**TelegramList** - `List` dialog by dialog and `fetchTopics` page by page, whose
loop passes over the topics that have been deleted (`Topics`).

**Filter** - what both loops do, "append each element that is in the set", as a
recursive function (`Filtered`), so that it is proved about once.

**TelegramLogin** - several processes, each with a command, that come and go.  A
process opens its stores in order (`GetOrCreateStore`), one that is busy being an
error, connects, looks at its status and then sends a code, submits one, or does
what the command is for.  Codes are numbered, and the hash of code n is n, so
that "newest" can be said.  What the store holds and what the session is
outlive the processes.

**TaskLedgerProofs**, **ScrapperV1Proofs**, **StoreCacheProofs**,
**RedditSourceProofs**, **TelegramScrapeProofs**, **TelegramClientProofs**,
**TelegramLoginProofs**, **DownloadIterProofs** - the theorems; those of
TelegramList, which is instantiated there as `List`, are at the end of
DownloadIterProofs, after what is proved of `Filtered`.  **MCTaskLedger**,
**MCScrapperV1**, **MCStoreCache**, **MCRedditSource**, **MCDownloadIter** hold the
instances; the other modules are checked directly, their constants being numbers and
sets.

Definitions whose comment names a slip ("without ...", "... forgotten") and
which no specification uses are deliberately wrong versions of the definition
that follows them: each property is checked to fail with one of them in its
place.

## 3. The runs

Passing runs:

| run | instance | states | what it shows |
|---|---|---|---|
| `ledger` | tasks of two items and of one, two looks before the deadline | 114,320 | All orders of two items of one task against each other, against another task and against two pollers.  Two items are enough for a lost increment, and the looks for a poll before, between and after the writes.  Listed items get counted, and TaskProgress is implemented. |
| `scrapper` | two jobs of two items and one, two topic workers, three queue workers, queues of two; `TaskQ` is closed after the jobs | 327,758 | The pipeline neither loses, duplicates nor reorders items, through skips, failures, late workers and run-time errors, and never comes to where everybody waits. |
| `scrapper_live` | two jobs of one item, one topic worker, three queue workers, queues of one; waiting or closing | 63,480 | Every `SubmitJob` returns and the command ends; after a close everything reported is counted and the image and video workers leave. |
| `store` | two directories or two chats; an item in two jobs and one beside it; six setups; one fault, one restart | 372,679 | What a cache key means, also one of an earlier run, copies in a chat, delivery to all stores unless an error is logged. |
| `reddit` | all listings of two posts with galleries of up to three files, all options, a buffer of two; listings of up to 8 posts, pages of 3, limits 0 to 7, up to 2 answers 429 | 660,418 | Ends before, at and after page boundaries with the budget above, at and below them; pages, conversion and feeding agree with `Wanted`. |
| `download` | three shapes of dialogs, four mixes of messages, two album layouts, with and without `Group`: 48 requests; two runs, two downloads at a time, one fault | 775,017 | What `nil` and an error of `Run` mean, also after an interrupted run and beside its downloads, and where alone it does not return. |
| `client` | two heartbeats at once, a caller, two connections lost, two faults | 72,053 | When a nil client is met, how many clients pile up, that a dead client is replaced. |
| `telegram_scrape` | three messages with two file names, a window of two, two feeders, one worker, a fault, a restart | 507,131 | Overlapping windows: once each, and none missed that stays in the window, but for a second message of one name. |
| `telegram_list` | all pairs of dialogs, forums of up to four topics in pages of two, one fault | 42,774 | Completeness over partial, full and empty last pages. |
| `login` | two processes at a time, three codes, two faults, accounts with and without a password | 247,190 | Logins that overlap, are killed or lose an answer: the hash in the store, and who is refused. |

Runs that show a disagreement (section 6): `ledger_lost`, `store_no_name`.

Bounds: `MaxLooks` (polls before `WaitOnId`'s deadline), `Cap` (10 in the code;
one and two make queues full), `MaxFaults`, `MaxCrashes`, `MaxDrops`,
`MaxRetries`, `MaxRuns`, `MaxClock`, `MaxMsgs`, `MaxCodes`.  Each is a constant,
tested in the guard of the action it limits.  Two jobs are the fewest for a map
race, two topic workers for a double close, three workers for one on each queue;
two heartbeats for an overlap; three codes for one lost between two others.
`scrapper` has no wait after the jobs (`scrapper_live` has), which would only
multiply the states by those of the pollers `ledger` explores.

Deadlock is not checked: each of these systems stops by design when its work is
done, when the command has returned or when an error has killed the process; that
work does get done is what the liveness properties are for.

## 4. Fairness

* Goroutines are scheduled, and calls to the network and the disk return: weak
  fairness on the steps of each goroutine.  Every HTTP request and download has
  a context or client limit; for the rest it is an assumption.
* The mutex: finitely many sections take `s.l` in an instance, so weak fairness
  of each item's steps is enough to get it.
* `startWorkers` gets to its workers, at some time (`AddWorker`).
* `RedditSource`: requests are answered (`List`); a 429 may come `MaxRetries`
  times, not for ever.
* `TelegramScrape`: strong fairness for each feeder that waits to send, because
  senders on a Go channel queue first come, first served.  `Start` is fair: the
  user runs the program again.
* The deadline of `WaitOnId` passes.
* `TelegramLogin` assumes nothing: its properties are about safety alone.
* No failure is forced: actions that are nothing but a failure (`NextFails`,
  `TopicsFail`, `RateLimited`, `Fails`) are in no fairness condition.  Nothing is
  assumed of which way the command goes after its jobs, of crashes, faults, time
  limits, lost connections, messages arriving, or a caller cancelling.

## 5. What is proved

`TaskLedgerProofs`, for any set of tasks, any finite set of items, any
assignment of items to tasks and any deadline (`LedgerAssumption`):

| theorem | statement |
|---|---|
| `TypeCorrect` | `Spec => []TypeOK` |
| `Inductive` | `Spec => [](TypeOK /\ IInv)` |
| `RecordCorrect` | `Spec => []RecordListsItems` |
| `DoneCorrect` | `Spec => []DoneNeverAhead` |
| `WaitCorrect` | `Spec => []WaitTrueCoversSeen` |
| `ListCorrect` | `Spec => ListOnlyExtends` |
| `Refinement` | `Spec => KeepsPromises`, that is, `Spec => P!Spec` |

The invariants are not inductive as they stand.  `IInv` adds that

* exactly the item in a section holds `s.l` (`LockInv`), and the copy it edits is
  still the record (`CopyInv`): no write meanwhile, hence no list overwritten;
* the feeder's own `v.I` has as many items as it has read (`FeedInv`), so that
  `TotalItem` is the number of listed items although it comes from `v.I` and the
  list from the record;
* an absent record has no items and a started one at least one (`StatusInv`);
* an increment under way will store at least 1, and not more than the items counted
  by the time it is over (`OptsInv`).  The read outside the lock can only be out of
  date, that is, too small: the number of counted items only grows.  This is why
  lost increments make the record under-report and never over-report;
* a poller that is asleep has seen a status whose listed items, if it looks
  complete, are all counted (`SeenInv`).

`CompleteMeansCounted` joins them: `ItemDone >= TotalItem` with `ItemDone` at most
the counted and `TotalItem` exactly the listed leaves no listed item uncounted,
by the cardinality of finite sets.  The step lemmas have one case per action.
`Refinement` uses the same invariant: `UpdateTaskEnd` maps to `Report`, the end
of an increment to `Finish` with progress between 1 and the count (`OptsInv`), a
look at a complete record to `Look` (`CompleteMeansCounted`), the rest to stutters.

`ScrapperV1Proofs`, for any distinct jobs, any finite set of items of the three
media types, any topic and queue workers and any queue capacity
(`ScrapperAssumption`):

| theorem | statement |
|---|---|
| `PipelineTypeCorrect` | `Spec => []TypeOK` |
| `PipelineProgress` | `Spec => []LP!DoneNeverAhead /\ []LP!RecordListsItems` |
| `PipelinePromises` | `Spec => LP!KeepsPromises` |
| `HeldOnceCorrect` | `Spec => []HeldOnce` |
| `OrderCorrect` | `Spec => []OrderKept` |
| `RaceCorrect` | `Spec => []RaceNeedsLaterJob` |
| `CloseCorrect` | `Spec => []CloseAfterFeeders` |
| `NeverStuckCorrect` | `Spec => []NeverStuck` |

A step of the pipeline is a step of the record or leaves it alone, provided main is
at a job and a feeder's item is one of its own task (`PipeInv`); that is
`PipelineImplementsLedger`, which says little by itself.  With it the theorems of
`TaskLedgerProofs`, instantiated as `LP`, hold of the pipeline, and two refinements
compose: pipeline, record, promises (`SameLedger` says that the record is the same
in both).  For `HeldOnce` the places an item can be are `Fd` (its feeder), `Hd`
(Start), `Qd` (a queue) and `Wd` (a worker).  `HoldInv` says that at most one of
them holds, that one does exactly while the item is reported and not counted, and
that whoever increments has the item; `QueueOnce` and `WorkOnce`, that it is in one
slot or with one worker.  This needs that an idle feeder holds nothing (`CurInv`)
and that a job is not sent on TaskQ while its feeder is already at work
(`SubmitInv`).  There is one lemma per kind of step, from `HoldFeedNext` to
`HoldCountEnd`, and `HoldSame` for the others.

For `OrderKept` the record's list is the clock: what is in a queue, in Start's
hand and with a feeder has been reported, and in that order, from the one to the
next (`OrderInv`).  Since an item is in one place only (`HoldInv`), an item that
enters a queue is reported later than all of its task that are there.  The
next two rest on `LateInv`: a feeder belongs to a job that main has submitted
(`StartedInv`), the map is assigned to only by main (`WritingInv`), and the one
topic worker of `CloseAfterFeeders` is over, and its feeders with it, when ItemQ
is closed (`ClosedInv`).

`NeverStuck` is freedom from deadlock, the safety half of `CommandEnds` and
`ClosedDrains`: as long as no run-time error has killed the process, some
goroutine can take a step that is not a poll (`GoesOn`), or there is nothing left
to do (`Settled`: everything reported is counted, the feeders are over, main waits
or has closed TaskQ, and then every worker of imgq and vidq has left).  `GoesOn`
collects the guards of the actions, goroutine by goroutine, because the prover has
no `ENABLED`; on the instance of `scrapper` TLC finds it to agree with `ENABLED` of
the steps that are not polls.  The proof goes
backwards through the channels.  If nobody can go on, the mutex is free, since
whoever has it can give it back; so workers hold nothing, every queue is empty,
Start's hand is empty and it takes from ItemQ, the feeders are over, topic workers
receive or have left, and main has sent its last job.  This needs that a job has
its record when its feeder reads it (`RecordInv`), that what a feeder has left is
still to be reported (`LeftInv`, `ListingInv`), that a topic worker scrapes for
one feeder only (`ScrapeInv`), and that Start leaves nothing behind (`DrainInv`).
`Subs # {}`, that there is a topic worker, is what the defaults of the configuration
see to (`scrapperV1.go:300-302`).

`TelegramClientProofs`, for any finite sets of heartbeats and callers and any
bounds (`ClientAssumption`):

| theorem | statement |
|---|---|
| `ClientInductive` | `Spec => []Inv` |
| `ClientTypeCorrect` | `Spec => []TypeOK` |
| `CrashCorrect` | `Spec => []CrashNeedsFailure` |
| `ClientsCorrect` | `Spec => []ClientsBounded` |

`CrashNeedsFailure` alone is not inductive, because a nil client is on its way in
a goroutine before it is in `t.c`: `BeatInv` says that no goroutine holds one
before a reconnect has failed.  `ClientsBounded` is a matter of accounts: a
connection that is lost, or a ping that fails without, pays for the clients that
may be connected because of it.  `Due` are those still to come, one for each
goroutine about to connect and one for each that can still find the same lost
client unanswering; `Paid` says that clients and `Due` together are within the
bound.  That no goroutine comes to the same client twice needs `Fresh`: a client
on its way to `t.c` is with one goroutine alone.

`TelegramLoginProofs`, for any finite set of processes and any numbers of codes
and faults (`LoginAssumption`):

| theorem | statement |
|---|---|
| `LoginInductive` | `Spec => []Inv` |
| `LoginTypeCorrect` | `Spec => []TypeOK` |
| `HashCorrect` | `Spec => []HashIsNewest` |
| `NewestCodeCorrect` | `Spec => NewestCodeSignsIn` |

The argument is mutual exclusion by the bolt file.  A process is past the opening
of its stores with all of them (`PlaceInv`), and a store has one owner
(`LockInv`), so at most one process is at the steps of a login (`LoginAlone`).
Hence a hash on its way to the store is the newest code's, and one that has been
read is still the one in the store (`CarryInv`); `HashInv` says `HashIsNewest`
without the maximum, and `HashInvMeans` that the two agree.  A step that neither
sends a code nor stores a hash keeps all of it (`QuietMove`, `QuietExit`), which
leaves `SendCode`, `SetHash` and `Kill` (`SendStep`, `StoreStep`).

`StoreCacheProofs`, for any jobs, items, stores, names, finite set of workers and
set of setups, any number of faults and restarts (`StoreAssumption`):

| theorem | statement |
|---|---|
| `StoreInductive` | `Spec => []StoreInv` |
| `TypeCorrect` | `Spec => []TypeOK` |
| `CachedCorrect` | `Spec => []CachedIsStored` |
| `CopiesCorrect` | `Spec => []CopiesBounded` |
| `HitCorrect` | `Spec => HitMeansFound` |
| `DrainedCorrect` | `Spec => []DrainedIsStored` |

`CachedIsStored` says nothing of a worker that is about to set a key, nor of what
another may be doing to the file meanwhile.  `FileInv` is for all names that are
in the cache or about to be: unless work of several workers was cut short, the
file of that name is complete or somebody is at it (`Complete`, `Writer`).  With
one worker a crash or an error cannot catch a second one at the path:
`AloneInv`, a worker that is alone writes only what is not in the cache.  For a
chat, `SetSent` and `ChatInv`: the message has been sent before its key is set.
`CopiesBounded` counts for each chat and item: `Paid` sets the copies against
those who have sent and not yet set the key, as long as there is no key, and
against those who can still send, once there is; a fault pays for one copy, a
restart for one from each worker.

`DrainedIsStored` is the safety half of `FedGetsStored`: while nothing has failed, a
post that was fed with a name of its own, of which no error (a time limit) was
logged, and that is with no queue and no worker any more, is complete in every store
that is not cleaned.  There may have been restarts, unless several workers were at
work (`CutShort`): what an earlier run has left in the cache is right.  A post is
queued for all of its stores, because nothing is ever written where `ItemExists`
looks (`RootInv`); from then on each store is before the post in the queue or with a
worker, or its key is kept (`DueInv`), whichever worker of whichever job has set it,
and what stands behind a key is `FileInv` and `ChatInv`.

`RedditSourceProofs`, for any listing, limit, sizes of pages, number of retries,
galleries of up to any size and capacity of the channel (`SourceAssumption` and
that of RedditListing):

| theorem | statement |
|---|---|
| `SourceInductive` | `Spec => [](PageInv /\ FeedInv)` |
| `TypeCorrect` | `Spec => []TypeOK` |
| `LimitCorrect` | `Spec => []LimitNearlyKept` |
| `FedCorrect` | `Spec => []FedWhenClosed` |

`PageInv`: what has come is a prefix of the listing that ends where the token
stands (`Prefix`), and with what is left of the budget, the page under way
included, it makes the limit but for the pages that 429s have cost
(`PostsBudget`, `SearchBudget`).  `FeedInv`: what has been fed, what is in the
channel and what is converted, one after the other, are exactly the wanted files
of the posts converted so far, each once and in order (`FilesCome`).
`FedWhenClosed` is the part of `FedIsWanted` that is about safety; that the
channel is closed in the end stays with the run.

`TelegramScrapeProofs`, for any chat, clock, limit, finite sets of feeders and
workers, numbers of faults and restarts (`WindowAssumption`):

| theorem | statement |
|---|---|
| `ScrapeInductive` | `Spec => []ScrapeInv` |
| `TypeCorrect` | `Spec => []TypeOK` |
| `SentCorrect` | `Spec => []SentOnce` |
| `NothingMissedCorrect` | `Spec => NothingMissed` |

The account is that of the copies in a chat: those who have forwarded a message
and not marked it (`Marking`) before there is a mark, those who have found none
(`Forwarding`) after.  `NothingMissed` is the safety half of
`EventuallyForwarded`, an action property: a round takes every message that is in
the window, and what has been taken stays with a feeder or a worker until it is
forwarded, unless another message of its file name has been, a request fails or the
program ends.  It needs that a key is never in the cache for nothing: there is one
because a message of that name was forwarded (`KeySent`).

`DownloadIterProofs`, for any set of requests, any limit, number of runs and of
faults (`IterAssumption`):

| theorem | statement |
|---|---|
| `IterInductive` | `Spec => []IterInv` |
| `TypeCorrect` | `Spec => []TypeOK` |
| `NilCorrect` | `Spec => []NilMeansAll` |
| `ReasonCorrect` | `Spec => []ErrorHasReason` |
| `WaitCorrect` | `Spec => [](pc = "value" /\ elem = <<>> => StuckAtEmptyAlbum)` |

What joins iterator and downloads is a count: for each message, what has been
started of it and what waits on `i.elem` are together at most the positions
passed at which it is due, and exactly these if it has a file and `i.err` is not
set (`Counted`).  A step of `Next` passes at most the position it is at, and puts
on `i.elem` what is due there (`NextPasses`).  A loop that is over without an
error has passed everything it can reach (`AtLast`), because it ends at the last
message or at a dialog without messages, and it has come past no such dialog
before (`Fresh`).  `Filed` follows the latest download of a message: its file is
truncated for another that waits on `i.elem`, or is whole, or the download has
failed or is still going.

`WaitCorrect` is the safety half of `RunReturns`: `Value` waits for an element that
does not come only at an album with nothing to download, one whose files could not
be created, or one that could not be had (`WaitHasReason`: `Next` has passed a
position that put nothing on `i.elem`, `Barren`).  After an album that could not be
had the run goes no further (`Hung`), which is why success means all files in spite of
it.

The same module has the theorems of TelegramList, for any page size and any
numbers of dialogs, topics and failed requests (`ListAssumption`):

| theorem | statement |
|---|---|
| `ListCorrect` | `List!Spec => []List!ListIsComplete` |
| `PagingAdvances` | `List!Spec => [][PagingMoves]_List!vars` |

`ListInv` says that the result is complete up to the dialog `List` is at
(`ListedTo`), and that within a forum the topics taken are those up to the offset,
in order (`TopicsTo`).  A page continues at the offset, and what is taken of it are
the topics among its elements (`PageTaken`); a page shorter than `PageSize`
reaches the end of the forum.  `PagingMoves` is the safety half of `ListEnds`: a
page that is not the last moves the offset on, unless `PageSize` deleted topics in
a row lie ahead.

**On induction.** `Filtered` (for `FilesOf` and `Topics`) and `Gallery` are loops over
data, written as recursive functions.  The library's induction theorems take an
operator as a parameter and cannot be used here; these modules prove what is
needed of the two loops from the well-foundedness of `<` instead: a set of numbers
with 0 and the successor of each member is `Nat` (`NatInd`), applied to the set of
those k for which the first k turns have done what they should.

**Model-checked only**: liveness.  Fairness and `ENABLED` are outside what the
prover handles, so that a goroutine that can take a step does take it, and that the
steps come to an end, is left to the runs.  What liveness rests on is proved:
`NeverStuckCorrect`, `DrainedCorrect`, `FedCorrect`, `NothingMissedCorrect`,
`WaitCorrect` and `PagingAdvances` each say that the state in which something is
left to do, and nobody can do it or has it, does not come.  The promise of
`DeadIsReplaced` and that of `ListedIsCounted` outside the pipeline have no such
half.

## 6. Where code and words disagree

Shown by a run:

* `ledger_lost`: two increments that read before either writes store the same
  `ItemDone`; the record stays below its total and `WaitOnId` runs into its
  deadline (`api.go:157-168`).
* `store_no_name`: single images and videos are posts without `FileName`
  (`sources/reddit.go:92-116`); `ItemExists` then looks at the directory itself,
  finds it, and the post is skipped as one that "exists in all stores".

Known from modelling, stated in the properties as the exceptions they are:

* `WaitOnId` can return TRUE while posts are still fed: complete is judged by the
  total so far (`WaitTrueCoversSeen` claims no more).
* With several topic workers (15 by default) and a close of `TaskQ`, each waits
  for its own feeders and closes the one `ItemQ`: a feeder of another sends on a
  closed channel, or the second close panics (`CloseAfterFeeders` is for one).
* `msgq` is never closed, so that `Start` waits for its workers for ever
  (`ClosedDrains` and `NeverStuck` leave them out), unless it gets to `swg.Wait`
  before `startWorkers` has added the first of them, and then it returns with workers
  still to come.
* The time limit of an item runs from when it is fed and not from when its
  download begins, so that one that waits long fails, with an error in the log
  (`FedGetsStored`).
* `SubmitJob` panics when a telegram source has a directory among its destinations,
  and a chat as destination of any other source has no client (`api.go:33-36`).
* A client that has been replaced is not closed; connections pile up, though
  overlapping heartbeats add no more than one each (`ClientsBounded`).
* Errors of storing the code hash are not looked at, and the first that is heard
  of one is that the code is refused (`NewestCodeSignsIn`).  The status of a user
  whose status cannot be had is looked at all the same, and is nil (`WhoAmI`,
  outcome "panic").
* The cache outlives files removed by `Clean` or by hand, and items of two chats
  can share a key (`HitMeansFound`, `CachedIsStored`).
* So can two messages of one chat: the key is made of the name of the document
  (`scrapperV1.go:137`, `telegram.go:300-311`), and of two that are called
  `video.mp4` the second is never forwarded (`EventuallyForwarded`).
* `Clean` empties the directory for each job, not at the start of the program.
* A 429 on a page costs that page's budget; on the last page the retry asks with
  a budget of 0, that is, for a default page (`LimitNearlyKept`).
* Errors of the subreddit listings are logged and not returned, and without a
  response the code panics on `resp.After`.
* `LastFrom` is computed once, so that the window of later rounds begins further
  and further back (`SentOnce` shows that the cache makes up for it).
* After a failed reconnect `t.c` is nil, and the heartbeat that should repair it
  panics on it, time and again.
* Of two heartbeats that reconnect at the same time, the one whose client is replaced
  first may be the last to set `t.manager`.  The pings then go to `t.c`, which is well,
  and if the manager's client is lost nobody replaces it (`DeadIsReplaced` is about
  `t.c` alone).
* A dialog without messages ends the iteration over those after it, a message
  without media in an album does so although its error is said to be ignored
  ("best effort, ignore error", `iter.go:252`), and since nobody calls `Finish` the
  progress stored for resuming is always empty.
* An album without files, or none of whose files could be created, makes `Value` wait
  for ever.  So does an album whose request failed or was canceled, though it has
  files: `GetGroupedMessages` (`vendor/.../tutil.go:210-252`) does not look at its
  iterator's error, and `processGrouped` takes the empty album for a success.  A
  cancellation does not end that wait (`RunReturns`, `StuckAtEmptyAlbum`).
* `ls.go:108,111` set the access hash of a nil `Dialog` before it is tested at
  116 (the outcome "panic" of TelegramList).

## 7. What is abstracted and what is left out

* Scrapper: a goroutine that has been launched and not scheduled is at its first
  step, so that only `swg.Add` shows when workers start.  A download that fails
  stands for any reason.  Posts of a task are fed in any order, which covers
  every listing.  Ids are unique.  `Start`'s switch has no default, but sources
  make no items of other types.
* Stores: `masterCounter` and `vidCounter` are only printed.  Files are
  identified by path and by whose content they have.
* Downloads: file names, templates and the fingerprint.  The question whether to
  resume, and the deletion of what is stored when the answer is no, cannot be
  reached: nobody calls `Finish`, so that the progress stored is always empty.
* Dialog list: formatting, filters (the only caller passes "true"), the offset by
  message of a page of topics.
* Telegram client: what each method asks of telegram, but for `GetChatHistory`
  and `ListChats`.
* In-memory KV: `Get` and `Set` are one step each, under the KV's own mutex; `Del`
  has no caller.
* The number of jobs a long-running telegram command keeps is unbounded in the
  code; the model forgets a job nothing waits for.
* Other commands (`cmd/reddit/search.go`, `user.go`, the roots) parse flags and make
  one call each, of what RedditListing models.  That the reddit scrape command
  prints a list of destinations that is empty is a matter of output.  Types,
  field copying and logging keep no state; libraries are external.

## 8. Plan

Done: the record, its abstract specification and its proofs; the pipeline as its
refinement, with its wait group; stores, cache and time limits; listings and
source as one system; telegram source, client, downloads with their temporary
files; the dialog list; login and storage - each with its safety properties proved,
and the safety half of its liveness properties where it has one worth stating.

Next: an abstract specification of a store with a cache, "a copy of each item for
each chance to lose the key", that StoreCache and TelegramScrape implement, since
their accounts (`Paid`) are the same.
