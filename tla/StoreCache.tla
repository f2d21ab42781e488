----------------------------- MODULE StoreCache -----------------------------
(***************************************************************************)
(* Where an item goes (scrapperV1.go process, saveItem, filterStores;      *)
(* store/FileStore.go, store/telegram.go): the destinations of a job, the  *)
(* files and forwarded messages in them, and the "cache" store on disk     *)
(* that remembers, across runs of the program, which file name has been    *)
(* saved in which store.                                                   *)
(*                                                                         *)
(* The queues between feeder and worker are ScrapperV1's; here a fed item  *)
(* waits in a set.  A crash stands for any end of the process with work    *)
(* under way, the normal return of the command included; the files, the    *)
(* sent messages and the cache outlive it.                                 *)
(***************************************************************************)
EXTENDS Naturals, Sequences, FiniteSets

CONSTANTS Jobs,        \* the jobs the command submits in each run
          Items,       \* posts, by content
          ItemsOf,     \* the items job j's source yields
          NoName,      \* the empty FileName
          AcOf,        \* SourceAc of an item: its directory under BasePath
          Root,        \* BasePath itself
          Dst,         \* the job's destination stores, in order
          Workers,     \* queue workers
          Setups,      \* the setups considered: see setup
          MaxFaults,   \* errors of the network or disk, in all runs
          MaxCrashes

Stores == {Dst[n] : n \in DOMAIN Dst}
Acs    == {AcOf[i] : i \in Items}

ASSUME StoreAssumption ==
    /\ IsFiniteSet(Workers)
    /\ ItemsOf \in [Jobs -> SUBSET Items]
    /\ DOMAIN AcOf = Items /\ Root \notin Acs
    /\ Dst \in Seq(Stores)
    /\ \A m, n \in DOMAIN Dst : Dst[m] = Dst[n] => m = n
    /\ \A s \in Setups : /\ DOMAIN s.NameOf = Items
                          /\ s.FileStores \in {{}, Stores} /\ s.Clean \subseteq s.FileStores
                          /\ s.workers \subseteq Workers /\ s.timed \in BOOLEAN
    /\ MaxFaults \in Nat /\ MaxCrashes \in Nat

VARIABLES
    setup,      \* NameOf: FileName of an item; FileStores: the stores of this
                \* kind; Clean: those of them opened with Clean; workers: the
                \* queue workers started; timed: items have a time limit that
                \* DownloadItem looks at (RedditStore's)
    submitted,  \* the jobs SubmitJob has been called for in this run
    fed,        \* <<j, i>>: the feeder of j is done with its post i
    queue,      \* the DownloadItemJobs no worker has received yet
    late,       \* <<j, i>>: the time limit of the item has passed meanwhile
    failed,     \* <<j, i>>: process has logged an error of the item
    work,       \* work[w]: what worker w does
    cache,      \* the keys <<store, FileName>> of cache.Kvd
    disk,       \* disk[s][p]: what the file at path p of FileStore s holds
    sent,       \* sent[s][i]: copies of message i in the chat of store s
    faults, crashes

run  == <<submitted, fed, queue, late, failed, work>>
vars == <<setup, run, cache, disk, sent, faults, crashes>>

NameOf     == setup.NameOf
FileStores == setup.FileStores
Clean      == setup.Clean
Names      == {NameOf[i] : i \in Items}
Paths      == (Acs \cup {Root}) \X Names

Path(i) == <<AcOf[i], NameOf[i]>>

(* Worker w: its item and the store it is at, the first of those left.     *)
At(w, where) == work[w].pc = where
First(w)     == CHOOSE n \in work[w].stores : \A m \in work[w].stores : n <= m
St(w)        == Dst[First(w)]
Item(w)      == work[w].i
KeyOfName(w) == <<Dst[1], NameOf[Item(w)]>>  \* a key that leaves out the store
Key(w)       == <<St(w), NameOf[Item(w)]>>

Contents == Items \cup {"absent", "partial"}
Stopped  == [pc |-> "idle"]

(* An item's stores are their places in Dst.                               *)
StoreLists      == (SUBSET DOMAIN Dst) \ {{}}
DownloadItemJob == [job : Jobs, i : Items, stores : StoreLists]

Init ==
    /\ setup \in Setups
    /\ submitted = {} /\ fed = {} /\ queue = {} /\ late = {} /\ failed = {}
    /\ work  = [w \in Workers |-> Stopped]
    /\ cache = {}
    /\ disk  = [s \in Stores |-> [p \in Paths |-> "absent"]]
    /\ sent  = [s \in Stores |-> [i \in Items |-> 0]]
    /\ faults = 0 /\ crashes = 0

-----------------------------------------------------------------------------
(* Feeding.                                                                *)

(* The files of the stores once they have been opened: with Clean, none.   *)
createStructure == [s \in Stores |-> IF s \in Clean THEN [p \in Paths |-> "absent"]
                                                    ELSE disk[s]]

(* SubmitJob opens the job's stores; a file that is being written then may *)
(* be removed.  A source is for stores of one kind: SubmitJob panics at a  *)
(* FileStore for the telegram source, and sets the client of a             *)
(* TelegramStore for no other.                                             *)
SubmitJob(j) ==
    /\ j \notin submitted
    /\ submitted' = submitted \cup {j}
    /\ disk' = createStructure
    /\ work' = [w \in Workers |-> IF At(w, "data") /\ St(w) \in Clean
                                  THEN [work[w] EXCEPT !.pc = "unlinked"] ELSE work[w]]
    /\ UNCHANGED <<setup, fed, queue, late, failed, cache, sent, faults, crashes>>

(* os.Stat of BasePath/FileName; a TelegramStore never has an item.        *)
ItemExists(s, i) ==
    /\ s \in FileStores
    /\ NameOf[i] = NoName \/ disk[s][<<Root, NameOf[i]>>] # "absent"

filterStores(i) == {n \in DOMAIN Dst : ~ItemExists(Dst[n], i)}

Feed(j, i) ==
    /\ j \in submitted /\ i \in ItemsOf[j] /\ <<j, i>> \notin fed
    /\ fed' = fed \cup {<<j, i>>}
    /\ queue' = IF filterStores(i) = {} THEN queue
                ELSE queue \cup {[job |-> j, i |-> i, stores |-> filterStores(i)]}
    /\ UNCHANGED <<setup, submitted, late, failed, work, cache, disk, sent, faults, crashes>>

-----------------------------------------------------------------------------
(* process(i) by worker w: DownloadItem, then saveItem store by store.     *)

(* The last store of the item: after the first, and after one too many.    *)
AtLastReturn(w) == TRUE
AtLastEmpty(w)  == work[w].stores = {}
AtLast(w)       == work[w].stores = {First(w)}

NextStore(w) == IF AtLast(w) THEN Stopped
                ELSE [work[w] EXCEPT !.pc = "check", !.stores = @ \ {First(w)}]

(* An error of Write ends saveItem; or is logged, and the key set.         *)
AfterErrorIgnored(w) == [work[w] EXCEPT !.pc = "set"]
AfterError(w)        == Stopped

Fault == faults < MaxFaults /\ faults' = faults + 1

Fails(w) ==
    /\ Fault
    /\ failed' = failed \cup {<<work[w].job, Item(w)>>}
    /\ work' = [work EXCEPT ![w] = AfterError(w)]

(* The context an item got when it was fed expires before a worker has     *)
(* received it.                                                            *)
Expire(d) ==
    /\ setup.timed /\ d \in queue
    /\ late' = late \cup {<<d.job, d.i>>}
    /\ UNCHANGED <<setup, submitted, fed, queue, failed, work, cache, disk, sent, faults,
                   crashes>>

DownloadItem(w) ==
    /\ w \in setup.workers
    /\ At(w, "idle")
    /\ \E d \in queue :
         /\ queue' = queue \ {d}
         /\ \/ /\ <<d.job, d.i>> \notin late
               /\ work' = [work EXCEPT ![w] = [pc |-> "check", job |-> d.job, i |-> d.i,
                                               stores |-> d.stores]]
               /\ UNCHANGED <<faults, failed>>
            \/ /\ (<<d.job, d.i>> \in late /\ UNCHANGED faults) \/ Fault
               /\ failed' = failed \cup {<<d.job, d.i>>}
               /\ UNCHANGED work
    /\ UNCHANGED <<setup, submitted, fed, late, cache, disk, sent, crashes>>

CacheHit(w) ==
    /\ At(w, "check")
    /\ Key(w) \in cache
    /\ work' = [work EXCEPT ![w] = NextStore(w)]
    /\ UNCHANGED <<setup, submitted, fed, queue, late, failed, cache, disk, sent, faults,
                   crashes>>

(* cache.Kvd.Get reads the memory map of an open file, and has no error    *)
(* but that the key is absent.                                             *)
CacheMiss(w) ==
    /\ At(w, "check")
    /\ Key(w) \notin cache
    /\ work' = [work EXCEPT ![w].pc = "write"]
    /\ UNCHANGED <<setup, submitted, fed, queue, late, failed, cache, disk, sent, faults,
                   crashes>>

(* FileStore.Write: os.Create truncates what the path held; an error, of   *)
(* this call or of the write after it, ends saveItem.                      *)
Create(w) ==
    /\ At(w, "write") /\ St(w) \in FileStores
    /\ \/ /\ disk' = [disk EXCEPT ![St(w)][Path(Item(w))] = "partial"]
          /\ work' = [work EXCEPT ![w].pc = "data"]
          /\ UNCHANGED <<faults, failed>>
       \/ Fails(w) /\ UNCHANGED disk
    /\ UNCHANGED <<setup, submitted, fed, queue, late, cache, sent, crashes>>

WriteData(w) ==
    /\ At(w, "data") \/ At(w, "unlinked")
    /\ \/ /\ disk' = IF At(w, "unlinked") THEN disk
                    ELSE [disk EXCEPT ![St(w)][Path(Item(w))] = Item(w)]
          /\ work' = [work EXCEPT ![w].pc = "set"]
          /\ UNCHANGED <<faults, failed>>
       \/ Fails(w) /\ UNCHANGED disk
    /\ UNCHANGED <<setup, submitted, fed, queue, late, cache, sent, crashes>>

(* TelegramStore.Write: the answer to a forward that was carried out may   *)
(* be lost, an error like the others.                                      *)
ForwardMsg(w) ==
    /\ At(w, "write") /\ St(w) \notin FileStores
    /\ \/ /\ sent' = [sent EXCEPT ![St(w)][Item(w)] = @ + 1]
          /\ work' = [work EXCEPT ![w].pc = "set"]
          /\ UNCHANGED <<faults, failed>>
       \/ /\ Fails(w)
          /\ \/ sent' = [sent EXCEPT ![St(w)][Item(w)] = @ + 1]
             \/ UNCHANGED sent
    /\ UNCHANGED <<setup, submitted, fed, queue, late, cache, disk, crashes>>

(* saveItem without cache.Kvd.Set, and with it.                            *)
RememberedNot(w) == cache
Remembered(w)    == cache \cup {Key(w)}

(* cache.Kvd.Set, whose error nobody looks at; then the next store.        *)
CacheSet(w) ==
    /\ At(w, "set")
    /\ \/ cache' = Remembered(w) /\ UNCHANGED faults
       \/ Fault /\ UNCHANGED cache
    /\ work' = [work EXCEPT ![w] = NextStore(w)]
    /\ UNCHANGED <<setup, submitted, fed, queue, late, failed, disk, sent, crashes>>

-----------------------------------------------------------------------------
(* The process ends and is started again with the same arguments.          *)
Crash ==
    /\ crashes < MaxCrashes
    /\ crashes' = crashes + 1
    /\ submitted' = {} /\ fed' = {} /\ queue' = {} /\ late' = {} /\ failed' = {}
    /\ work' = [w \in Workers |-> Stopped]
    /\ UNCHANGED <<setup, cache, disk, sent, faults>>

-----------------------------------------------------------------------------
WorkStep(w) == \/ DownloadItem(w) \/ CacheHit(w) \/ CacheMiss(w) \/ Create(w)
               \/ WriteData(w) \/ ForwardMsg(w) \/ CacheSet(w)

Next ==
    \/ \E j \in Jobs : SubmitJob(j)
    \/ \E j \in Jobs, i \in Items : Feed(j, i)
    \/ \E d \in queue : Expire(d)
    \/ \E w \in Workers : WorkStep(w)
    \/ Crash

Spec == Init /\ [][Next]_vars

(* Workers are scheduled and their calls return.                           *)
FairSpec == Spec /\ \A w \in Workers : WF_vars(WorkStep(w))

-----------------------------------------------------------------------------
Working == [pc : {"check", "write", "data", "unlinked", "set"},
            job : Jobs, i : Items, stores : StoreLists]

TypeOK ==
    /\ submitted \in SUBSET Jobs
    /\ fed \in SUBSET (Jobs \X Items)
    /\ queue \in SUBSET DownloadItemJob
    /\ late \in SUBSET fed /\ failed \in SUBSET (Jobs \X Items)
    /\ work \in [Workers -> {Stopped} \cup Working]
    /\ cache \in SUBSET (Stores \X Names)
    /\ disk \in [Stores -> [Paths -> Contents]]
    /\ sent \in [Stores -> [Items -> Nat]]
    /\ faults \in Nat /\ crashes \in Nat

Busy(w)   == work[w].pc # "idle"
Has(s, i) == IF s \in FileStores THEN disk[s][Path(i)] = i ELSE sent[s][i] > 0

Shared(i)       == \E k \in Items \ {i} : NameOf[k] = NameOf[i]
Rewriting(s, n) == \E w \in Workers : At(w, "data") /\ St(w) = s /\ NameOf[Item(w)] = n
CutShort        == Cardinality(setup.workers) > 1 /\ crashes + faults > 0

(* A name is in the cache only if an item of that name is in the store,    *)
(* complete, or a worker is about to complete it again (saveItem sets the  *)
(* key after Write): without Clean a restart never finds a key for a file  *)
(* that was cut short - unless two workers save the same path and the      *)
(* process ends between the one's os.Create and its write.                 *)
CachedIsStored ==
    \A s \in Stores \ Clean, n \in Names : <<s, n>> \in cache =>
        \/ \E i \in Items : NameOf[i] = n /\ Has(s, i)
        \/ Rewriting(s, n)
        \/ s \in FileStores /\ CutShort

(* However often an item is submitted, in one run or after restarts, a     *)
(* chat gets at most one copy from each worker and run, and one for each   *)
(* error after the message was sent or while it was being remembered.      *)
CopiesBounded ==
    \A s \in Stores, i \in Items :
        sent[s][i] <= Cardinality(setup.workers) * (crashes + 1) + faults

(* An item is skipped as "found in store" (scrapperV1.go:138-141) only     *)
(* when it is in that store, complete - or in one of the cases the cache   *)
(* cannot tell: it shares its name with another item, the store has been   *)
(* cleaned, or another worker is at, or was stopped at, the same file.     *)
HitMeansFound ==
    [][\A w \in Workers : CacheHit(w) =>
         \/ Has(St(w), Item(w))
         \/ Shared(Item(w)) \/ St(w) \in Clean
         \/ Rewriting(St(w), NameOf[Item(w)]) \/ CutShort]_vars

(* An item of several jobs, when one of them may write it once more and    *)
(* fail.                                                                   *)
Contested(i) == /\ crashes + faults > 0
                /\ \E j, k \in Jobs : j # k /\ i \in ItemsOf[j] \cap ItemsOf[k]

(* An item that has been fed gets into every store of its job that is not  *)
(* cleaned, whoever saves it and whatever earlier runs have left of it in  *)
(* store and cache, unless an error of it is logged or the process ends    *)
(* before.  Not so an item whose name is another's too, or empty, or that  *)
(* an error of another job may have torn                                   *)
(* (scrapperV1.go:174-209,115-151).                                        *)
FedGetsStored ==
    \A j \in Jobs, i \in Items :
        <<j, i>> \in fed ~> \/ \A s \in Stores \ Clean : Has(s, i)
                            \/ <<j, i>> \in failed
                            \/ <<j, i>> \notin fed
                            \/ NameOf[i] = NoName \/ Shared(i) \/ Contested(i)

(* "file exists in all stores not adding it to queue"                      *)
(* (scrapperV1.go:201): what is not queued is there.  The code does not    *)
(* keep this for a post without FileName - a single image or a video -     *)
(* for which os.Stat finds BasePath itself.                                *)
SkipMeansSaved ==
    [][\A j \in Jobs, i \in Items :
         Feed(j, i) /\ queue' = queue => \A s \in Stores : Has(s, i)]_vars
=============================================================================
