-------------------------- MODULE StoreCacheProofs --------------------------
(***************************************************************************)
(* For any jobs, items, stores, workers and setups, any number of faults   *)
(* and of restarts: what the cache says is stored is there (but for the    *)
(* named exceptions), a chat gets no more copies of an item than there     *)
(* were workers, runs and faults to send them, and without faults what has *)
(* been fed and is with nobody any more is in every store.                 *)
(*                                                                         *)
(* The parts of the invariant.  BaseInv: types, and where a worker can be. *)
(* CopiesInv: the copies sent so far, and those that may still be sent by  *)
(* workers that did not find the key.  OnlyFiles, SetSent: where the item  *)
(* of a worker is between os.Create and cache.Kvd.Set.  ChatInv, FileInv:  *)
(* what stands behind a key of the cache, for a chat and for a directory.  *)
(* AloneInv: with one worker, a key is not in the cache while its file is  *)
(* being written.  At the end, RootInv and DueInv: a post that has been    *)
(* fed is for all of its stores, and each is before it or remembered.      *)
(***************************************************************************)
EXTENDS StoreCache, FiniteSetTheorems, WellFoundedInduction, TLAPS

(* What a worker may be doing.                                              *)
WorkSet == {Stopped} \cup Working

(* A set of natural numbers that is not empty has a least element.          *)
LEMMA LeastNat ==
    ASSUME NEW S \in SUBSET Nat, S # {}
    PROVE  \E m \in S : \A n \in S : m <= n
<1> DEFINE R == OpToRel(<, Nat)
<1>1. IsWellFoundedOn(R, Nat)
  BY NatLessThanWellFounded, Zenon
<1>2. \A m, n \in Nat : m < n => <<m, n>> \in R
  BY DEF OpToRel
<1> HIDE DEF R
<1>3. PICK x \in S : \A y \in S : ~ (<<y, x>> \in R)
  <2>1. \E x \in S : \A y \in S : ~ (<<y, x>> \in R)
    BY <1>1, WFMin
  <2>. QED
    BY <2>1
<1>4. ASSUME NEW n \in S PROVE x <= n
  <2>1. ~ (n < x)
    BY <1>2, <1>3
  <2>. QED
    BY <2>1
<1>. QED
  BY <1>4

(* The least of a set of places in Dst: the store saveItem is at, the first *)
(* of those left (scrapperV1.go:131-133).                                   *)
LeastOf(S) == CHOOSE n \in S : \A m \in S : n <= m

(* Record r of a worker: it is at step x of saveItem, for item i and store  *)
(* s.                                                                       *)
IsAt(r, x, s, i) == r.pc = x /\ Dst[LeastOf(r.stores)] = s /\ r.i = i

(* The queue workers started (scrapperV1.go:241-260).                       *)
N == Cardinality(setup.workers)

(* The setup is one of those considered, what waits in the queue has been   *)
(* fed, only workers that were started work, and a file is removed under a  *)
(* worker only in a store opened with Clean.                                *)
BaseInv ==
    /\ TypeOK
    /\ setup \in Setups
    /\ \A d \in queue : <<d.job, d.i>> \in fed
    /\ \A w \in Workers : Busy(w) => w \in setup.workers
    /\ \A w \in Workers : At(w, "unlinked") => St(w) \in Clean

(* The stores of an item are places in Dst, and there is one at least       *)
(* (scrapperV1.go:199-204).                                                 *)
LEMMA StoreListsPlaces ==
    \A S \in StoreLists : S \in SUBSET Nat /\ S # {} /\ S \subseteq DOMAIN Dst
BY StoreAssumption DEF StoreLists

(* The first of an item's stores is one of them, and so a place in Dst.     *)
LEMMA LeastOfIn ==
    ASSUME NEW S \in StoreLists
    PROVE  LeastOf(S) \in S /\ LeastOf(S) \in DOMAIN Dst
<1>1. S \in SUBSET Nat /\ S # {} /\ S \subseteq DOMAIN Dst
  BY StoreListsPlaces
<1>2. \E m \in S : \A n \in S : m <= n
  BY <1>1, LeastNat
<1>. QED
  BY <1>1, <1>2 DEF LeastOf

(* First, for the record of a worker.                                       *)
LEMMA FirstIsLeast == \A w : First(w) = LeastOf(work[w].stores)
BY DEF First, LeastOf

(* The item, store, path and key of a worker that has an item               *)
(* (scrapperV1.go:131-139).                                                 *)
LEMMA BusyTyped ==
    ASSUME BaseInv, NEW w \in Workers, Busy(w)
    PROVE  /\ work[w] \in Working /\ w \in setup.workers
           /\ work[w].stores \in StoreLists
           /\ First(w) \in work[w].stores /\ First(w) \in DOMAIN Dst /\ St(w) \in Stores
           /\ Item(w) \in Items /\ NameOf[Item(w)] \in Names /\ Path(Item(w)) \in Paths
           /\ Key(w) \in Stores \X Names
           /\ NextStore(w) \in WorkSet
<1>1. work[w] \in Working /\ w \in setup.workers
  BY DEF BaseInv, TypeOK, Busy, Stopped
<1>2. work[w].stores \in StoreLists /\ work[w].i \in Items
  BY <1>1 DEF Working
<1>3. First(w) \in work[w].stores /\ First(w) \in DOMAIN Dst
  BY <1>2, LeastOfIn, FirstIsLeast
<1>4. St(w) \in Stores
  BY <1>3 DEF St, Stores
<1>5. Item(w) \in Items /\ NameOf[Item(w)] \in Names /\ Path(Item(w)) \in Paths
  BY <1>2 DEF Item, Names, Path, Paths, Acs
<1>6. Key(w) \in Stores \X Names
  BY <1>4, <1>5 DEF Key
<1>7. NextStore(w) \in WorkSet
  <2>1. CASE AtLast(w)
    BY <2>1 DEF NextStore, WorkSet
  <2>2. CASE ~AtLast(w)
    <3> DEFINE S == work[w].stores \ {First(w)}
               r == [work[w] EXCEPT !.pc = "check", !.stores = S]
    <3>1. S \in StoreLists
      BY <1>2, <1>3, <2>2 DEF AtLast, StoreLists
    <3> HIDE DEF S
    <3>2. r \in Working
      BY <1>1, <3>1 DEF Working
    <3>3. NextStore(w) = r
      BY <2>2 DEF NextStore, S
    <3>. QED
      BY <3>2, <3>3 DEF WorkSet
  <2>. QED
    BY <2>1, <2>2
<1>. QED
  BY <1>1, <1>2, <1>3, <1>4, <1>5, <1>6, <1>7

(* What a setup says: names for all items, workers that are finitely many.  *)
LEMMA SetupTyped ==
    ASSUME BaseInv
    PROVE  /\ DOMAIN NameOf = Items /\ Clean \subseteq FileStores
           /\ setup.workers \subseteq Workers /\ IsFiniteSet(setup.workers) /\ N \in Nat
<1>1. /\ DOMAIN setup.NameOf = Items /\ setup.Clean \subseteq setup.FileStores
      /\ setup.workers \subseteq Workers
  BY StoreAssumption DEF BaseInv
<1>2. IsFiniteSet(setup.workers) /\ N \in Nat
  BY <1>1, StoreAssumption, FS_Subset, FS_CardinalityType DEF N
<1>. QED
  BY <1>1, <1>2 DEF NameOf, FileStores, Clean

(* A step of worker w leaves what the others do.                            *)
LEMMA WorkTyped ==
    ASSUME TypeOK, NEW w \in Workers, NEW r \in WorkSet, work' = [work EXCEPT ![w] = r]
    PROVE  /\ work' \in [Workers -> WorkSet]
           /\ work'[w] = r /\ \A v \in Workers : v # w => work'[v] = work[v]
<1>1. work \in [Workers -> WorkSet]
  BY DEF TypeOK, WorkSet
<1>. QED
  BY <1>1

(* What an action of a worker leaves as it was.                            *)
LEMMA WorkerBase ==
    ASSUME BaseInv, NEW w \in Workers, NEW r \in WorkSet, work' = [work EXCEPT ![w] = r],
           UNCHANGED <<setup, submitted, fed, late, crashes>>, queue' \subseteq queue,
           r.pc # "idle" => w \in setup.workers,
           r.pc = "unlinked" => FALSE,
           cache' \in SUBSET (Stores \X Names),
           disk' \in [Stores -> [Paths -> Contents]],
           sent' \in [Stores -> [Items -> Nat]],
           faults' \in Nat, failed' \in SUBSET (Jobs \X Items)
    PROVE  BaseInv'
<1>0. TypeOK
  BY DEF BaseInv
<1>1. /\ work' \in [Workers -> WorkSet]
      /\ work'[w] = r /\ \A v \in Workers : v # w => work'[v] = work[v]
  BY <1>0, WorkTyped
<1>2. /\ Names' = Names /\ Paths' = Paths /\ Clean' = Clean
  BY DEF Names, Paths, NameOf, Clean
<1>3. TypeOK'
  <2>1. submitted' \in SUBSET Jobs /\ fed' \in SUBSET (Jobs \X Items) /\ late' \in SUBSET fed'
      /\ failed' \in SUBSET (Jobs \X Items)
    BY <1>0 DEF TypeOK
  <2>2. queue' \in SUBSET DownloadItemJob
    BY <1>0 DEF TypeOK
  <2>3. crashes' \in Nat
    BY <1>0 DEF TypeOK
  <2>. QED
    BY <1>1, <1>2, <2>1, <2>2, <2>3 DEF TypeOK, WorkSet
<1>4. \A d \in queue' : <<d.job, d.i>> \in fed'
  BY DEF BaseInv
<1>5. \A v \in Workers : Busy(v)' => v \in setup'.workers
  BY <1>1 DEF BaseInv, Busy
<1>6. ASSUME NEW v \in Workers, At(v, "unlinked")' PROVE St(v)' \in Clean'
  <2>1. v # w /\ work'[v] = work[v]
    BY <1>1, <1>6 DEF At
  <2>2. St(v)' = St(v) /\ At(v, "unlinked")
    BY <1>6, <2>1 DEF St, First, At
  <2>. QED
    BY <1>2, <2>2 DEF BaseInv
<1>7. setup' \in Setups
  BY DEF BaseInv
<1>. QED
  BY <1>3, <1>4, <1>5, <1>6, <1>7 DEF BaseInv

(* Before the first run nothing is queued, stored or remembered.            *)
LEMMA BaseInit == Init => BaseInv
<1> SUFFICES ASSUME Init PROVE BaseInv
  OBVIOUS
<1>1. work \in [Workers -> WorkSet]
  BY DEF Init, WorkSet
<1>2. disk \in [Stores -> [Paths -> Contents]]
  BY DEF Init, Contents
<1>3. sent \in [Stores -> [Items -> Nat]]
  BY DEF Init
<1>4. TypeOK
  BY <1>1, <1>2, <1>3 DEF Init, TypeOK, WorkSet
<1>. QED
  BY <1>4 DEF Init, BaseInv, Busy, At, Stopped

(* SubmitJob opens the stores; with Clean it removes a file that is being   *)
(* written (FileStore.go:88-98).                                            *)
LEMMA BaseSubmit == ASSUME BaseInv, NEW j \in Jobs, SubmitJob(j) PROVE BaseInv'
<1>0. TypeOK
  BY DEF BaseInv
<1>1. UNCHANGED <<setup, fed, queue, late, failed, cache, sent, faults, crashes>>
      /\ submitted' = submitted \cup {j} /\ disk' = createStructure
  BY DEF SubmitJob
<1>2. Names' = Names /\ Paths' = Paths /\ Clean' = Clean
  BY <1>1 DEF Names, Paths, NameOf, Clean
<1>3. ASSUME NEW w \in Workers
      PROVE  /\ work'[w] = IF At(w, "data") /\ St(w) \in Clean
                           THEN [work[w] EXCEPT !.pc = "unlinked"] ELSE work[w]
             /\ work'[w] \in WorkSet
             /\ Busy(w)' <=> Busy(w)
             /\ work'[w].pc = "unlinked" => St(w)' = St(w) /\ St(w) \in Clean
  <2>1. work'[w] = IF At(w, "data") /\ St(w) \in Clean
                   THEN [work[w] EXCEPT !.pc = "unlinked"] ELSE work[w]
    BY DEF SubmitJob
  <2>2. CASE At(w, "data") /\ St(w) \in Clean
    <3>1. work[w] \in Working
      BY <2>2, BusyTyped DEF At, Busy
    <3>2. /\ work'[w] \in Working /\ work'[w].pc = "unlinked"
          /\ work'[w].stores = work[w].stores
      BY <2>1, <2>2, <3>1 DEF Working
    <3>3. St(w)' = St(w)
      BY <3>2 DEF St, First
    <3>. QED
      BY <2>1, <2>2, <3>2, <3>3 DEF WorkSet, Busy, At
  <2>3. CASE ~(At(w, "data") /\ St(w) \in Clean)
    <3>1. work'[w] = work[w]
      BY <2>1, <2>3
    <3>2. St(w)' = St(w)
      BY <3>1 DEF St, First
    <3>. QED
      BY <1>0, <2>1, <3>1, <3>2 DEF BaseInv, TypeOK, WorkSet, Busy, At
  <2>. QED
    BY <2>2, <2>3
<1>4. work' \in [Workers -> WorkSet]
  <2> DEFINE e(w) == IF At(w, "data") /\ St(w) \in Clean
                     THEN [work[w] EXCEPT !.pc = "unlinked"] ELSE work[w]
  <2>1. work' = [w \in Workers |-> e(w)]
    BY DEF SubmitJob
  <2> HIDE DEF e
  <2>2. \A w \in Workers : e(w) \in WorkSet
    BY <1>3, <2>1
  <2>. QED
    BY <2>1, <2>2
<1>5. disk' \in [Stores -> [Paths -> Contents]]
  BY <1>0, <1>1 DEF TypeOK, createStructure, Contents
<1>6. TypeOK'
  BY <1>0, <1>1, <1>2, <1>4, <1>5 DEF TypeOK, WorkSet
<1>. QED
  BY <1>1, <1>2, <1>3, <1>6 DEF BaseInv, At

(* A post is fed with the stores that do not have it                        *)
(* (scrapperV1.go:199-209,220-229).                                         *)
LEMMA BaseFeed ==
    ASSUME BaseInv, NEW j \in Jobs, NEW i \in Items, Feed(j, i)
    PROVE  BaseInv'
<1>0. TypeOK
  BY DEF BaseInv
<1>1. /\ UNCHANGED <<setup, submitted, late, failed, work, cache, disk, sent, faults,
                  crashes>>
      /\ fed' = fed \cup {<<j, i>>}
  BY DEF Feed
<1> DEFINE d == [job |-> j, i |-> i, stores |-> filterStores(i)]
<1>2. queue' = queue \/ (filterStores(i) # {} /\ queue' = queue \cup {d})
  BY DEF Feed
<1>3. filterStores(i) # {} => d \in DownloadItemJob
  BY DEF filterStores, DownloadItemJob, StoreLists
<1>4. d.job = j /\ d.i = i
  OBVIOUS
<1> HIDE DEF d
<1>5. queue' \in SUBSET DownloadItemJob
  BY <1>0, <1>2, <1>3 DEF TypeOK
<1>6. \A e \in queue' : <<e.job, e.i>> \in fed'
  BY <1>1, <1>2, <1>4 DEF BaseInv
<1>7. Names' = Names /\ Paths' = Paths /\ Clean' = Clean
  BY <1>1 DEF Names, Paths, NameOf, Clean
<1>8. TypeOK'
  BY <1>0, <1>1, <1>5, <1>7 DEF TypeOK
<1>9. \A w \in Workers : St(w)' = St(w)
  BY <1>1 DEF St, First
<1>. QED
  BY <1>1, <1>6, <1>7, <1>8, <1>9 DEF BaseInv, Busy, At

(* The time limit of a queued item passes (scrapperV1.go:171-175).          *)
LEMMA BaseExpire == ASSUME BaseInv, NEW d \in queue, Expire(d) PROVE BaseInv'
<1>0. TypeOK /\ <<d.job, d.i>> \in fed
  BY DEF BaseInv
<1>1. /\ UNCHANGED <<setup, submitted, fed, queue, failed, work, cache, disk, sent, faults,
                  crashes>>
      /\ late' = late \cup {<<d.job, d.i>>}
  BY DEF Expire
<1>2. Names' = Names /\ Paths' = Paths /\ Clean' = Clean
  BY <1>1 DEF Names, Paths, NameOf, Clean
<1>3. TypeOK'
  BY <1>0, <1>1, <1>2 DEF TypeOK
<1>4. \A w \in Workers : St(w)' = St(w)
  BY <1>1 DEF St, First
<1>. QED
  BY <1>1, <1>2, <1>3, <1>4 DEF BaseInv, Busy, At

(* Nothing changes.                                                         *)
LEMMA BaseSame == BaseInv /\ UNCHANGED vars => BaseInv'
<1> SUFFICES ASSUME BaseInv, UNCHANGED vars PROVE BaseInv'
  OBVIOUS
<1>1. UNCHANGED <<setup, submitted, fed, queue, late, failed, work, cache, disk, sent, faults,
                  crashes>>
  BY DEF vars, run
<1>2. Names' = Names /\ Paths' = Paths /\ Clean' = Clean
  BY <1>1 DEF Names, Paths, NameOf, Clean
<1>3. TypeOK'
  BY <1>1, <1>2 DEF BaseInv, TypeOK
<1>4. \A w \in Workers : St(w)' = St(w)
  BY <1>1 DEF St, First
<1>. QED
  BY <1>1, <1>2, <1>3, <1>4 DEF BaseInv, Busy, At

(* The process ends; files, messages and cache stay.                        *)
LEMMA BaseCrash == BaseInv /\ Crash => BaseInv'
<1> SUFFICES ASSUME BaseInv, Crash PROVE BaseInv'
  OBVIOUS
<1>0. TypeOK
  BY DEF BaseInv
<1>1. /\ submitted' = {} /\ fed' = {} /\ queue' = {} /\ late' = {} /\ failed' = {}
      /\ UNCHANGED <<setup, cache, disk, sent, faults>> /\ crashes' = crashes + 1
      /\ work' = [w \in Workers |-> Stopped]
  BY DEF Crash
<1>2. Names' = Names /\ Paths' = Paths /\ Clean' = Clean
  BY <1>1 DEF Names, Paths, NameOf, Clean
<1>3. work' \in [Workers -> WorkSet] /\ \A w \in Workers : work'[w] = Stopped
  BY <1>1 DEF WorkSet
<1>4. crashes' \in Nat
  BY <1>0, <1>1 DEF TypeOK
<1>5. TypeOK'
  BY <1>0, <1>1, <1>2, <1>3, <1>4 DEF TypeOK, WorkSet
<1>6. \A w \in Workers : work'[w].pc = "idle"
  BY <1>3 DEF Stopped
<1>. QED
  BY <1>1, <1>5, <1>6 DEF BaseInv, Busy, At

(* What a worker's actions do to its record.                               *)
LEMMA RecordOf ==
    ASSUME BaseInv, NEW w \in Workers, Busy(w), NEW x \in {"write", "data", "unlinked", "set"}
    PROVE  [work[w] EXCEPT !.pc = x] \in Working
<1>1. work[w] \in Working
  BY BusyTyped
<1>. QED
  BY <1>1 DEF Working

(* A worker receives an item (scrapperV1.go:231-238,115-122).               *)
LEMMA BaseDownload == ASSUME BaseInv, NEW w \in Workers, DownloadItem(w) PROVE BaseInv'
<1>0. TypeOK
  BY DEF BaseInv
<1>1. PICK d \in queue :
         /\ queue' = queue \ {d}
         /\ \/ /\ work' = [work EXCEPT ![w] = [pc |-> "check", job |-> d.job, i |-> d.i,
                                             stores |-> d.stores]]
               /\ UNCHANGED faults
            \/ UNCHANGED <<work, faults>>
            \/ Fault /\ UNCHANGED work
         /\ failed' = failed \/ failed' = failed \cup {<<d.job, d.i>>}
  BY DEF DownloadItem
<1>2. /\ w \in setup.workers
      /\ UNCHANGED <<setup, submitted, fed, late, cache, disk, sent, crashes>>
  BY DEF DownloadItem
<1> DEFINE r == IF work' = work THEN work[w]
                ELSE [pc |-> "check", job |-> d.job, i |-> d.i, stores |-> d.stores]
<1>3. d \in DownloadItemJob
  BY <1>0 DEF TypeOK
<1>4. [pc |-> "check", job |-> d.job, i |-> d.i, stores |-> d.stores] \in Working
  BY <1>3 DEF DownloadItemJob, Working
<1>5. work[w] \in WorkSet /\ work[w].pc = "idle"
  BY <1>0 DEF TypeOK, WorkSet, DownloadItem, At
<1>6. work' = [work EXCEPT ![w] = r]
  BY <1>0, <1>1 DEF TypeOK
<1>7. r \in WorkSet /\ r.pc \in {"idle", "check"}
  BY <1>4, <1>5 DEF WorkSet
<1> HIDE DEF r
<1>8. faults' \in Nat /\ failed' \in SUBSET (Jobs \X Items)
  BY <1>0, <1>1, <1>3 DEF TypeOK, Fault, DownloadItemJob
<1>9. /\ cache' \in SUBSET (Stores \X Names) /\ disk' \in [Stores -> [Paths -> Contents]]
      /\ sent' \in [Stores -> [Items -> Nat]]
  BY <1>0, <1>2 DEF TypeOK
<1>. QED
  BY <1>1, <1>2, <1>6, <1>7, <1>8, <1>9, WorkerBase

(* The cache is asked before a store is written to (scrapperV1.go:137-141). *)
LEMMA BaseCheck ==
    ASSUME BaseInv, NEW w \in Workers, CacheHit(w) \/ CacheMiss(w)
    PROVE  BaseInv'
<1>0. TypeOK
  BY DEF BaseInv
<1>1. /\ UNCHANGED <<setup, submitted, fed, queue, late, failed, cache, disk, sent, faults,
                  crashes>>
      /\ At(w, "check")
  BY DEF CacheHit, CacheMiss
<1>2. Busy(w)
  BY <1>1 DEF Busy, At
<1> DEFINE m == [work[w] EXCEPT !.pc = "write"]
<1>3. m \in WorkSet /\ m.pc = "write" /\ NextStore(w) \in WorkSet /\ w \in setup.workers
  BY <1>2, BusyTyped, RecordOf DEF WorkSet, Working
<1>4. NextStore(w).pc # "unlinked"
  BY <1>3, <1>2, BusyTyped DEF NextStore, Stopped, Working
<1>5. work' = [work EXCEPT ![w] = NextStore(w)] \/ work' = [work EXCEPT ![w] = m]
  BY DEF CacheHit, CacheMiss
<1> HIDE DEF m
<1>6. /\ cache' \in SUBSET (Stores \X Names) /\ disk' \in [Stores -> [Paths -> Contents]]
      /\ sent' \in [Stores -> [Items -> Nat]] /\ faults' \in Nat
      /\ failed' \in SUBSET (Jobs \X Items)
  BY <1>0, <1>1 DEF TypeOK
<1>7. CASE work' = [work EXCEPT ![w] = NextStore(w)]
  BY <1>1, <1>3, <1>4, <1>6, <1>7, WorkerBase
<1>8. CASE work' = [work EXCEPT ![w] = m]
  BY <1>1, <1>3, <1>6, <1>8, WorkerBase
<1>. QED
  BY <1>5, <1>7, <1>8

(* The error of a Write is logged for a job and its item                    *)
(* (scrapperV1.go:124-126).                                                 *)
LEMMA FailedTyped ==
    ASSUME BaseInv, NEW w \in Workers, Busy(w), Fails(w) \/ UNCHANGED failed
    PROVE  failed' \in SUBSET (Jobs \X Items)
<1>1. work[w].job \in Jobs /\ Item(w) \in Items
  BY BusyTyped DEF Working
<1>. QED
  BY <1>1 DEF BaseInv, TypeOK, Fails

(* FileStore.Write creates, then fills, the file (FileStore.go:53-63).      *)
LEMMA BaseFile ==
    ASSUME BaseInv, NEW w \in Workers, Create(w) \/ WriteData(w)
    PROVE  BaseInv'
<1>0. TypeOK
  BY DEF BaseInv
<1>1. /\ UNCHANGED <<setup, submitted, fed, queue, late, cache, sent, crashes>>
      /\ work[w].pc \in {"write", "data", "unlinked"} /\ Busy(w)
  BY DEF Create, WriteData, At, Busy
<1>2. /\ w \in setup.workers /\ St(w) \in Stores /\ Path(Item(w)) \in Paths /\ Item(w) \in Items
  BY <1>1, BusyTyped
<1>3. \/ disk' = disk
      \/ disk' = [disk EXCEPT ![St(w)][Path(Item(w))] = "partial"]
      \/ disk' = [disk EXCEPT ![St(w)][Path(Item(w))] = Item(w)]
  BY DEF Create, WriteData
<1>4. disk' \in [Stores -> [Paths -> Contents]]
  <2> DEFINE s == St(w)
             p == Path(Item(w))
  <2>1. disk \in [Stores -> [Paths -> Contents]] /\ s \in Stores /\ p \in Paths
    BY <1>0, <1>2 DEF TypeOK
  <2>2. Item(w) \in Contents /\ "partial" \in Contents
    BY <1>2 DEF Contents
  <2>3. \/ disk' = disk \/ disk' = [disk EXCEPT ![s][p] = "partial"]
        \/ disk' = [disk EXCEPT ![s][p] = Item(w)]
    BY <1>3
  <2> HIDE DEF s, p
  <2>4. ASSUME NEW c \in Contents, disk' = [disk EXCEPT ![s][p] = c]
        PROVE  disk' \in [Stores -> [Paths -> Contents]]
    <3>1. [disk[s] EXCEPT ![p] = c] \in [Paths -> Contents]
      BY <2>1
    <3>2. disk' = [disk EXCEPT ![s] = [disk[s] EXCEPT ![p] = c]]
      BY <2>4
    <3> DEFINE f == [disk[s] EXCEPT ![p] = c]
    <3> HIDE DEF f
    <3>. QED
      BY <2>1, <3>1, <3>2 DEF f
  <2>. QED
    BY <2>1, <2>2, <2>3, <2>4
<1>5. faults' \in Nat /\ failed' \in SUBSET (Jobs \X Items)
  <2>1. Fails(w) \/ UNCHANGED <<faults, failed>>
    BY DEF Create, WriteData
  <2>. QED
    BY <1>0, <1>1, <2>1, FailedTyped DEF Fails, Fault, TypeOK
<1> DEFINE d == [work[w] EXCEPT !.pc = "data"]
           e == [work[w] EXCEPT !.pc = "set"]
<1>6. /\ d \in WorkSet /\ d.pc = "data" /\ e \in WorkSet /\ e.pc = "set"
      /\ Stopped \in WorkSet /\ Stopped.pc = "idle"
  BY <1>1, BusyTyped, RecordOf DEF WorkSet, Working, Stopped
<1>7. \/ work' = [work EXCEPT ![w] = d] \/ work' = [work EXCEPT ![w] = e]
      \/ work' = [work EXCEPT ![w] = Stopped]
  BY DEF Create, WriteData, Fails, AfterError
<1>8. cache' \in SUBSET (Stores \X Names) /\ sent' \in [Stores -> [Items -> Nat]]
  BY <1>0, <1>1 DEF TypeOK
<1> HIDE DEF d, e
<1>9. CASE work' = [work EXCEPT ![w] = d]
  BY <1>1, <1>2, <1>4, <1>5, <1>6, <1>8, <1>9, WorkerBase
<1>10. CASE work' = [work EXCEPT ![w] = e]
  BY <1>1, <1>2, <1>4, <1>5, <1>6, <1>8, <1>10, WorkerBase
<1>11. CASE work' = [work EXCEPT ![w] = Stopped]
  BY <1>1, <1>2, <1>4, <1>5, <1>6, <1>8, <1>11, WorkerBase
<1>. QED
  BY <1>7, <1>9, <1>10, <1>11

(* TelegramStore.Write forwards the message (telegram.go:48-55).            *)
LEMMA BaseForward == ASSUME BaseInv, NEW w \in Workers, ForwardMsg(w) PROVE BaseInv'
<1>0. TypeOK
  BY DEF BaseInv
<1>1. /\ UNCHANGED <<setup, submitted, fed, queue, late, cache, disk, crashes>>
      /\ work[w].pc = "write" /\ Busy(w)
  BY DEF ForwardMsg, At, Busy
<1>2. w \in setup.workers /\ St(w) \in Stores /\ Item(w) \in Items
  BY <1>1, BusyTyped
<1>3. sent' = sent \/ sent' = [sent EXCEPT ![St(w)][Item(w)] = @ + 1]
  BY DEF ForwardMsg
<1>4. sent' \in [Stores -> [Items -> Nat]]
  <2> DEFINE S == St(w)
             I == Item(w)
  <2>1. sent \in [Stores -> [Items -> Nat]] /\ S \in Stores /\ I \in Items
    BY <1>0, <1>2 DEF TypeOK
  <2>2. sent' = sent \/ sent' = [sent EXCEPT ![S][I] = @ + 1]
    BY <1>3
  <2> HIDE DEF S, I
  <2>. QED
    BY <2>1, <2>2
<1>5. faults' \in Nat /\ failed' \in SUBSET (Jobs \X Items)
  <2>1. Fails(w) \/ UNCHANGED <<faults, failed>>
    BY DEF ForwardMsg
  <2>. QED
    BY <1>0, <1>1, <2>1, FailedTyped DEF Fails, Fault, TypeOK
<1> DEFINE e == [work[w] EXCEPT !.pc = "set"]
<1>6. e \in WorkSet /\ e.pc = "set" /\ Stopped \in WorkSet /\ Stopped.pc = "idle"
  BY <1>1, BusyTyped, RecordOf DEF WorkSet, Working, Stopped
<1>7. work' = [work EXCEPT ![w] = e] \/ work' = [work EXCEPT ![w] = Stopped]
  BY DEF ForwardMsg, Fails, AfterError
<1>8. cache' \in SUBSET (Stores \X Names) /\ disk' \in [Stores -> [Paths -> Contents]]
  BY <1>0, <1>1 DEF TypeOK
<1> HIDE DEF e
<1>9. CASE work' = [work EXCEPT ![w] = e]
  BY <1>1, <1>2, <1>4, <1>5, <1>6, <1>8, <1>9, WorkerBase
<1>10. CASE work' = [work EXCEPT ![w] = Stopped]
  BY <1>1, <1>2, <1>4, <1>5, <1>6, <1>8, <1>10, WorkerBase
<1>. QED
  BY <1>7, <1>9, <1>10

(* The key of what was written is set (scrapperV1.go:145-148).              *)
LEMMA BaseSet == ASSUME BaseInv, NEW w \in Workers, CacheSet(w) PROVE BaseInv'
<1>0. TypeOK
  BY DEF BaseInv
<1>1. /\ UNCHANGED <<setup, submitted, fed, queue, late, failed, disk, sent, crashes>>
      /\ Busy(w) /\ work' = [work EXCEPT ![w] = NextStore(w)]
  BY DEF CacheSet, At, Busy
<1>2. w \in setup.workers /\ Key(w) \in Stores \X Names /\ NextStore(w) \in WorkSet
  BY <1>1, BusyTyped
<1>3. NextStore(w).pc # "unlinked"
  BY <1>1, <1>2, BusyTyped DEF NextStore, Stopped, Working
<1>4. cache' \in SUBSET (Stores \X Names) /\ faults' \in Nat
  BY <1>0, <1>2 DEF CacheSet, Remembered, Fault, TypeOK
<1>5. /\ disk' \in [Stores -> [Paths -> Contents]]
      /\ sent' \in [Stores -> [Items -> Nat]] /\ failed' \in SUBSET (Jobs \X Items)
  BY <1>0, <1>1 DEF TypeOK
<1>. QED
  BY <1>1, <1>2, <1>3, <1>4, <1>5, WorkerBase

(* Every step keeps BaseInv.                                                *)
LEMMA BaseStep == BaseInv /\ [Next]_vars => BaseInv'
<1> SUFFICES ASSUME BaseInv, [Next]_vars PROVE BaseInv'
  OBVIOUS
<1>1. ASSUME NEW j \in Jobs, SubmitJob(j) PROVE BaseInv'
  BY <1>1, BaseSubmit
<1>2. ASSUME NEW j \in Jobs, NEW i \in Items, Feed(j, i) PROVE BaseInv'
  BY <1>2, BaseFeed
<1>3. ASSUME NEW d \in queue, Expire(d) PROVE BaseInv'
  BY <1>3, BaseExpire
<1>4. ASSUME NEW w \in Workers, WorkStep(w) PROVE BaseInv'
  BY <1>4, BaseDownload, BaseCheck, BaseFile, BaseForward, BaseSet DEF WorkStep
<1>5. CASE Crash
  BY <1>5, BaseCrash
<1>6. CASE UNCHANGED vars
  BY <1>6, BaseSame
<1>. QED
  BY <1>1, <1>2, <1>3, <1>4, <1>5, <1>6 DEF Next

-----------------------------------------------------------------------------
(* 1 for true, 0 for false.                                                 *)
Bit(b) == IF b THEN 1 ELSE 0

(* Sets that differ in one element at most.                                *)
LEMMA CardChange ==
    ASSUME NEW D, NEW E, NEW x, IsFiniteSet(D), E \ {x} = D \ {x}
    PROVE  /\ IsFiniteSet(E) /\ Cardinality(D) \in Nat /\ Cardinality(E) \in Nat
           /\ Cardinality(E) = Cardinality(D) - Bit(x \in D) + Bit(x \in E)
<1> DEFINE R == D \ {x}
<1>1. Cardinality(D) \in Nat
  BY FS_CardinalityType
<1>2. IsFiniteSet(R) /\ Cardinality(R) = Cardinality(D) - Bit(x \in D)
  BY <1>1, FS_RemoveElement DEF Bit
<1>3. Cardinality(R) \in Nat /\ x \notin R
  BY <1>2, FS_CardinalityType
<1>4. E = IF x \in E THEN R \cup {x} ELSE R
  OBVIOUS
<1> HIDE DEF R
<1>5. IsFiniteSet(R \cup {x}) /\ Cardinality(R \cup {x}) = Cardinality(R) + 1
  BY <1>2, <1>3, FS_AddElement
<1>6. CASE x \in E
  <2>1. E = R \cup {x}
    BY <1>4, <1>6
  <2>2. IsFiniteSet(E) /\ Cardinality(E) = Cardinality(R) + 1
    BY <1>5, <2>1
  <2>. QED
    BY <1>1, <1>2, <1>3, <1>6, <2>2 DEF Bit
<1>7. CASE x \notin E
  <2>1. E = R
    BY <1>4, <1>7
  <2>2. IsFiniteSet(E) /\ Cardinality(E) = Cardinality(R)
    BY <1>2, <2>1
  <2>. QED
    BY <1>1, <1>2, <1>3, <1>7, <2>2 DEF Bit
<1>. QED
  BY <1>6, <1>7

(* The workers that have written item i to store s and not set its key yet, *)
(* and those that have missed the key and not written yet.                  *)
Setting(s, i) == {w \in Workers : IsAt(work[w], "set", s, i)}
Writing(s, i) == {w \in Workers : IsAt(work[w], "write", s, i)}

(* How often message i has been sent to chat s. Before its key is set, each *)
(* copy is one of a worker that ended with an earlier run, of a fault, or   *)
(* of a worker about to set the key; afterwards only the workers that had   *)
(* missed the key by then can still send one.                               *)
Paid(s, i) ==
    IF <<s, NameOf[i]>> \in cache
    THEN sent[s][i] + Cardinality(Writing(s, i)) <= N * crashes + N + faults
    ELSE sent[s][i] <= N * crashes + faults + Cardinality(Setting(s, i))

CopiesInv == \A s \in Stores, i \in Items : Paid(s, i)

(* A worker is at one step of one item: it is in one of the sets only, and  *)
(* they are sets of workers that were started.                              *)
LEMMA Counts ==
    ASSUME BaseInv, NEW s, NEW i
    PROVE  /\ IsFiniteSet(Setting(s, i)) /\ IsFiniteSet(Writing(s, i))
           /\ Cardinality(Setting(s, i)) \in Nat /\ Cardinality(Writing(s, i)) \in Nat
           /\ Cardinality(Setting(s, i)) + Cardinality(Writing(s, i)) <= N
           /\ Cardinality(Setting(s, i)) <= N
           /\ N \in Nat
<1> DEFINE M == Setting(s, i)
           F == Writing(s, i)
           A == setup.workers
<1>1. IsFiniteSet(A) /\ N \in Nat
  BY SetupTyped
<1>2. M \in SUBSET A /\ F \in SUBSET A /\ M \cap F = {}
  BY DEF Setting, Writing, IsAt, BaseInv, Busy
<1>a. N = Cardinality(A)
  BY DEF N
<1> HIDE DEF M, F, A
<1>3. IsFiniteSet(M) /\ IsFiniteSet(F)
  BY <1>1, <1>2, FS_Subset
<1>4. Cardinality(M) \in Nat /\ Cardinality(F) \in Nat
  BY <1>3, FS_CardinalityType
<1>5. Cardinality(M \cup F) = Cardinality(M) + Cardinality(F) - Cardinality(M \cap F)
  BY <1>3, FS_Union
<1>6. Cardinality(M \cap F) = 0
  BY <1>2, FS_EmptySet
<1>7. M \cup F \in SUBSET A
  BY <1>2
<1>8. Cardinality(M \cup F) <= N
  BY <1>1, <1>7, <1>a, FS_Subset
<1>. QED
  BY <1>1, <1>3, <1>4, <1>5, <1>6, <1>8 DEF M, F

(* Steps that send nothing, remember nothing and move nobody to or from     *)
(* "set" and "write" leave the counts as they are.                          *)
LEMMA PaidSame ==
    ASSUME BaseInv, BaseInv', UNCHANGED <<setup, cache, sent, crashes>>, faults' >= faults,
           NEW s \in Stores, NEW i \in Items, Paid(s, i),
           Setting(s, i)' = Setting(s, i), Writing(s, i)' = Writing(s, i)
    PROVE  Paid(s, i)'
<1>1. /\ N' = N /\ NameOf' = NameOf
      /\ Cardinality(Setting(s, i))' = Cardinality(Setting(s, i))
      /\ Cardinality(Writing(s, i))' = Cardinality(Writing(s, i))
  BY DEF N, NameOf
<1> DEFINE M == Cardinality(Setting(s, i))
           F == Cardinality(Writing(s, i))
           K == N * crashes
           c == <<s, NameOf[i]>> \in cache
<1>2. M \in Nat /\ F \in Nat /\ N \in Nat
  BY Counts
<1>3. /\ sent[s][i] \in Nat /\ faults \in Nat /\ faults' \in Nat /\ crashes \in Nat
  BY DEF BaseInv, TypeOK
<1>4. K \in Nat /\ N' * crashes' = K
  BY <1>1, <1>2, <1>3
<1>5. IF c THEN sent[s][i] + F <= K + N + faults ELSE sent[s][i] <= K + faults + M
  BY DEF Paid
<1>6. Paid(s, i)' <=> IF c THEN sent[s][i] + F <= K + N + faults'
                           ELSE sent[s][i] <= K + faults' + M
  BY <1>1, <1>4 DEF Paid
<1> HIDE DEF M, F, K, c
<1>. QED
  BY <1>2, <1>3, <1>4, <1>5, <1>6

(* The counts after a step of worker w from work[w] to r.                   *)
LEMMA PaidNext ==
    ASSUME BaseInv, BaseInv', NEW w \in Workers, NEW r,
           work' = [work EXCEPT ![w] = r], UNCHANGED <<setup, crashes>>, faults' >= faults,
           NEW s \in Stores, NEW i \in Items, Paid(s, i),
           cache \subseteq cache',
           <<s, NameOf[i]>> \in cache =>
               sent'[s][i] - sent[s][i]
                   <= faults' - faults + Bit(IsAt(work[w], "write", s, i))
                      - Bit(IsAt(r, "write", s, i)),
           <<s, NameOf[i]>> \notin cache' =>
               sent'[s][i] - sent[s][i]
                   <= faults' - faults + Bit(IsAt(r, "set", s, i))
                      - Bit(IsAt(work[w], "set", s, i)),
           cache' # cache => sent'[s][i] = sent[s][i] /\ r.pc # "write"
    PROVE  Paid(s, i)'
<1>0. /\ Cardinality(Setting(s, i))' = Cardinality(Setting(s, i))
                 - Bit(IsAt(work[w], "set", s, i)) + Bit(IsAt(r, "set", s, i))
      /\ Cardinality(Writing(s, i))' = Cardinality(Writing(s, i))
                 - Bit(IsAt(work[w], "write", s, i)) + Bit(IsAt(r, "write", s, i))
  <2>1. /\ work'[w] = r /\ \A v \in Workers : v # w => work'[v] = work[v]
    BY DEF BaseInv, TypeOK
  <2>2. IsFiniteSet(Setting(s, i)) /\ IsFiniteSet(Writing(s, i))
    BY Counts
  <2> DEFINE A  == Setting(s, i)
             B  == Writing(s, i)
             AA == {v \in Workers : IsAt(work'[v], "set", s, i)}
             BB == {v \in Workers : IsAt(work'[v], "write", s, i)}
  <2>3. Setting(s, i)' = AA /\ Writing(s, i)' = BB
    BY DEF Setting, Writing, IsAt
  <2>4. /\ AA \ {w} = A \ {w} /\ BB \ {w} = B \ {w}
        /\ w \in A <=> IsAt(work[w], "set", s, i)
        /\ w \in B <=> IsAt(work[w], "write", s, i)
        /\ w \in AA <=> IsAt(r, "set", s, i)
        /\ w \in BB <=> IsAt(r, "write", s, i)
    BY <2>1 DEF Setting, Writing
  <2> HIDE DEF A, B, AA, BB
  <2>5. Cardinality(AA) = Cardinality(A) - Bit(w \in A) + Bit(w \in AA)
    BY <2>2, <2>4, CardChange DEF A
  <2>6. Cardinality(BB) = Cardinality(B) - Bit(w \in B) + Bit(w \in BB)
    BY <2>2, <2>4, CardChange DEF B
  <2>. QED
    BY <2>3, <2>4, <2>5, <2>6 DEF Bit, A, B
<1> DEFINE M  == Cardinality(Setting(s, i))
           F  == Cardinality(Writing(s, i))
           M2 == Cardinality(Setting(s, i))'
           F2 == Cardinality(Writing(s, i))'
           a  == Bit(IsAt(work[w], "set", s, i))
           b  == Bit(IsAt(r, "set", s, i))
           c  == Bit(IsAt(work[w], "write", s, i))
           d  == Bit(IsAt(r, "write", s, i))
           K  == N * crashes
           x  == sent[s][i]
           y  == sent'[s][i]
           p  == <<s, NameOf[i]>> \in cache
           q  == <<s, NameOf[i]>> \in cache'
<1>1. M2 = M - a + b /\ F2 = F - c + d
  BY <1>0
<1>2. M \in Nat /\ F \in Nat /\ M + F <= N /\ N \in Nat
  BY Counts
<1>a. N' = N /\ NameOf' = NameOf
  BY DEF N, NameOf
<1>3. x \in Nat /\ y \in Nat /\ faults \in Nat /\ faults' \in Nat /\ crashes \in Nat
  BY DEF BaseInv, TypeOK
<1>b. N' * crashes' = K
  BY <1>a
<1>4. K \in Nat
  BY <1>2, <1>3
<1>5. a \in {0, 1} /\ b \in {0, 1} /\ c \in {0, 1} /\ d \in {0, 1}
  BY DEF Bit
<1>6. /\ p => q
      /\ p => y - x <= faults' - faults + c - d
      /\ ~q => y - x <= faults' - faults + b - a
      /\ ~p /\ q => y = x /\ d = 0
  BY DEF Bit, IsAt
<1>7. IF p THEN x + F <= K + N + faults ELSE x <= K + faults + M
  BY DEF Paid
<1>8. Paid(s, i)' <=> IF q THEN y + F2 <= K + N + faults' ELSE y <= K + faults' + M2
  BY <1>a, <1>b DEF Paid
<1> HIDE DEF M, F, M2, F2, a, b, c, d, K, p, q
<1>9. CASE p
  <2>1. x + F <= K + N + faults /\ y - x <= faults' - faults + c - d
    BY <1>6, <1>7, <1>9
  <2>2. y + F2 <= K + N + faults'
    BY <1>1, <1>2, <1>3, <1>4, <1>5, <2>1
  <2>. QED
    BY <1>6, <1>8, <1>9, <2>2
<1>10. CASE ~q
  <2>1. x <= K + faults + M /\ y - x <= faults' - faults + b - a
    BY <1>6, <1>7, <1>10
  <2>2. y <= K + faults' + M2
    BY <1>1, <1>2, <1>3, <1>4, <1>5, <2>1
  <2>. QED
    BY <1>8, <1>10, <2>2
<1>11. CASE ~p /\ q
  <2>1. x <= K + faults + M /\ y = x /\ d = 0
    BY <1>6, <1>7, <1>11
  <2>2. y + F2 <= K + N + faults'
    BY <1>1, <1>2, <1>3, <1>4, <1>5, <2>1
  <2>. QED
    BY <1>8, <1>11, <2>2
<1>. QED
  BY <1>9, <1>10, <1>11

(* IsAt, for the record of a worker.                                        *)
LEMMA AtIs ==
    \A w, x, s, i : IsAt(work[w], x, s, i) <=> At(w, x) /\ St(w) = s /\ Item(w) = i
BY FirstIsLeast DEF IsAt, At, St, Item

(* A step of worker w that sends nothing and remembers nothing.            *)
LEMMA PaidQuiet ==
    ASSUME BaseInv, BaseInv', NEW w \in Workers, NEW r,
           work' = [work EXCEPT ![w] = r], UNCHANGED <<setup, crashes, cache, sent>>,
           faults' >= faults, ~At(w, "set"),
           NEW s \in Stores, NEW i \in Items, Paid(s, i),
           IsAt(r, "write", s, i) => <<s, NameOf[i]>> \notin cache
    PROVE  Paid(s, i)'
<1>1. sent[s][i] \in Nat /\ sent'[s][i] = sent[s][i] /\ faults \in Nat /\ faults' \in Nat
  BY DEF BaseInv, TypeOK
<1>2. ~IsAt(work[w], "set", s, i)
  BY DEF IsAt, At
<1>3. <<s, NameOf[i]>> \in cache =>
         sent'[s][i] - sent[s][i] <= faults' - faults + Bit(IsAt(work[w], "write", s, i))
                                     - Bit(IsAt(r, "write", s, i))
  BY <1>1 DEF Bit
<1>4. sent'[s][i] - sent[s][i] <= faults' - faults + Bit(IsAt(r, "set", s, i))
                                  - Bit(IsAt(work[w], "set", s, i))
  BY <1>1, <1>2 DEF Bit
<1>. QED
  BY <1>3, <1>4, PaidNext

(* Receiving an item, asking the cache and writing a file send nothing; and *)
(* a worker goes on to write only when the key is not in the cache          *)
(* (scrapperV1.go:137-144).                                                 *)
LEMMA PaidWorker ==
    ASSUME BaseInv, BaseInv', NEW w \in Workers, NEW s \in Stores, NEW i \in Items, Paid(s, i),
           \/ DownloadItem(w) \/ CacheHit(w) \/ CacheMiss(w) \/ Create(w) \/ WriteData(w)
    PROVE  Paid(s, i)'
<1>0. /\ work \in [Workers -> WorkSet] /\ work[w] \in WorkSet
      /\ faults \in Nat /\ faults + 1 >= faults /\ faults >= faults
  BY DEF BaseInv, TypeOK, WorkSet
<1>1. CASE DownloadItem(w)
  <2>1. PICK d \in queue :
           \/ /\ work' = [work EXCEPT ![w] = [pc |-> "check", job |-> d.job, i |-> d.i,
                                             stores |-> d.stores]]
              /\ UNCHANGED faults
           \/ UNCHANGED <<work, faults>>
           \/ Fault /\ UNCHANGED work
    BY <1>1 DEF DownloadItem
  <2> DEFINE q == [pc |-> "check", job |-> d.job, i |-> d.i, stores |-> d.stores]
             r == IF work' = work THEN work[w] ELSE q
  <2>2. work' = [work EXCEPT ![w] = r]
    BY <1>0, <2>1
  <2>3. At(w, "idle") /\ UNCHANGED <<setup, cache, sent, crashes>>
    BY <1>1 DEF DownloadItem
  <2>4. ~At(w, "set") /\ work[w].pc # "write" /\ q.pc # "write" /\ r.pc # "write"
    BY <2>3 DEF At
  <2>5. faults' >= faults
    BY <1>0, <2>1 DEF Fault
  <2> HIDE DEF r
  <2>. QED
    BY <2>2, <2>3, <2>4, <2>5, PaidQuiet DEF IsAt
<1>2. CASE CacheHit(w)
  <2>1. At(w, "check") /\ UNCHANGED <<setup, cache, sent, crashes, faults>>
        /\ work' = [work EXCEPT ![w] = NextStore(w)]
    BY <1>2 DEF CacheHit
  <2>2. Busy(w) /\ ~At(w, "set")
    BY <2>1 DEF Busy, At
  <2>3. NextStore(w).pc # "write"
    BY <2>2, BusyTyped DEF NextStore, Stopped, Working
  <2>. QED
    BY <1>0, <2>1, <2>2, <2>3, PaidQuiet DEF IsAt
<1>3. CASE CacheMiss(w)
  <2>1. At(w, "check") /\ UNCHANGED <<setup, cache, sent, crashes, faults>>
        /\ work' = [work EXCEPT ![w].pc = "write"] /\ Key(w) \notin cache
    BY <1>3 DEF CacheMiss
  <2> DEFINE r == [work[w] EXCEPT !.pc = "write"]
  <2>2. Busy(w) /\ ~At(w, "set")
    BY <2>1 DEF Busy, At
  <2>3. work[w] \in Working
    BY <2>2, BusyTyped
  <2>4. r.stores = work[w].stores /\ r.i = work[w].i
    BY <2>3 DEF Working
  <2>5. work' = [work EXCEPT ![w] = r]
    BY <1>0, <2>1
  <2> HIDE DEF r
  <2>6. ASSUME IsAt(r, "write", s, i) PROVE <<s, NameOf[i]>> \notin cache
    <3>1. Dst[LeastOf(work[w].stores)] = s /\ work[w].i = i
      BY <2>4, <2>6 DEF IsAt
    <3>2. Key(w) = <<s, NameOf[i]>>
      BY <3>1, FirstIsLeast DEF Key, St, Item
    <3>. QED
      BY <2>1, <3>2
  <2>. QED
    BY <1>0, <2>1, <2>2, <2>5, <2>6, PaidQuiet
<1>4. CASE Create(w) \/ WriteData(w)
  <2>1. /\ UNCHANGED <<setup, cache, sent, crashes>> /\ ~At(w, "set")
        /\ faults' = faults \/ faults' = faults + 1
    BY <1>4 DEF Create, WriteData, At, Fails, Fault
  <2>2. Busy(w)
    BY <1>4 DEF Create, WriteData, Busy, At
  <2>3. work[w] \in Working
    BY <2>2, BusyTyped
  <2> DEFINE d == [work[w] EXCEPT !.pc = "data"]
             e == [work[w] EXCEPT !.pc = "set"]
  <2>4. \/ work' = [work EXCEPT ![w] = d] \/ work' = [work EXCEPT ![w] = e]
        \/ work' = [work EXCEPT ![w] = Stopped]
    BY <1>4 DEF Create, WriteData, Fails, AfterError
  <2>5. d.pc # "write" /\ e.pc # "write" /\ Stopped.pc # "write"
    BY <2>3 DEF Working, Stopped
  <2> HIDE DEF d, e
  <2>6. ASSUME NEW r, r.pc # "write", work' = [work EXCEPT ![w] = r] PROVE Paid(s, i)'
    BY <1>0, <2>1, <2>6, PaidQuiet DEF IsAt
  <2>. QED
    BY <2>4, <2>5, <2>6
<1>. QED
  BY <1>1, <1>2, <1>3, <1>4

(* A forward that succeeds takes the worker on to set the key; one whose    *)
(* answer is lost is a fault (telegram.go:48-55, scrapperV1.go:143-145).    *)
LEMMA PaidForward ==
    ASSUME BaseInv, BaseInv', NEW w \in Workers, NEW s \in Stores, NEW i \in Items, Paid(s, i),
           ForwardMsg(w)
    PROVE  Paid(s, i)'
<1>1. /\ At(w, "write") /\ Busy(w) /\ UNCHANGED <<setup, cache, crashes>>
  BY DEF ForwardMsg, At, Busy
<1>2. /\ work[w] \in Working /\ St(w) \in Stores /\ Item(w) \in Items
      /\ work \in [Workers -> WorkSet] /\ sent \in [Stores -> [Items -> Nat]] /\ faults \in Nat
      /\ sent[s][i] \in Nat
  BY <1>1, BusyTyped DEF BaseInv, TypeOK, WorkSet
<1> DEFINE here == IsAt(work[w], "write", s, i)
           more == IF here THEN 1 ELSE 0
           e == [work[w] EXCEPT !.pc = "set"]
<1>3. here <=> St(w) = s /\ Item(w) = i
  BY <1>1, AtIs
<1>4. sent' = [sent EXCEPT ![St(w)][Item(w)] = @ + 1] => sent'[s][i] = sent[s][i] + more
  <2> DEFINE S == St(w)
             I == Item(w)
  <2>1. S \in Stores /\ I \in Items /\ (here <=> S = s /\ I = i)
    BY <1>2, <1>3
  <2> HIDE DEF S, I, here
  <2>2. sent' = [sent EXCEPT ![S][I] = @ + 1] => sent'[s][i] = sent[s][i] + more
    <3> SUFFICES ASSUME sent' = [sent EXCEPT ![S][I] = @ + 1]
                 PROVE  sent'[s][i] = sent[s][i] + more
      OBVIOUS
    <3>1. CASE S = s /\ I = i
      BY <1>2, <2>1, <3>1
    <3>2. CASE S = s /\ I # i
      BY <1>2, <2>1, <3>2
    <3>3. CASE S # s
      BY <1>2, <2>1, <3>3
    <3>. QED
      BY <3>1, <3>2, <3>3
  <2>. QED
    BY <2>2 DEF S, I
<1>5. e.pc = "set" /\ e.i = work[w].i /\ e.stores = work[w].stores
  BY <1>2 DEF Working
<1>6. IsAt(e, "set", s, i) <=> here
  BY <1>1, <1>5 DEF IsAt, At
<1>7. ~IsAt(e, "write", s, i) /\ ~IsAt(work[w], "set", s, i)
  BY <1>1, <1>5 DEF IsAt, At
<1>8. ~IsAt(Stopped, "write", s, i) /\ ~IsAt(Stopped, "set", s, i)
  BY DEF IsAt, Stopped
<1>9. \/ /\ sent' = [sent EXCEPT ![St(w)][Item(w)] = @ + 1]
         /\ work' = [work EXCEPT ![w] = e] /\ faults' = faults
      \/ /\ work' = [work EXCEPT ![w] = Stopped] /\ faults' = faults + 1
         /\ sent' = [sent EXCEPT ![St(w)][Item(w)] = @ + 1] \/ sent' = sent
  BY DEF ForwardMsg, Fails, AfterError, Fault
<1> HIDE DEF e
<1>10. CASE /\ sent' = [sent EXCEPT ![St(w)][Item(w)] = @ + 1]
            /\ work' = [work EXCEPT ![w] = e] /\ faults' = faults
  <2>1. sent'[s][i] = sent[s][i] + more
    BY <1>4, <1>10
  <2>2. sent'[s][i] - sent[s][i] <= faults' - faults + Bit(here) - Bit(IsAt(e, "write", s, i))
    BY <1>2, <1>7, <1>10, <2>1 DEF Bit
  <2>3. sent'[s][i] - sent[s][i]
           <= faults' - faults + Bit(IsAt(e, "set", s, i)) - Bit(IsAt(work[w], "set", s, i))
    BY <1>2, <1>6, <1>7, <1>10, <2>1 DEF Bit
  <2>4. faults' >= faults
    BY <1>2, <1>10
  <2>. QED
    BY <1>1, <1>10, <2>2, <2>3, <2>4, PaidNext
<1>11. CASE /\ work' = [work EXCEPT ![w] = Stopped] /\ faults' = faults + 1
            /\ sent' = [sent EXCEPT ![St(w)][Item(w)] = @ + 1] \/ sent' = sent
  <2>1. sent'[s][i] = sent[s][i] + more \/ sent'[s][i] = sent[s][i]
    BY <1>4, <1>11
  <2>2. sent'[s][i] - sent[s][i]
           <= faults' - faults + Bit(here) - Bit(IsAt(Stopped, "write", s, i))
    BY <1>2, <1>8, <1>11, <2>1 DEF Bit
  <2>3. sent'[s][i] - sent[s][i]
           <= faults' - faults + Bit(IsAt(Stopped, "set", s, i))
              - Bit(IsAt(work[w], "set", s, i))
    BY <1>2, <1>7, <1>8, <1>11, <2>1 DEF Bit
  <2>4. faults' >= faults
    BY <1>2, <1>11
  <2>. QED
    BY <1>1, <1>11, <2>2, <2>3, <2>4, PaidNext
<1>. QED
  BY <1>9, <1>10, <1>11

(* A key that is set ends the count of those that may send; one that is     *)
(* not, its error being ignored, is a fault (scrapperV1.go:145-148).        *)
LEMMA PaidSet ==
    ASSUME BaseInv, BaseInv', NEW w \in Workers, NEW s \in Stores, NEW i \in Items, Paid(s, i),
           CacheSet(w)
    PROVE  Paid(s, i)'
<1>1. /\ At(w, "set") /\ Busy(w) /\ UNCHANGED <<setup, sent, crashes>>
      /\ work' = [work EXCEPT ![w] = NextStore(w)]
  BY DEF CacheSet, At, Busy
<1>2. work[w] \in Working /\ faults \in Nat /\ sent[s][i] \in Nat /\ sent'[s][i] = sent[s][i]
  BY <1>1, BusyTyped DEF BaseInv, TypeOK
<1>3. NextStore(w).pc # "write" /\ NextStore(w).pc # "set"
  BY <1>1, <1>2, BusyTyped DEF NextStore, Stopped, Working
<1>4. \/ cache' = cache \cup {Key(w)} /\ faults' = faults
      \/ cache' = cache /\ faults' = faults + 1
  BY DEF CacheSet, Remembered, Fault
<1> DEFINE r == NextStore(w)
<1>5. ~IsAt(r, "write", s, i) /\ ~IsAt(r, "set", s, i) /\ ~IsAt(work[w], "write", s, i)
  BY <1>1, <1>3 DEF IsAt, At
<1>6. faults' >= faults /\ faults' - faults >= 0
  BY <1>2, <1>4
<1>7. sent'[s][i] - sent[s][i] <= faults' - faults + Bit(IsAt(work[w], "write", s, i))
                                  - Bit(IsAt(r, "write", s, i))
  BY <1>2, <1>4, <1>5 DEF Bit
<1>8. <<s, NameOf[i]>> \notin cache' =>
          sent'[s][i] - sent[s][i] <= faults' - faults + Bit(IsAt(r, "set", s, i))
                                      - Bit(IsAt(work[w], "set", s, i))
  <2>1. CASE faults' = faults + 1
    BY <1>2, <1>5, <2>1 DEF Bit
  <2>2. CASE cache' = cache \cup {Key(w)} /\ faults' = faults
    <3>1. IsAt(work[w], "set", s, i) => Key(w) = <<s, NameOf[i]>>
      BY AtIs DEF Key
    <3>2. <<s, NameOf[i]>> \notin cache' => ~IsAt(work[w], "set", s, i)
      BY <2>2, <3>1
    <3>. QED
      BY <1>2, <1>5, <2>2, <3>2 DEF Bit
  <2>. QED
    BY <1>4, <2>1, <2>2
<1>9. cache \subseteq cache'
  BY <1>4
<1> HIDE DEF r
<1>. QED
  BY <1>1, <1>2, <1>3, <1>6, <1>7, <1>8, <1>9, PaidNext DEF r

(* Each worker may have been about to set a key when the process ended.     *)
LEMMA PaidCrash ==
    ASSUME BaseInv, BaseInv', Crash, NEW s \in Stores, NEW i \in Items, Paid(s, i)
    PROVE  Paid(s, i)'
<1>1. /\ UNCHANGED <<setup, cache, sent, faults>> /\ crashes' = crashes + 1
      /\ \A w \in Workers : work'[w] = Stopped
  BY DEF Crash
<1>2. Setting(s, i)' = {} /\ Writing(s, i)' = {}
  BY <1>1 DEF Setting, Writing, IsAt, Stopped
<1>3. Cardinality(Setting(s, i))' = 0 /\ Cardinality(Writing(s, i))' = 0
  BY <1>2, FS_EmptySet
<1> DEFINE M == Cardinality(Setting(s, i))
           F == Cardinality(Writing(s, i))
           K == N * crashes
           c == <<s, NameOf[i]>> \in cache
<1>4. M \in Nat /\ F \in Nat /\ M <= N /\ N \in Nat
  BY Counts
<1>5. N' = N /\ NameOf' = NameOf
  BY <1>1 DEF N, NameOf
<1>6. sent[s][i] \in Nat /\ faults \in Nat /\ crashes \in Nat
  BY DEF BaseInv, TypeOK
<1>7. K \in Nat /\ N * (crashes + 1) = K + N
  BY <1>4, <1>6
<1>8. IF c THEN sent[s][i] + F <= K + N + faults ELSE sent[s][i] <= K + faults + M
  BY DEF Paid
<1>9. Paid(s, i)' <=> IF c THEN sent[s][i] + 0 <= K + N + N + faults
                           ELSE sent[s][i] <= K + N + faults + 0
  BY <1>1, <1>3, <1>5, <1>7 DEF Paid
<1> HIDE DEF M, F, K
<1>10. CASE c
  BY <1>4, <1>6, <1>7, <1>8, <1>9, <1>10
<1>11. CASE ~c
  BY <1>4, <1>6, <1>7, <1>8, <1>9, <1>11
<1>. QED
  BY <1>10, <1>11

(* Every step keeps the count of every item and chat.                       *)
LEMMA CopiesStep == BaseInv /\ BaseInv' /\ CopiesInv /\ [Next]_vars => CopiesInv'
<1> SUFFICES ASSUME BaseInv, BaseInv', CopiesInv, [Next]_vars,
                    NEW s \in Stores, NEW i \in Items
             PROVE  Paid(s, i)'
  BY DEF CopiesInv
<1>0. Paid(s, i) /\ faults \in Nat /\ faults >= faults
  BY DEF CopiesInv, BaseInv, TypeOK
<1>1. ASSUME UNCHANGED <<setup, work, cache, sent, crashes, faults>> PROVE Paid(s, i)'
  <2>1. Setting(s, i)' = Setting(s, i) /\ Writing(s, i)' = Writing(s, i)
    BY <1>1 DEF Setting, Writing, IsAt
  <2>. QED
    BY <1>0, <1>1, <2>1, PaidSame
<1>2. ASSUME NEW j \in Jobs, SubmitJob(j) PROVE Paid(s, i)'
  <2>1. UNCHANGED <<setup, cache, sent, crashes, faults>>
    BY <1>2 DEF SubmitJob
  <2>2. ASSUME NEW w \in Workers, NEW x \in {"set", "write"}
        PROVE  IsAt(work'[w], x, s, i) <=> IsAt(work[w], x, s, i)
    <3>1. work'[w] = IF At(w, "data") /\ St(w) \in Clean
                     THEN [work[w] EXCEPT !.pc = "unlinked"] ELSE work[w]
      BY <1>2 DEF SubmitJob
    <3>2. CASE At(w, "data") /\ St(w) \in Clean
      <4>1. work[w] \in Working
        BY <3>2, BusyTyped DEF At, Busy
      <4>2. work'[w].pc = "unlinked" /\ work[w].pc = "data"
        BY <3>1, <3>2, <4>1 DEF Working, At
      <4>. QED
        BY <4>2 DEF IsAt
    <3>3. CASE ~(At(w, "data") /\ St(w) \in Clean)
      BY <3>1, <3>3
    <3>. QED
      BY <3>2, <3>3
  <2>3. Setting(s, i)' = Setting(s, i) /\ Writing(s, i)' = Writing(s, i)
    <3>1. Setting(s, i)' = {w \in Workers : IsAt(work'[w], "set", s, i)}
          /\ Writing(s, i)' = {w \in Workers : IsAt(work'[w], "write", s, i)}
      BY DEF Setting, Writing, IsAt
    <3>. QED
      BY <2>2, <3>1 DEF Setting, Writing
  <2>. QED
    BY <1>0, <2>1, <2>3, PaidSame
<1>3. ASSUME NEW j \in Jobs, NEW k \in Items, Feed(j, k) PROVE Paid(s, i)'
  BY <1>1, <1>3 DEF Feed
<1>4. ASSUME NEW d \in queue, Expire(d) PROVE Paid(s, i)'
  BY <1>1, <1>4 DEF Expire
<1>5. ASSUME NEW w \in Workers, WorkStep(w) PROVE Paid(s, i)'
  BY <1>0, <1>5, PaidWorker, PaidForward, PaidSet DEF WorkStep
<1>6. CASE Crash
  BY <1>0, <1>6, PaidCrash
<1>7. CASE UNCHANGED vars
  BY <1>1, <1>7 DEF vars, run
<1>. QED
  BY <1>2, <1>3, <1>4, <1>5, <1>6, <1>7 DEF Next

-----------------------------------------------------------------------------
(* Only files are created before they are filled (FileStore.go:53-63).      *)
OnlyFiles == \A w \in Workers : At(w, "data") \/ At(w, "unlinked") => St(w) \in FileStores

(* A worker sets the key of a message after it has been sent to the chat.   *)
SetSent ==
    \A w \in Workers : At(w, "set") /\ St(w) \notin FileStores => sent[St(w)][Item(w)] > 0

(* What the cache says of a chat: a message of that name was sent to it.    *)
ChatInv ==
    \A s \in Stores \ FileStores, n \in Names : <<s, n>> \in cache =>
        \E i \in Items : NameOf[i] = n /\ sent[s][i] > 0

(* Worker w is about to set the key of name n for store s (Setter); or it   *)
(* has created a file of that name there, and is about to fill it (Writer). *)
Setter(w, s, n) == At(w, "set") /\ St(w) = s /\ NameOf[Item(w)] = n
Writer(w, s, n) == At(w, "data") /\ St(w) = s /\ NameOf[Item(w)] = n

(* Name n is remembered for store s, or about to be.                        *)
Kept(s, n) == <<s, n>> \in cache \/ \E w \in Workers : Setter(w, s, n)

(* Store s has a complete file of name n.                                   *)
Complete(s, n) == \E i \in Items : NameOf[i] = n /\ disk[s][Path(i)] = i

(* What the cache says of a directory that is not cleaned, unless two       *)
(* workers could meet at one file and one of them be stopped: an item of    *)
(* that name is there, complete, or being written again.                    *)
FileInv ==
    ~CutShort => \A s \in FileStores \cap (Stores \ Clean), n \in Names :
                     Kept(s, n) => Complete(s, n) \/ \E w \in Workers : Writer(w, s, n)

(* A worker that is alone writes a file only while its name is not in the   *)
(* cache: it asked, and nobody else sets keys.                              *)
AloneInv ==
    N <= 1 => \A w \in Workers :
                  work[w].pc \in {"write", "data", "unlinked"} => Key(w) \notin cache

(* What is said of a worker whose record does not change.                   *)
LEMMA Same ==
    ASSUME UNCHANGED setup, NEW w, work'[w] = work[w]
    PROVE  /\ St(w)' = St(w) /\ Item(w)' = Item(w) /\ Key(w)' = Key(w)
           /\ \A x : At(w, x)' <=> At(w, x)
           /\ NameOf' = NameOf
           /\ \A s, n : (Setter(w, s, n)' <=> Setter(w, s, n))
                        /\ (Writer(w, s, n)' <=> Writer(w, s, n))
<1>1. St(w)' = St(w) /\ Item(w)' = Item(w) /\ NameOf' = NameOf
  BY DEF St, First, Item, NameOf
<1>2. \A x : At(w, x)' <=> At(w, x)
  BY DEF At
<1>3. Key(w)' = Key(w)
  BY <1>1 DEF Key
<1>4. \A s, n : (Setter(w, s, n)' <=> Setter(w, s, n)) /\ (Writer(w, s, n)' <=> Writer(w, s, n))
  BY <1>1, <1>2 DEF Setter, Writer
<1>. QED
  BY <1>1, <1>2, <1>3, <1>4

(* A worker that goes on with the same item and stores is at the same       *)
(* store.                                                                   *)
LEMMA Moved ==
    ASSUME UNCHANGED setup, NEW w, work'[w].stores = work[w].stores, work'[w].i = work[w].i
    PROVE  St(w)' = St(w) /\ Item(w)' = Item(w) /\ Key(w)' = Key(w) /\ NameOf' = NameOf
<1>1. St(w)' = St(w) /\ Item(w)' = Item(w) /\ NameOf' = NameOf
  BY DEF St, First, Item, NameOf
<1>. QED
  BY <1>1 DEF Key

(* How a worker's record changes.                                          *)
LEMMA StepRecord ==
    ASSUME BaseInv, NEW w \in Workers, WorkStep(w)
    PROVE  /\ UNCHANGED <<setup, crashes>> /\ work' \in [Workers -> WorkSet]
           /\ \A v \in Workers : v # w => work'[v] = work[v]
           /\ faults' >= faults
           /\ work'[w].pc \in {"write", "data", "unlinked", "set"} =>
                 work'[w].stores = work[w].stores /\ work'[w].i = work[w].i
           /\ w \in setup.workers
<1>0. /\ work \in [Workers -> WorkSet] /\ work[w] \in WorkSet /\ faults \in Nat
      /\ faults + 1 >= faults /\ faults >= faults
  BY DEF BaseInv, TypeOK, WorkSet
<1>1. CASE DownloadItem(w)
  <2>1. PICK d \in queue :
           \/ /\ work' = [work EXCEPT ![w] = [pc |-> "check", job |-> d.job, i |-> d.i,
                                             stores |-> d.stores]]
              /\ UNCHANGED faults
           \/ UNCHANGED <<work, faults>>
           \/ Fault /\ UNCHANGED work
    BY <1>1 DEF DownloadItem
  <2>2. At(w, "idle") /\ UNCHANGED <<setup, crashes>> /\ d \in DownloadItemJob
        /\ w \in setup.workers
    BY <1>1 DEF DownloadItem, BaseInv, TypeOK
  <2> DEFINE q == [pc |-> "check", job |-> d.job, i |-> d.i, stores |-> d.stores]
  <2>3. q \in WorkSet /\ q.pc = "check"
    BY <2>2 DEF DownloadItemJob, WorkSet, Working
  <2>4. work' = [work EXCEPT ![w] = q] \/ work' = work
    BY <2>1
  <2>5. faults' >= faults
    BY <1>0, <2>1 DEF Fault
  <2> HIDE DEF q
  <2>. QED
    BY <1>0, <2>2, <2>3, <2>4, <2>5
<1>2. CASE ~DownloadItem(w)
  <2>1. Busy(w) /\ UNCHANGED <<setup, crashes>> /\ (faults' = faults \/ faults' = faults + 1)
    BY <1>2 DEF WorkStep, Busy, At, CacheHit, CacheMiss, Create, WriteData, ForwardMsg,
                CacheSet, Fails, Fault
  <2>2. work[w] \in Working /\ NextStore(w) \in WorkSet /\ w \in setup.workers
    BY <2>1, BusyTyped
  <2>3. NextStore(w).pc \in {"idle", "check"}
    BY <2>2 DEF NextStore, Stopped, Working
  <2>4. Stopped \in WorkSet /\ Stopped.pc = "idle"
    BY DEF WorkSet, Stopped
  <2>5. \/ \E x \in {"write", "data", "set"} : work' = [work EXCEPT ![w].pc = x]
        \/ work' = [work EXCEPT ![w] = NextStore(w)]
        \/ work' = [work EXCEPT ![w] = Stopped]
    BY <1>2 DEF WorkStep, CacheHit, CacheMiss, Create, WriteData, ForwardMsg, CacheSet,
                Fails, AfterError
  <2>6. CASE work' = [work EXCEPT ![w] = NextStore(w)]
    BY <1>0, <2>1, <2>2, <2>3, <2>6
  <2>7. CASE work' = [work EXCEPT ![w] = Stopped]
    BY <1>0, <2>1, <2>2, <2>4, <2>7
  <2>8. ASSUME NEW x \in {"write", "data", "set"}, work' = [work EXCEPT ![w].pc = x]
        PROVE  /\ work' \in [Workers -> WorkSet]
               /\ \A v \in Workers : v # w => work'[v] = work[v]
               /\ work'[w].stores = work[w].stores /\ work'[w].i = work[w].i
    <3> DEFINE r == [work[w] EXCEPT !.pc = x]
    <3>1. r \in Working /\ r.stores = work[w].stores /\ r.i = work[w].i
      BY <2>2 DEF Working
    <3>2. work' = [work EXCEPT ![w] = r]
      BY <1>0, <2>8
    <3> HIDE DEF r
    <3>. QED
      BY <1>0, <3>1, <3>2 DEF WorkSet
  <2>. QED
    BY <1>0, <2>1, <2>2, <2>5, <2>6, <2>7, <2>8
<1>. QED
  BY <1>1, <1>2

(* The action that takes a worker to a step of saveItem.                   *)
LEMMA PcAfter ==
    ASSUME BaseInv, NEW w \in Workers, WorkStep(w)
    PROVE  /\ work'[w].pc # "unlinked"
           /\ work'[w].pc = "write" => CacheMiss(w)
           /\ work'[w].pc = "data"  => Create(w)
           /\ work'[w].pc = "set"   => WriteData(w) \/ ForwardMsg(w)
<1>0. work \in [Workers -> WorkSet] /\ work[w] \in WorkSet
  BY DEF BaseInv, TypeOK, WorkSet
<1>1. ASSUME DownloadItem(w) PROVE work'[w].pc \in {"idle", "check"}
  <2>1. work[w].pc = "idle"
    BY <1>1 DEF DownloadItem, At
  <2>2. PICK d \in queue :
           \/ work' = [work EXCEPT ![w] = [pc |-> "check", job |-> d.job, i |-> d.i,
                                            stores |-> d.stores]]
           \/ UNCHANGED work
    BY <1>1 DEF DownloadItem
  <2> DEFINE q == [pc |-> "check", job |-> d.job, i |-> d.i, stores |-> d.stores]
  <2>3. q.pc = "check" /\ (work' = [work EXCEPT ![w] = q] \/ work' = work)
    BY <2>2
  <2> HIDE DEF q
  <2>. QED
    BY <1>0, <2>1, <2>3
<1>2. ASSUME Busy(w), work' = [work EXCEPT ![w] = NextStore(w)]
      PROVE  work'[w].pc \in {"idle", "check"}
  <2>1. NextStore(w).pc \in {"idle", "check"}
    BY <1>2, BusyTyped DEF NextStore, Stopped, Working
  <2>. QED
    BY <1>0, <1>2, <2>1
<1>3. ASSUME Busy(w), NEW x, work' = [work EXCEPT ![w].pc = x] PROVE work'[w].pc = x
  <2>1. work[w] \in Working
    BY <1>3, BusyTyped
  <2>. QED
    BY <1>0, <1>3, <2>1 DEF Working
<1>4. ASSUME work' = [work EXCEPT ![w] = Stopped] PROVE work'[w].pc = "idle"
  BY <1>0, <1>4 DEF Stopped
<1>5. ASSUME CacheHit(w) \/ CacheSet(w) PROVE work'[w].pc \in {"idle", "check"}
  BY <1>2, <1>5 DEF CacheHit, CacheSet, Busy, At
<1>6. ASSUME CacheMiss(w) PROVE work'[w].pc = "write"
  BY <1>3, <1>6 DEF CacheMiss, Busy, At
<1>7. ASSUME Create(w) PROVE work'[w].pc \in {"idle", "data"}
  BY <1>3, <1>4, <1>7 DEF Create, Fails, AfterError, Busy, At
<1>8. ASSUME WriteData(w) \/ ForwardMsg(w) PROVE work'[w].pc \in {"idle", "set"}
  BY <1>3, <1>4, <1>8 DEF WriteData, ForwardMsg, Fails, AfterError, Busy, At
<1>. QED
  BY <1>1, <1>5, <1>6, <1>7, <1>8 DEF WorkStep

(* Nothing is ever taken back from a chat.                                 *)
LEMMA SentGrows ==
    ASSUME BaseInv, [Next]_vars, NEW s \in Stores, NEW i \in Items
    PROVE  sent[s][i] \in Nat /\ sent'[s][i] \in Nat /\ sent'[s][i] >= sent[s][i]
<1>0. sent[s][i] \in Nat /\ sent \in [Stores -> [Items -> Nat]] /\ sent[s][i] >= sent[s][i]
  BY DEF BaseInv, TypeOK
<1>1. ASSUME NEW w \in Workers, ForwardMsg(w)
      PROVE  sent'[s][i] \in Nat /\ sent'[s][i] >= sent[s][i]
  <2> DEFINE S == St(w)
             I == Item(w)
  <2>1. Busy(w)
    BY <1>1 DEF ForwardMsg, Busy, At
  <2>2. S \in Stores /\ I \in Items
    BY <2>1, BusyTyped
  <2>3. sent' = sent \/ sent' = [sent EXCEPT ![S][I] = @ + 1]
    BY <1>1 DEF ForwardMsg
  <2> HIDE DEF S, I
  <2>4. CASE sent' = [sent EXCEPT ![S][I] = @ + 1]
    <3>1. CASE S = s /\ I = i
      <4>1. sent'[s][i] = sent[s][i] + 1
        BY <1>0, <2>4, <3>1
      <4>. QED
        BY <1>0, <4>1
    <3>2. CASE S = s /\ I # i
      BY <1>0, <2>4, <3>2
    <3>3. CASE S # s
      BY <1>0, <2>4, <3>3
    <3>. QED
      BY <3>1, <3>2, <3>3
  <2>. QED
    BY <1>0, <2>3, <2>4
<1>2. CASE UNCHANGED sent
  BY <1>0, <1>2
<1>3. CASE ~ UNCHANGED sent
  <2>1. \E w \in Workers : ForwardMsg(w)
    BY <1>3 DEF Next, WorkStep, SubmitJob, Feed, Expire, DownloadItem, CacheHit, CacheMiss,
                Create, WriteData, CacheSet, Crash, vars
  <2>. QED
    BY <1>0, <1>1, <2>1
<1>. QED
  BY <1>0, <1>2, <1>3

(* The setup is fixed.                                                      *)
LEMMA SetupStays ==
    ASSUME [Next]_vars
    PROVE  /\ setup' = setup /\ NameOf' = NameOf /\ FileStores' = FileStores
           /\ Clean' = Clean /\ Names' = Names /\ N' = N
           /\ \A i : Path(i)' = Path(i)
<1>1. setup' = setup
  BY DEF Next, WorkStep, SubmitJob, Feed, Expire, DownloadItem, CacheHit, CacheMiss, Create,
         WriteData, ForwardMsg, CacheSet, Crash, vars
<1>2. NameOf' = NameOf /\ FileStores' = FileStores /\ Clean' = Clean /\ N' = N
  BY <1>1 DEF NameOf, FileStores, Clean, N
<1>3. Names' = Names /\ \A i : Path(i)' = Path(i)
  BY <1>2 DEF Names, Path
<1>. QED
  BY <1>1, <1>2, <1>3

(* Every step keeps OnlyFiles: os.Create is FileStore.Write's               *)
(* (FileStore.go:53-63).                                                    *)
LEMMA OnlyFilesStep == BaseInv /\ OnlyFiles /\ [Next]_vars => OnlyFiles'
<1> SUFFICES ASSUME BaseInv, OnlyFiles, [Next]_vars, NEW v \in Workers,
                    work'[v].pc \in {"data", "unlinked"}
             PROVE  St(v)' \in FileStores
  BY SetupStays DEF OnlyFiles, At
<1>0. ASSUME UNCHANGED setup, work'[v] = work[v] PROVE St(v)' \in FileStores
  BY <1>0, Same DEF OnlyFiles, At
<1>1. ASSUME NEW j \in Jobs, SubmitJob(j) PROVE St(v)' \in FileStores
  <2>1. UNCHANGED setup /\ work'[v] = IF At(v, "data") /\ St(v) \in Clean
                                      THEN [work[v] EXCEPT !.pc = "unlinked"] ELSE work[v]
    BY <1>1 DEF SubmitJob
  <2>2. CASE At(v, "data") /\ St(v) \in Clean
    <3>1. work[v] \in Working
      BY <2>2, BusyTyped DEF At, Busy
    <3>2. work'[v].stores = work[v].stores /\ work'[v].i = work[v].i
      BY <2>1, <2>2, <3>1 DEF Working
    <3>. QED
      BY <2>1, <2>2, <3>2, Moved DEF OnlyFiles
  <2>. QED
    BY <1>0, <2>1, <2>2
<1>2. ASSUME NEW w \in Workers, WorkStep(w) PROVE St(v)' \in FileStores
  <2>1. CASE v # w
    BY <1>0, <1>2, <2>1, StepRecord
  <2>2. CASE v = w
    <3>1. UNCHANGED setup /\ work'[w].stores = work[w].stores /\ work'[w].i = work[w].i
      BY <1>2, <2>2, StepRecord
    <3>2. St(w)' = St(w)
      BY <3>1, Moved
    <3>3. Create(w)
      BY <1>2, <2>2, PcAfter
    <3>. QED
      BY <2>2, <3>2, <3>3 DEF Create
  <2>. QED
    BY <2>1, <2>2
<1>3. CASE Crash
  BY <1>3 DEF Crash, Stopped
<1>4. CASE UNCHANGED <<setup, work>>
  BY <1>0, <1>4
<1>. QED
  BY <1>1, <1>2, <1>3, <1>4 DEF Next, Feed, Expire, vars, run

(* Only cache.Kvd.Set adds a key, and none is ever removed.                *)
LEMMA CacheGrows ==
    ASSUME BaseInv, [Next]_vars
    PROVE  /\ cache \subseteq cache'
           /\ \A k \in cache' : k \in cache \/ \E w \in Workers : CacheSet(w) /\ k = Key(w)
<1>1. CASE UNCHANGED cache
  BY <1>1
<1>2. CASE ~ UNCHANGED cache
  <2>1. PICK w \in Workers : CacheSet(w)
    BY <1>2 DEF Next, WorkStep, SubmitJob, Feed, Expire, DownloadItem, CacheHit, CacheMiss,
                Create, WriteData, ForwardMsg, Crash, vars
  <2>2. cache' = cache \cup {Key(w)} \/ cache' = cache
    BY <2>1 DEF CacheSet, Remembered
  <2>. QED
    BY <2>1, <2>2
<1>. QED
  BY <1>1, <1>2

(* A worker gets to the key by way of the forward, which nothing takes back *)
(* (scrapperV1.go:143-148).                                                 *)
LEMMA SetSentStep ==
    BaseInv /\ OnlyFiles /\ SetSent /\ [Next]_vars => SetSent'
<1> SUFFICES ASSUME BaseInv, OnlyFiles, SetSent, [Next]_vars, NEW v \in Workers,
                    work'[v].pc = "set", St(v)' \notin FileStores
             PROVE  (sent[St(v)][Item(v)])' > 0
  BY SetupStays DEF SetSent, At
<1>0. UNCHANGED setup
  BY SetupStays
<1>1. ASSUME At(v, "set"), St(v)' = St(v), Item(v)' = Item(v)
      PROVE  (sent[St(v)][Item(v)])' > 0
  <2> DEFINE S == St(v)
             I == Item(v)
  <2>1. Busy(v)
    BY <1>1 DEF Busy, At
  <2>2. S \in Stores /\ I \in Items /\ sent[S][I] > 0
    BY <1>1, <2>1, BusyTyped DEF SetSent
  <2>3. (sent[St(v)][Item(v)])' = sent'[S][I]
    BY <1>1
  <2> HIDE DEF S, I
  <2>4. sent[S][I] \in Nat /\ sent'[S][I] \in Nat /\ sent'[S][I] >= sent[S][I]
    BY <2>2, SentGrows
  <2>. QED
    BY <2>2, <2>3, <2>4
<1>2. ASSUME work'[v] = work[v] PROVE (sent[St(v)][Item(v)])' > 0
  <2>1. St(v)' = St(v) /\ Item(v)' = Item(v) /\ At(v, "set")
    BY <1>0, <1>2, Same DEF At
  <2>. QED
    BY <1>1, <2>1
<1>3. ASSUME NEW j \in Jobs, SubmitJob(j) PROVE (sent[St(v)][Item(v)])' > 0
  <2>1. work'[v] = IF At(v, "data") /\ St(v) \in Clean
                   THEN [work[v] EXCEPT !.pc = "unlinked"] ELSE work[v]
    BY <1>3 DEF SubmitJob
  <2>2. CASE At(v, "data") /\ St(v) \in Clean
    <3>1. work[v] \in Working
      BY <2>2, BusyTyped DEF At, Busy
    <3>2. work'[v].pc = "unlinked"
      BY <2>1, <2>2, <3>1 DEF Working
    <3>. QED
      BY <3>2
  <2>. QED
    BY <1>2, <2>1, <2>2
<1>4. ASSUME NEW w \in Workers, WorkStep(w) PROVE (sent[St(v)][Item(v)])' > 0
  <2>1. CASE v # w
    BY <1>2, <1>4, <2>1, StepRecord
  <2>2. CASE v = w
    <3>1. St(w)' = St(w) /\ Item(w)' = Item(w)
      BY <1>0, <1>4, <2>2, StepRecord, Moved
    <3>2. WriteData(w) \/ ForwardMsg(w)
      BY <1>4, <2>2, PcAfter
    <3>3. ~WriteData(w)
      BY <2>2, <3>1 DEF WriteData, OnlyFiles
    <3>4. ForwardMsg(w) /\ At(w, "write") /\ Busy(w)
      BY <3>2, <3>3 DEF ForwardMsg, Busy, At
    <3>5. /\ work[w] \in Working /\ work \in [Workers -> WorkSet]
          /\ sent \in [Stores -> [Items -> Nat]]
          /\ St(w) \in Stores /\ Item(w) \in Items
      BY <3>4, BusyTyped DEF BaseInv, TypeOK, WorkSet
    <3>6. work' # [work EXCEPT ![w] = Stopped]
      BY <2>2, <3>5 DEF Stopped
    <3>7. sent' = [sent EXCEPT ![St(w)][Item(w)] = @ + 1]
      BY <3>4, <3>6 DEF ForwardMsg, Fails, AfterError
    <3> DEFINE S == St(w)
               I == Item(w)
    <3>8. (sent[St(v)][Item(v)])' = sent'[S][I]
      BY <2>2, <3>1
    <3>9. S \in Stores /\ I \in Items /\ sent' = [sent EXCEPT ![S][I] = @ + 1]
      BY <3>5, <3>7
    <3> HIDE DEF S, I
    <3>10. sent'[S][I] = sent[S][I] + 1 /\ sent[S][I] \in Nat
      BY <3>5, <3>9
    <3>. QED
      BY <3>8, <3>10
  <2>. QED
    BY <2>1, <2>2
<1>5. CASE Crash
  BY <1>5 DEF Crash, Stopped
<1>6. CASE UNCHANGED work
  BY <1>2, <1>6
<1>. QED
  BY <1>3, <1>4, <1>5, <1>6 DEF Next, Feed, Expire, vars, run

(* A key is set by a worker that has sent the message                       *)
(* (scrapperV1.go:145-148).                                                 *)
LEMMA ChatStep == BaseInv /\ SetSent /\ ChatInv /\ [Next]_vars => ChatInv'
<1> SUFFICES ASSUME BaseInv, SetSent, ChatInv, [Next]_vars,
                    NEW s \in Stores \ FileStores, NEW n \in Names, <<s, n>> \in cache'
             PROVE  \E i \in Items : NameOf'[i] = n /\ sent'[s][i] > 0
  BY SetupStays DEF ChatInv
<1>1. \E i \in Items : NameOf[i] = n /\ sent[s][i] > 0
  <2>1. CASE <<s, n>> \in cache
    BY <2>1 DEF ChatInv
  <2>2. CASE <<s, n>> \notin cache
    <3>1. PICK w \in Workers : CacheSet(w) /\ <<s, n>> = Key(w)
      BY <2>2, CacheGrows
    <3>2. At(w, "set") /\ Busy(w) /\ St(w) = s /\ NameOf[Item(w)] = n
      BY <3>1 DEF CacheSet, Key, At, Busy
    <3>3. Item(w) \in Items /\ sent[s][Item(w)] > 0
      BY <3>2, BusyTyped DEF SetSent
    <3>. QED
      BY <3>2, <3>3
  <2>. QED
    BY <2>1, <2>2
<1>2. PICK i \in Items : NameOf[i] = n /\ sent[s][i] > 0
  BY <1>1
<1>3. sent[s][i] \in Nat /\ sent'[s][i] \in Nat /\ sent'[s][i] >= sent[s][i]
  BY SentGrows
<1>4. NameOf'[i] = n /\ sent'[s][i] > 0
  BY <1>2, <1>3, SetupStays
<1>. QED
  BY <1>4

(* One worker is alone.                                                     *)
LEMMA Alone ==
    ASSUME BaseInv, N <= 1, NEW v \in Workers, NEW w \in Workers,
           v \in setup.workers, w \in setup.workers
    PROVE  v = w
<1> SUFFICES ASSUME v # w PROVE FALSE
  OBVIOUS
<1> DEFINE A == setup.workers
<1>1. IsFiniteSet(A) /\ N = Cardinality(A) /\ N \in Nat
  BY SetupTyped DEF N
<1>2. IsFiniteSet({v}) /\ Cardinality({v}) = 1
  BY FS_Singleton
<1>3. IsFiniteSet({v} \cup {w}) /\ Cardinality({v} \cup {w}) = 2
  BY <1>2, FS_AddElement
<1>4. {v} \cup {w} \subseteq A
  OBVIOUS
<1> HIDE DEF A
<1>5. Cardinality({v} \cup {w}) <= Cardinality(A)
  BY <1>1, <1>4, FS_Subset
<1>. QED
  BY <1>1, <1>3, <1>5

(* Between the look into the cache and the write of the only worker nobody  *)
(* sets a key (scrapperV1.go:137-148).                                      *)
LEMMA AloneStep == BaseInv /\ BaseInv' /\ AloneInv /\ [Next]_vars => AloneInv'
<1> SUFFICES ASSUME BaseInv, BaseInv', AloneInv, [Next]_vars, N <= 1, NEW v \in Workers,
                    work'[v].pc \in {"write", "data", "unlinked"}
             PROVE  Key(v)' \notin cache'
  BY SetupStays DEF AloneInv
<1>0. UNCHANGED setup
  BY SetupStays
<1>1. v \in setup.workers
  BY <1>0 DEF BaseInv, Busy
<1>2. ASSUME Key(v)' = Key(v), Key(v) \notin cache, NEW w \in Workers, CacheSet(w) PROVE FALSE
  <2>1. w \in setup.workers /\ WorkStep(w) /\ At(w, "set")
    BY <1>2, BusyTyped DEF CacheSet, WorkStep, At, Busy
  <2>2. v = w
    BY <1>1, <2>1, Alone
  <2>3. Create(w) \/ CacheMiss(w)
    BY <2>1, <2>2, PcAfter
  <2>. QED
    BY <2>1, <2>3 DEF Create, CacheMiss, At
<1>3. ASSUME Key(v)' = Key(v), Key(v) \notin cache PROVE Key(v)' \notin cache'
  BY <1>2, <1>3, CacheGrows
<1>4. ASSUME work'[v] = work[v] PROVE Key(v)' \notin cache'
  BY <1>0, <1>3, <1>4, Same DEF AloneInv
<1>5. ASSUME NEW j \in Jobs, SubmitJob(j) PROVE Key(v)' \notin cache'
  <2>1. work'[v] = IF At(v, "data") /\ St(v) \in Clean
                   THEN [work[v] EXCEPT !.pc = "unlinked"] ELSE work[v]
    BY <1>5 DEF SubmitJob
  <2>2. CASE At(v, "data") /\ St(v) \in Clean
    <3>1. work[v] \in Working
      BY <2>2, BusyTyped DEF At, Busy
    <3>2. work'[v].stores = work[v].stores /\ work'[v].i = work[v].i
      BY <2>1, <2>2, <3>1 DEF Working
    <3>3. Key(v)' = Key(v)
      BY <1>0, <3>2, Moved
    <3>. QED
      BY <1>3, <2>2, <3>3 DEF AloneInv, At
  <2>. QED
    BY <1>4, <2>1, <2>2
<1>6. ASSUME NEW w \in Workers, WorkStep(w) PROVE Key(v)' \notin cache'
  <2>1. CASE v # w
    BY <1>4, <1>6, <2>1, StepRecord
  <2>2. CASE v = w
    <3>1. Key(v)' = Key(v)
      BY <1>0, <1>6, <2>2, StepRecord, Moved
    <3>2. CacheMiss(w) \/ Create(w)
      BY <1>6, <2>2, PcAfter
    <3>3. Key(w) \notin cache
      BY <3>2 DEF CacheMiss, Create, At, AloneInv
    <3>. QED
      BY <1>3, <2>2, <3>1, <3>3
  <2>. QED
    BY <2>1, <2>2
<1>7. CASE Crash
  BY <1>7 DEF Crash, Stopped
<1>8. CASE UNCHANGED work
  BY <1>4, <1>8
<1>. QED
  BY <1>5, <1>6, <1>7, <1>8 DEF Next, Feed, Expire, vars, run

(* CutShort is for good: a step does not lessen faults and crashes.         *)
LEMMA CutStays ==
    ASSUME BaseInv, [Next]_vars, ~CutShort'
    PROVE  ~CutShort /\ (faults' > 0 \/ crashes' > 0 => N <= 1)
<1>1. faults \in Nat /\ crashes \in Nat
  BY DEF BaseInv, TypeOK
<1>2. /\ faults' = faults \/ faults' = faults + 1
      /\ crashes' = crashes \/ crashes' = crashes + 1
  <2>1. ASSUME NEW w \in Workers, WorkStep(w)
        PROVE  UNCHANGED crashes /\ (UNCHANGED faults \/ faults' = faults + 1)
    BY <2>1 DEF WorkStep, DownloadItem, CacheHit, CacheMiss, Create, WriteData, ForwardMsg,
                CacheSet, Fails, Fault
  <2>2. ASSUME NEW j \in Jobs, SubmitJob(j) PROVE UNCHANGED <<faults, crashes>>
    BY <2>2 DEF SubmitJob
  <2>3. ASSUME NEW j \in Jobs, NEW i \in Items, Feed(j, i) PROVE UNCHANGED <<faults, crashes>>
    BY <2>3 DEF Feed
  <2>. QED
    BY <2>1, <2>2, <2>3 DEF Next, Expire, Crash, vars
<1>3. N' = N /\ N \in Nat
  BY SetupStays, SetupTyped
<1>4. ~(N > 1 /\ crashes' + faults' > 0)
  BY <1>3 DEF CutShort, N
<1>5. ~(N > 1 /\ crashes + faults > 0) /\ (faults' > 0 \/ crashes' > 0 => N <= 1)
  BY <1>1, <1>2, <1>3, <1>4
<1>. QED
  BY <1>5 DEF CutShort, N

(* A path of another name, or of another store, is another file.           *)
LEMMA OtherFile ==
    ASSUME BaseInv, NEW S \in Stores, NEW P \in Paths, NEW c,
           disk' = [disk EXCEPT ![S][P] = c],
           NEW s \in Stores, NEW p \in Paths
    PROVE  disk'[s][p] = IF s = S /\ p = P THEN c ELSE disk[s][p]
<1>1. disk \in [Stores -> [Paths -> Contents]]
  BY DEF BaseInv, TypeOK
<1>2. disk'[s] = IF s = S THEN [disk[s] EXCEPT ![P] = c] ELSE disk[s]
  BY <1>1
<1>3. disk[s] \in [Paths -> Contents]
  BY <1>1
<1>. QED
  BY <1>2, <1>3

(* Every step keeps FileInv: os.Create makes the worker one that is         *)
(* rewriting the file, its write completes it, and one that is stopped      *)
(* between the two has, if it is alone, no key to leave behind              *)
(* (FileStore.go:53-63, scrapperV1.go:137-148).                             *)
LEMMA FileStep ==
    BaseInv /\ BaseInv' /\ OnlyFiles /\ FileInv /\ AloneInv /\ [Next]_vars => FileInv'
<1> DEFINE Writers(s, n) == \E w \in Workers : Writer(w, s, n)
<1> SUFFICES ASSUME BaseInv, BaseInv', OnlyFiles, FileInv, AloneInv, [Next]_vars, ~CutShort',
                    NEW s \in Stores, s \in FileStores, s \notin Clean, NEW n \in Names,
                    Kept(s, n)'
             PROVE  Complete(s, n)' \/ Writers(s, n)'
  BY SetupStays DEF FileInv
<1>0. /\ setup' = setup /\ NameOf' = NameOf /\ Clean' = Clean
      /\ \A i : Path(i)' = Path(i)
      /\ faults' > 0 \/ crashes' > 0 => N <= 1
      /\ Kept(s, n) => Complete(s, n) \/ Writers(s, n)
  BY SetupStays, CutStays DEF FileInv
<1>1. Complete(s, n)' <=> \E i \in Items : NameOf[i] = n /\ disk'[s][Path(i)] = i
  BY <1>0 DEF Complete
<1>2. ASSUME Kept(s, n),
             \A i \in Items : NameOf[i] = n => disk'[s][Path(i)] = disk[s][Path(i)],
             \A w \in Workers : Writer(w, s, n) => Writer(w, s, n)'
      PROVE  Complete(s, n)' \/ Writers(s, n)'
  BY <1>0, <1>1, <1>2 DEF Complete
<1>3. ASSUME NEW k \in Workers, WorkStep(k), ~CacheSet(k),
             \A w \in Workers : Setter(w, s, n)' => Setter(w, s, n)
      PROVE  Kept(s, n)
  <2>1. cache' = cache
    BY <1>3 DEF WorkStep, DownloadItem, CacheHit, CacheMiss, Create, WriteData, ForwardMsg
  <2>. QED
    BY <1>3, <2>1 DEF Kept
<1>4. ASSUME NEW k \in Workers, WorkStep(k)
      PROVE  \A w \in Workers : w # k => /\ Setter(w, s, n)' <=> Setter(w, s, n)
                                         /\ Writer(w, s, n)' <=> Writer(w, s, n)
  BY <1>0, <1>4, StepRecord, Same
<1>5. ASSUME NEW j \in Jobs, SubmitJob(j) PROVE Complete(s, n)' \/ Writers(s, n)'
  <2>1. ASSUME NEW w \in Workers
        PROVE  (Setter(w, s, n)' => Setter(w, s, n)) /\ (Writer(w, s, n) => Writer(w, s, n)')
    <3>1. work'[w] = IF At(w, "data") /\ St(w) \in Clean
                     THEN [work[w] EXCEPT !.pc = "unlinked"] ELSE work[w]
      BY <1>5 DEF SubmitJob
    <3>2. CASE At(w, "data") /\ St(w) \in Clean
      <4>1. work[w] \in Working
        BY <3>2, BusyTyped DEF At, Busy
      <4>2. work'[w].pc = "unlinked"
        BY <3>1, <3>2, <4>1 DEF Working
      <4>. QED
        BY <3>2, <4>2 DEF Setter, Writer, At
    <3>3. CASE ~(At(w, "data") /\ St(w) \in Clean)
      BY <1>0, <3>1, <3>3, Same
    <3>. QED
      BY <3>2, <3>3
  <2>2. cache' = cache /\ disk'[s] = disk[s]
    BY <1>5 DEF SubmitJob, createStructure
  <2>. QED
    BY <1>2, <2>1, <2>2 DEF Kept
<1>6. ASSUME NEW w \in Workers, DownloadItem(w) \/ CacheHit(w) \/ CacheMiss(w) \/ CacheSet(w)
      PROVE  Complete(s, n)' \/ Writers(s, n)'
  <2>0. WorkStep(w) /\ disk' = disk /\ work[w].pc \in {"idle", "check", "set"}
    BY <1>6 DEF WorkStep, DownloadItem, CacheHit, CacheMiss, CacheSet, At
  <2>1. ~WriteData(w) /\ ~ForwardMsg(w) /\ ~Writer(w, s, n)
    BY <2>0 DEF WriteData, ForwardMsg, Writer, At
  <2>2. ~Setter(w, s, n)'
    BY <2>0, <2>1, PcAfter DEF Setter, At
  <2>3. \A v \in Workers : /\ Setter(v, s, n)' => Setter(v, s, n)
                           /\ Writer(v, s, n) => Writer(v, s, n)'
    BY <1>4, <2>0, <2>1, <2>2
  <2>4. Kept(s, n)
    <3>1. CASE CacheSet(w)
      <4>1. cache' \subseteq cache \cup {Key(w)}
        BY <3>1 DEF CacheSet, Remembered
      <4>2. <<s, n>> = Key(w) => Setter(w, s, n)
        BY <3>1 DEF CacheSet, Key, Setter
      <4>. QED
        BY <2>3, <4>1, <4>2 DEF Kept
    <3>2. CASE ~CacheSet(w)
      BY <1>3, <2>0, <2>3, <3>2
    <3>. QED
      BY <3>1, <3>2
  <2>. QED
    BY <1>2, <2>0, <2>3, <2>4
<1>7. ASSUME NEW w \in Workers, ForwardMsg(w) PROVE Complete(s, n)' \/ Writers(s, n)'
  <2>0. /\ WorkStep(w) /\ disk' = disk /\ cache' = cache
        /\ At(w, "write") /\ St(w) \notin FileStores
    BY <1>7 DEF WorkStep, ForwardMsg
  <2>1. ~Writer(w, s, n)
    BY <2>0 DEF Writer, At
  <2>2. ~Setter(w, s, n)'
    <3> SUFFICES ASSUME work'[w].pc = "set", St(w)' = s PROVE FALSE
      BY DEF Setter, At
    <3>1. St(w)' = St(w)
      BY <1>0, <2>0, StepRecord, Moved
    <3>. QED
      BY <2>0, <3>1
  <2>3. \A v \in Workers : /\ Setter(v, s, n)' => Setter(v, s, n)
                           /\ Writer(v, s, n) => Writer(v, s, n)'
    BY <1>4, <2>0, <2>1, <2>2
  <2>4. Kept(s, n)
    BY <2>0, <2>3 DEF Kept
  <2>. QED
    BY <1>2, <2>0, <2>3, <2>4
<1>8. ASSUME NEW w \in Workers, Create(w) PROVE Complete(s, n)' \/ Writers(s, n)'
  <2>0. /\ WorkStep(w) /\ work[w].pc = "write" /\ cache' = cache /\ Busy(w)
        /\ work'[w].pc # "set"
    <3>1. WorkStep(w) /\ work[w].pc = "write" /\ cache' = cache /\ Busy(w)
      BY <1>8 DEF WorkStep, Create, At, Busy
    <3>2. ~WriteData(w) /\ ~ForwardMsg(w)
      BY <1>8, <3>1 DEF Create, WriteData, ForwardMsg, At
    <3>. QED
      BY <3>1, <3>2, PcAfter
  <2>1. ~Writer(w, s, n) /\ ~Setter(w, s, n)'
    BY <2>0 DEF Writer, Setter, At
  <2>2. \A v \in Workers : /\ Setter(v, s, n)' => Setter(v, s, n)
                           /\ Writer(v, s, n) => Writer(v, s, n)'
    BY <1>4, <2>0, <2>1
  <2>3. Kept(s, n)
    BY <2>0, <2>2 DEF Kept
  <2>4. CASE disk' = disk
    BY <1>2, <2>2, <2>3, <2>4
  <2>5. CASE disk' # disk
    <3>1. /\ disk' = [disk EXCEPT ![St(w)][Path(Item(w))] = "partial"]
          /\ work' = [work EXCEPT ![w].pc = "data"]
      BY <1>8, <2>5 DEF Create
    <3>2. St(w) \in Stores /\ Path(Item(w)) \in Paths /\ work[w] \in Working
      BY <2>0, BusyTyped
    <3>3. CASE St(w) = s /\ NameOf[Item(w)] = n
      <4>1. work'[w].pc = "data"
        BY <3>1, <3>2 DEF BaseInv, TypeOK, Working
      <4>2. St(w)' = St(w) /\ Item(w)' = Item(w)
        BY <1>0, <2>0, <4>1, StepRecord, Moved
      <4>3. Writer(w, s, n)'
        BY <1>0, <3>3, <4>1, <4>2 DEF Writer, At
      <4>. QED
        BY <4>3
    <3>4. CASE ~(St(w) = s /\ NameOf[Item(w)] = n)
      <4>1. ASSUME NEW i \in Items, NameOf[i] = n PROVE disk'[s][Path(i)] = disk[s][Path(i)]
        <5>1. Path(i) \in Paths
          BY DEF Path, Paths, Acs, Names
        <5>2. ~(s = St(w) /\ Path(i) = Path(Item(w)))
          BY <3>4, <4>1 DEF Path
        <5>. QED
          BY <3>1, <3>2, <5>1, <5>2, OtherFile
      <4>. QED
        BY <1>2, <2>2, <2>3, <4>1
    <3>. QED
      BY <3>3, <3>4
  <2>. QED
    BY <2>4, <2>5
<1>9. ASSUME NEW w \in Workers, WriteData(w) PROVE Complete(s, n)' \/ Writers(s, n)'
  <2>0. /\ WorkStep(w) /\ work[w].pc \in {"data", "unlinked"} /\ cache' = cache /\ Busy(w)
        /\ w \in setup.workers
    BY <1>9, BusyTyped DEF WorkStep, WriteData, At, Busy
  <2>1. St(w) \in Stores /\ Path(Item(w)) \in Paths /\ Item(w) \in Items /\ work[w] \in Working
    BY <2>0, BusyTyped
  <2>2. ASSUME ~(St(w) = s /\ NameOf[Item(w)] = n) PROVE Complete(s, n)' \/ Writers(s, n)'
    <3>1. ~Writer(w, s, n)
      BY <2>2 DEF Writer
    <3>2. ~Setter(w, s, n)'
      <4> SUFFICES ASSUME work'[w].pc = "set", St(w)' = s, NameOf'[Item(w)'] = n PROVE FALSE
        BY DEF Setter, At
      <4>1. St(w)' = St(w) /\ Item(w)' = Item(w)
        BY <1>0, <2>0, StepRecord, Moved
      <4>. QED
        BY <1>0, <2>2, <4>1
    <3>3. \A v \in Workers : /\ Setter(v, s, n)' => Setter(v, s, n)
                             /\ Writer(v, s, n) => Writer(v, s, n)'
      BY <1>4, <2>0, <3>1, <3>2
    <3>4. Kept(s, n)
      BY <2>0, <3>3 DEF Kept
    <3>5. ASSUME NEW i \in Items, NameOf[i] = n PROVE disk'[s][Path(i)] = disk[s][Path(i)]
      <4>1. Path(i) \in Paths
        BY DEF Path, Paths, Acs, Names
      <4>2. ~(s = St(w) /\ Path(i) = Path(Item(w)))
        BY <2>2, <3>5 DEF Path
      <4>3. disk' = disk \/ disk' = [disk EXCEPT ![St(w)][Path(Item(w))] = Item(w)]
        BY <1>9 DEF WriteData
      <4>. QED
        BY <2>1, <4>1, <4>2, <4>3, OtherFile
    <3>. QED
      BY <1>2, <3>3, <3>4, <3>5
  <2>3. CASE St(w) = s /\ NameOf[Item(w)] = n
    <3>1. At(w, "data")
      BY <2>0, <2>3 DEF BaseInv, At
    <3>2. CASE disk' = [disk EXCEPT ![St(w)][Path(Item(w))] = Item(w)]
      <4>1. disk'[s][Path(Item(w))] = Item(w)
        <5> DEFINE P == Path(Item(w))
                   c == Item(w)
        <5>1. P \in Paths /\ disk' = [disk EXCEPT ![s][P] = c]
          BY <2>1, <2>3, <3>2
        <5> HIDE DEF P, c
        <5>2. disk'[s][P] = c
          BY <5>1 DEF BaseInv, TypeOK
        <5>. QED
          BY <5>2 DEF P, c
      <4>. QED
        BY <1>1, <2>1, <2>3, <4>1
    <3>3. CASE disk' # [disk EXCEPT ![St(w)][Path(Item(w))] = Item(w)]
      <4>1. Fault /\ work' = [work EXCEPT ![w] = Stopped]
        <5>1. ~At(w, "unlinked")
          BY <3>1 DEF At
        <5>. QED
          BY <1>9, <3>3, <5>1 DEF WriteData, Fails, AfterError
      <4>2. faults \in Nat /\ faults' = faults + 1
        BY <4>1 DEF Fault, BaseInv, TypeOK
      <4>3. N <= 1
        BY <1>0, <4>2
      <4>4. Key(w) = <<s, n>> /\ Key(w) \notin cache
        BY <2>3, <3>1, <4>3 DEF AloneInv, At, Key
      <4>5. PICK v \in Workers : Setter(v, s, n)'
        BY <2>0, <4>4 DEF Kept
      <4>6. v # w
        BY <4>1, <4>5 DEF Setter, At, BaseInv, TypeOK, Stopped
      <4>7. Setter(v, s, n)
        BY <1>4, <2>0, <4>5, <4>6
      <4>8. v \in setup.workers
        BY <4>7 DEF Setter, At, BaseInv, Busy
      <4>. QED
        BY <2>0, <4>3, <4>6, <4>8, Alone
    <3>. QED
      BY <3>2, <3>3
  <2>. QED
    BY <2>2, <2>3
<1>10. CASE Crash
  <2>1. /\ cache' = cache /\ disk' = disk /\ crashes' = crashes + 1
        /\ \A w \in Workers : work'[w].pc = "idle"
    BY <1>10 DEF Crash, Stopped
  <2>2. crashes' > 0
    BY <2>1 DEF BaseInv, TypeOK
  <2>3. <<s, n>> \in cache
    BY <2>1 DEF Kept, Setter, At
  <2>4. ASSUME NEW w \in Workers, Writer(w, s, n) PROVE FALSE
    <3>1. Key(w) = <<s, n>> /\ work[w].pc = "data"
      BY <2>4 DEF Writer, Key, At
    <3>. QED
      BY <1>0, <2>2, <2>3, <3>1 DEF AloneInv
  <2>5. Complete(s, n)
    BY <1>0, <2>3, <2>4 DEF Kept
  <2>. QED
    BY <1>1, <2>1, <2>5 DEF Complete
<1>11. CASE UNCHANGED <<work, cache, disk>>
  <2>1. \A w \in Workers : /\ Setter(w, s, n)' <=> Setter(w, s, n)
                           /\ Writer(w, s, n)' <=> Writer(w, s, n)
    BY <1>0, <1>11, Same
  <2>2. Kept(s, n)
    BY <1>11, <2>1 DEF Kept
  <2>. QED
    BY <1>2, <1>11, <2>1, <2>2
<1>. QED
  BY <1>5, <1>6, <1>7, <1>8, <1>9, <1>10, <1>11 DEF Next, WorkStep, Feed, Expire, vars, run

-----------------------------------------------------------------------------
(* The inductive invariant.                                                 *)
StoreInv ==
    BaseInv /\ CopiesInv /\ OnlyFiles /\ SetSent /\ ChatInv /\ FileInv /\ AloneInv

(* The invariant holds throughout (scrapperV1.go:115-152,                   *)
(* FileStore.go:53-106).                                                    *)
THEOREM StoreInductive == Spec => []StoreInv
<1>1. Init => StoreInv
  <2> SUFFICES ASSUME Init PROVE StoreInv
    OBVIOUS
  <2>1. BaseInv
    BY BaseInit
  <2>2. \A w \in Workers : work[w].pc = "idle"
    BY DEF Init, Stopped
  <2>3. OnlyFiles /\ SetSent /\ AloneInv
    BY <2>2 DEF OnlyFiles, SetSent, AloneInv, At
  <2>4. cache = {}
    BY DEF Init
  <2>5. ChatInv /\ FileInv
    BY <2>2, <2>4 DEF ChatInv, FileInv, Kept, Setter, At
  <2>6. ASSUME NEW s \in Stores, NEW i \in Items PROVE Paid(s, i)
    <3>1. sent[s][i] = 0 /\ faults = 0 /\ crashes = 0
      BY DEF Init
    <3>2. N \in Nat /\ Cardinality(Setting(s, i)) \in Nat
      BY <2>1, Counts
    <3>3. N * crashes = 0
      BY <3>1, <3>2
    <3>4. sent[s][i] <= N * crashes + faults + Cardinality(Setting(s, i))
      BY <3>1, <3>2, <3>3
    <3>. QED
      BY <2>4, <3>4 DEF Paid
  <2>. QED
    BY <2>1, <2>3, <2>5, <2>6 DEF StoreInv, CopiesInv
<1>2. StoreInv /\ [Next]_vars => StoreInv'
  BY BaseStep, CopiesStep, OnlyFilesStep, SetSentStep, ChatStep, FileStep, AloneStep
     DEF StoreInv
<1>. QED
  BY <1>1, <1>2, PTL DEF Spec

(* Types: a worker is at one of its item's stores, and a key of the cache   *)
(* is a store and a name (scrapperV1.go:131-139).                           *)
THEOREM TypeCorrect == Spec => []TypeOK
<1>1. StoreInv => TypeOK
  BY DEF StoreInv, BaseInv
<1>. QED
  BY <1>1, StoreInductive, PTL

(* CopiesBounded: a chat gets at most one copy of an item from each worker  *)
(* and run, and one for each fault (scrapperV1.go:137-148).                 *)
THEOREM CopiesCorrect == Spec => []CopiesBounded
<1>1. StoreInv => CopiesBounded
  <2> SUFFICES ASSUME StoreInv, NEW s \in Stores, NEW i \in Items
               PROVE  sent[s][i] <= N * (crashes + 1) + faults
    BY DEF CopiesBounded, N
  <2> DEFINE M == Cardinality(Setting(s, i))
             F == Cardinality(Writing(s, i))
             K == N * crashes
             c == <<s, NameOf[i]>> \in cache
  <2>1. BaseInv
    BY DEF StoreInv
  <2>2. M \in Nat /\ F \in Nat /\ M <= N /\ N \in Nat
    BY <2>1, Counts
  <2>3. sent[s][i] \in Nat /\ faults \in Nat /\ crashes \in Nat
    BY <2>1 DEF BaseInv, TypeOK
  <2>4. K \in Nat /\ N * (crashes + 1) = K + N
    BY <2>2, <2>3
  <2>5. IF c THEN sent[s][i] + F <= K + N + faults ELSE sent[s][i] <= K + faults + M
    BY DEF StoreInv, CopiesInv, Paid
  <2> HIDE DEF M, F, K
  <2>. QED
    BY <2>2, <2>3, <2>4, <2>5
<1>. QED
  BY <1>1, StoreInductive, PTL

(* The invariant says what stands behind a key.                             *)
LEMMA StoredInv == StoreInv => CachedIsStored
<1> SUFFICES ASSUME StoreInv, NEW s \in Stores \ Clean, NEW n \in Names, <<s, n>> \in cache
             PROVE  \/ \E i \in Items : NameOf[i] = n /\ Has(s, i)
                    \/ Rewriting(s, n)
                    \/ s \in FileStores /\ CutShort
  BY DEF CachedIsStored
<1>1. CASE s \in FileStores
  BY <1>1 DEF StoreInv, FileInv, Kept, Complete, Writer, Has, Rewriting
<1>2. CASE s \notin FileStores
  BY <1>2 DEF StoreInv, ChatInv, Has
<1>. QED
  BY <1>1, <1>2

(* CachedIsStored: what is in the cache is in the store, complete, but for  *)
(* two workers at one path when one of them was stopped                     *)
(* (scrapperV1.go:137-148, FileStore.go:53-63).                             *)
THEOREM CachedCorrect == Spec => []CachedIsStored
BY StoredInv, StoreInductive, PTL

(* HitMeansFound: an item is skipped as "found in store" only when it is    *)
(* there, or when the cache cannot tell (scrapperV1.go:138-141).            *)
THEOREM HitCorrect == Spec => HitMeansFound
<1> DEFINE Good(w) == \/ Has(St(w), Item(w))
                      \/ Shared(Item(w)) \/ St(w) \in Clean
                      \/ Rewriting(St(w), NameOf[Item(w)]) \/ CutShort
           Step == \A w \in Workers : CacheHit(w) => Good(w)
<1>1. StoreInv => Step
  <2> SUFFICES ASSUME StoreInv, NEW w \in Workers, CacheHit(w), St(w) \notin Clean,
                      ~Shared(Item(w))
               PROVE  \/ Has(St(w), Item(w))
                      \/ Rewriting(St(w), NameOf[Item(w)]) \/ CutShort
    OBVIOUS
  <2>1. BaseInv /\ Busy(w) /\ Key(w) \in cache
    BY DEF StoreInv, CacheHit, Busy, At
  <2>2. St(w) \in Stores \ Clean /\ Item(w) \in Items /\ NameOf[Item(w)] \in Names
    BY <2>1, BusyTyped
  <2>3. \/ \E i \in Items : NameOf[i] = NameOf[Item(w)] /\ Has(St(w), i)
        \/ Rewriting(St(w), NameOf[Item(w)]) \/ CutShort
    BY <2>1, <2>2, StoredInv DEF CachedIsStored, Key
  <2>4. \A i \in Items : NameOf[i] = NameOf[Item(w)] => i = Item(w)
    BY <2>2 DEF Shared
  <2>. QED
    BY <2>3, <2>4
<1>2. StoreInv /\ [Next]_vars => [Step]_vars
  BY <1>1
<1>. QED
  BY <1>2, StoreInductive, PTL DEF Spec, HitMeansFound

-----------------------------------------------------------------------------
(* A file is never written into BasePath itself, where ItemExists looks for *)
(* it (FileStore.go:53-63,100-106).                                         *)
RootInv == \A s \in Stores, n \in Names : disk[s][<<Root, n>>] = "absent"

(* Post i of job j is in the queue, or with a worker, and its place n in    *)
(* Dst is still to come.                                                    *)
Waits(j, i, n) == \E e \in queue : e.job = j /\ e.i = i /\ n \in e.stores
Ahead(i, n)    == \E w \in Workers : Busy(w) /\ Item(w) = i /\ n \in work[w].stores

(* Post i of job j has been fed, with a name; no error of it has been       *)
(* logged, and there has been no fault.                                     *)
Due(j, i) ==
    /\ <<j, i>> \in fed \ failed /\ NameOf[i] # NoName
    /\ faults = 0

(* Such a post has each of its stores before it, or its name is remembered  *)
(* there, or about to be.                                                   *)
Owed(j, i, n) == Waits(j, i, n) \/ Ahead(i, n) \/ Kept(Dst[n], NameOf[i])
DueInv == \A j \in Jobs, i \in Items : Due(j, i) => \A n \in DOMAIN Dst : Owed(j, i, n)

(* When nobody has it any more, it is in every store that is not cleaned,   *)
(* restarts notwithstanding unless two workers were at work.                *)
DrainedIsStored ==
    \A j \in Jobs, i \in Items :
        /\ Due(j, i) /\ ~Shared(i) /\ ~CutShort
        /\ \A e \in queue : ~(e.job = j /\ e.i = i)
        /\ \A w \in Workers : ~(Busy(w) /\ Item(w) = i)
        => \A s \in Stores \ Clean : Has(s, i)

(* Every step keeps RootInv: a path is that of an account.                  *)
LEMMA RootStep == BaseInv /\ RootInv /\ [Next]_vars => RootInv'
<1> SUFFICES ASSUME BaseInv, RootInv, [Next]_vars, NEW s \in Stores, NEW n \in Names
             PROVE  disk'[s][<<Root, n>>] = "absent"
  BY SetupStays DEF RootInv
<1>0. <<Root, n>> \in Paths /\ disk[s][<<Root, n>>] = "absent"
  BY DEF Paths, RootInv
<1>1. ASSUME NEW j \in Jobs, SubmitJob(j) PROVE disk'[s][<<Root, n>>] = "absent"
  <2>1. disk' = createStructure
    BY <1>1 DEF SubmitJob
  <2>2. disk'[s] = IF s \in Clean THEN [p \in Paths |-> "absent"] ELSE disk[s]
    BY <2>1 DEF createStructure
  <2>. QED
    BY <1>0, <2>2
<1>2. ASSUME NEW w \in Workers, Create(w) \/ WriteData(w) PROVE disk'[s][<<Root, n>>] = "absent"
  <2>1. Busy(w)
    BY <1>2 DEF Create, WriteData, Busy, At
  <2>2. St(w) \in Stores /\ Path(Item(w)) \in Paths /\ Item(w) \in Items
    BY <2>1, BusyTyped
  <2>3. Path(Item(w)) # <<Root, n>>
    BY <2>2, StoreAssumption DEF Path, Acs
  <2>4. \/ disk' = disk \/ disk' = [disk EXCEPT ![St(w)][Path(Item(w))] = "partial"]
        \/ disk' = [disk EXCEPT ![St(w)][Path(Item(w))] = Item(w)]
    BY <1>2 DEF Create, WriteData
  <2>. QED
    BY <1>0, <2>2, <2>3, <2>4, OtherFile
<1>3. CASE UNCHANGED disk
  BY <1>0, <1>3
<1>4. \/ UNCHANGED disk \/ \E j \in Jobs : SubmitJob(j)
      \/ \E w \in Workers : Create(w) \/ WriteData(w)
  BY DEF Next, WorkStep, Feed, Expire, DownloadItem, CacheHit, CacheMiss, ForwardMsg, CacheSet,
         Crash, vars
<1>. QED
  BY <1>1, <1>2, <1>3, <1>4

(* A post with a name is not found in any store: ItemExists looks in the    *)
(* wrong directory (scrapperV1.go:211-222, FileStore.go:100-106).           *)
LEMMA NoneFiltered ==
    ASSUME BaseInv, RootInv, NEW i \in Items, NameOf[i] # NoName
    PROVE  filterStores(i) = DOMAIN Dst
<1>1. \A n \in DOMAIN Dst : Dst[n] \in Stores
  BY DEF Stores
<1>2. NameOf[i] \in Names
  BY DEF Names
<1>. QED
  BY <1>1, <1>2 DEF filterStores, ItemExists, RootInv

(* While nothing goes wrong, a name that is remembered stays so, and one    *)
(* that is about to be is (scrapperV1.go:143-148).                          *)
LEMMA KeptStays ==
    ASSUME BaseInv, [Next]_vars, faults' = faults, crashes' = crashes,
           NEW s, NEW m, Kept(s, m)
    PROVE  Kept(s, m)'
<1>0. cache \subseteq cache' /\ setup' = setup /\ faults \in Nat /\ crashes \in Nat
  BY CacheGrows, SetupStays DEF BaseInv, TypeOK
<1>1. CASE <<s, m>> \in cache
  BY <1>0, <1>1 DEF Kept
<1>2. ASSUME NEW v \in Workers, Setter(v, s, m) PROVE Kept(s, m)'
  <2>1. ASSUME work'[v] = work[v] PROVE Kept(s, m)'
    BY <1>0, <1>2, <2>1, Same DEF Kept
  <2>2. ASSUME NEW w \in Workers, WorkStep(w), w = v PROVE Kept(s, m)'
    <3>1. CacheSet(v)
      BY <1>2, <2>2 DEF Setter, WorkStep, DownloadItem, CacheHit, CacheMiss, Create, WriteData,
                        ForwardMsg, At
    <3>2. ~Fault
      BY <1>0 DEF Fault
    <3>3. Key(v) \in cache'
      BY <3>1, <3>2 DEF CacheSet, Remembered
    <3>4. Key(v) = <<s, m>>
      BY <1>2 DEF Setter, Key
    <3>. QED
      BY <3>3, <3>4 DEF Kept
  <2>3. ASSUME NEW w \in Workers, WorkStep(w), w # v PROVE Kept(s, m)'
    BY <2>1, <2>3, StepRecord
  <2>4. ASSUME NEW j \in Jobs, SubmitJob(j) PROVE Kept(s, m)'
    <3>1. work'[v] = work[v]
      BY <1>2, <2>4 DEF SubmitJob, Setter, At
    <3>. QED
      BY <2>1, <3>1
  <2>5. CASE Crash
    BY <1>0, <2>5 DEF Crash
  <2>6. CASE UNCHANGED work
    BY <2>1, <2>6
  <2>. QED
    BY <2>2, <2>3, <2>4, <2>5, <2>6 DEF Next, Feed, Expire, vars, run
<1>. QED
  BY <1>1, <1>2 DEF Kept

(* A worker goes on to the next store only from one whose cache has the key *)
(* (scrapperV1.go:131-150).                                                 *)
LEMMA AheadNext ==
    ASSUME BaseInv, NEW w \in Workers, WorkStep(w), Busy(w), faults' = faults,
           NEW n \in work[w].stores
    PROVE  \/ Busy(w)' /\ Item(w)' = Item(w) /\ n \in work'[w].stores
           \/ <<Dst[n], NameOf[Item(w)]>> \in cache'
<1>0. faults \in Nat /\ ~Fault /\ work \in [Workers -> WorkSet]
  BY DEF BaseInv, TypeOK, Fault, WorkSet
<1>1. work[w] \in Working /\ work[w].stores \in StoreLists
  BY BusyTyped
<1>2. ASSUME NEW x \in {"write", "data", "set"}, work' = [work EXCEPT ![w].pc = x]
      PROVE  Busy(w)' /\ Item(w)' = Item(w) /\ n \in work'[w].stores
  <2> DEFINE r == [work[w] EXCEPT !.pc = x]
  <2>1. r.pc = x /\ r.i = work[w].i /\ r.stores = work[w].stores
    BY <1>1 DEF Working
  <2>2. work' = [work EXCEPT ![w] = r]
    BY <1>2
  <2> HIDE DEF r
  <2>3. work'[w] = r
    BY <1>0, <2>2
  <2>. QED
    BY <2>1, <2>3 DEF Busy, Item
<1>3. ASSUME work' = [work EXCEPT ![w] = NextStore(w)], Key(w) \in cache'
      PROVE  \/ Busy(w)' /\ Item(w)' = Item(w) /\ n \in work'[w].stores
             \/ <<Dst[n], NameOf[Item(w)]>> \in cache'
  <2>1. CASE n = First(w)
    BY <1>3, <2>1 DEF Key, St
  <2>2. CASE n # First(w)
    <3> DEFINE r == [work[w] EXCEPT !.pc = "check", !.stores = @ \ {First(w)}]
    <3>1. NextStore(w) = r
      BY <2>2 DEF NextStore, AtLast
    <3>2. r.pc = "check" /\ r.i = work[w].i /\ r.stores = work[w].stores \ {First(w)}
      BY <1>1 DEF Working
    <3> HIDE DEF r
    <3>3. work'[w] = r
      BY <1>0, <1>3, <3>1
    <3>. QED
      BY <2>2, <3>2, <3>3 DEF Busy, Item
  <2>. QED
    BY <2>1, <2>2
<1>4. CASE CacheHit(w) \/ CacheSet(w)
  <2>1. work' = [work EXCEPT ![w] = NextStore(w)] /\ Key(w) \in cache'
    BY <1>0, <1>4 DEF CacheHit, CacheSet, Remembered
  <2>. QED
    BY <1>3, <2>1
<1>5. CASE CacheMiss(w) \/ Create(w) \/ WriteData(w) \/ ForwardMsg(w)
  <2>1. \E x \in {"write", "data", "set"} : work' = [work EXCEPT ![w].pc = x]
    BY <1>0, <1>5 DEF CacheMiss, Create, WriteData, ForwardMsg, Fails
  <2>. QED
    BY <1>2, <2>1
<1>6. ~DownloadItem(w)
  BY DEF DownloadItem, Busy, At
<1>. QED
  BY <1>4, <1>5, <1>6 DEF WorkStep

(* Every step keeps DueInv: a post is queued for all of its stores; who     *)
(* receives it has them before him; and a store is left when its key is in  *)
(* the cache.                                                               *)
LEMMA DueStep == BaseInv /\ RootInv /\ DueInv /\ [Next]_vars => DueInv'
<1> SUFFICES ASSUME BaseInv, RootInv, DueInv, [Next]_vars,
                    NEW j \in Jobs, NEW i \in Items, Due(j, i)', NEW n \in DOMAIN Dst
             PROVE  Owed(j, i, n)'
  BY DEF DueInv
<1>0. /\ setup' = setup /\ NameOf' = NameOf
      /\ faults \in Nat /\ crashes \in Nat /\ work \in [Workers -> WorkSet]
  BY SetupStays DEF BaseInv, TypeOK, WorkSet
<1>1. faults' = faults /\ crashes' = crashes /\ faults = 0
  <2>1. faults' = 0 /\ fed' # {}
    BY DEF Due
  <2>2. ASSUME NEW w \in Workers, WorkStep(w)
        PROVE  UNCHANGED crashes /\ (UNCHANGED faults \/ faults' = faults + 1)
    BY <2>2 DEF WorkStep, DownloadItem, CacheHit, CacheMiss, Create, WriteData, ForwardMsg,
                CacheSet, Fails, Fault
  <2>3. ASSUME NEW k \in Jobs, SubmitJob(k) PROVE UNCHANGED <<faults, crashes>>
    BY <2>3 DEF SubmitJob
  <2>4. ASSUME NEW k \in Jobs, NEW m \in Items, Feed(k, m) PROVE UNCHANGED <<faults, crashes>>
    BY <2>4 DEF Feed
  <2>5. /\ faults' = faults \/ faults' = faults + 1
        /\ crashes' = crashes
    BY <2>1, <2>2, <2>3, <2>4 DEF Next, Expire, Crash, vars
  <2>. QED
    BY <1>0, <2>1, <2>5
<1>2. Kept(Dst[n], NameOf[i]) => Owed(j, i, n)'
  <2>1. ASSUME NEW s, NEW m, s = Dst[n], m = NameOf[i], Kept(s, m) PROVE Owed(j, i, n)'
    <3>1. Kept(s, m)'
      BY <1>1, <2>1, KeptStays
    <3>. QED
      BY <1>0, <2>1, <3>1 DEF Owed, Kept, Setter
  <2>. QED
    BY <2>1
<1>3. ASSUME <<j, i>> \in fed \ failed PROVE Owed(j, i, n)
  BY <1>0, <1>1, <1>3 DEF DueInv, Due
<1>4. ASSUME NEW v \in Workers, Busy(v), Item(v) = i, n \in work[v].stores,
             work'[v].pc # "idle", work'[v].i = work[v].i, work'[v].stores = work[v].stores
      PROVE  Owed(j, i, n)'
  BY <1>4 DEF Owed, Ahead, Busy, Item
<1>5. ASSUME NEW v \in Workers, Busy(v), Item(v) = i, n \in work[v].stores, work'[v] = work[v]
      PROVE  Owed(j, i, n)'
  BY <1>4, <1>5 DEF Busy
<1>6. ASSUME NEW k \in Jobs, SubmitJob(k) PROVE Owed(j, i, n)'
  <2>1. UNCHANGED <<fed, queue, failed>>
    BY <1>6 DEF SubmitJob
  <2>2. Owed(j, i, n)
    BY <1>3, <2>1 DEF Due
  <2>3. ASSUME NEW v \in Workers, Busy(v), Item(v) = i, n \in work[v].stores
        PROVE  Owed(j, i, n)'
    <3>1. work'[v] = IF At(v, "data") /\ St(v) \in Clean
                     THEN [work[v] EXCEPT !.pc = "unlinked"] ELSE work[v]
      BY <1>6 DEF SubmitJob
    <3>2. work[v] \in Working
      BY <2>3, BusyTyped
    <3>3. work'[v].pc # "idle" /\ work'[v].i = work[v].i /\ work'[v].stores = work[v].stores
      BY <2>3, <3>1, <3>2 DEF Working, Busy
    <3>. QED
      BY <1>4, <2>3, <3>3
  <2>4. Waits(j, i, n) => Waits(j, i, n)'
    BY <2>1 DEF Waits
  <2>. QED
    BY <1>2, <2>2, <2>3, <2>4 DEF Owed, Ahead
<1>7. ASSUME NEW k \in Jobs, NEW m \in Items, Feed(k, m) PROVE Owed(j, i, n)'
  <2>1. /\ UNCHANGED <<failed, work>> /\ fed' = fed \cup {<<k, m>>} /\ queue \subseteq queue'
    BY <1>7 DEF Feed
  <2>2. CASE <<j, i>> = <<k, m>>
    <3>1. NameOf[i] # NoName
      BY <1>0 DEF Due
    <3>2. filterStores(i) = DOMAIN Dst
      BY <3>1, NoneFiltered
    <3> DEFINE e == [job |-> j, i |-> i, stores |-> filterStores(i)]
    <3>3. e \in queue'
      BY <1>7, <2>2, <3>2 DEF Feed
    <3>4. e.job = j /\ e.i = i /\ n \in e.stores
      BY <3>2
    <3> HIDE DEF e
    <3>. QED
      BY <3>3, <3>4 DEF Owed, Waits
  <2>3. CASE <<j, i>> # <<k, m>>
    <3>1. Owed(j, i, n)
      BY <1>3, <2>1, <2>3 DEF Due
    <3>2. Waits(j, i, n) => Waits(j, i, n)'
      BY <2>1 DEF Waits
    <3>. QED
      BY <1>2, <1>5, <2>1, <3>1, <3>2 DEF Owed, Ahead
  <2>. QED
    BY <2>2, <2>3
<1>8. ASSUME NEW w \in Workers, WorkStep(w) PROVE Owed(j, i, n)'
  <2>1. UNCHANGED fed /\ failed \subseteq failed'
    BY <1>8 DEF WorkStep, DownloadItem, CacheHit, CacheMiss, Create, WriteData, ForwardMsg,
                CacheSet, Fails
  <2>2. Owed(j, i, n) /\ <<j, i>> \notin failed'
    BY <1>3, <2>1 DEF Due
  <2>3. ASSUME NEW e \in queue, e.job = j, e.i = i, n \in e.stores PROVE Owed(j, i, n)'
    <3>1. CASE e \in queue'
      BY <2>3, <3>1 DEF Owed, Waits
    <3>2. CASE e \notin queue'
      <4>1. DownloadItem(w)
        BY <1>8, <3>2 DEF WorkStep, CacheHit, CacheMiss, Create, WriteData, ForwardMsg, CacheSet
      <4>2. ~Fault
        BY <1>0, <1>1 DEF Fault
      <4>3. work' = [work EXCEPT ![w] = [pc |-> "check", job |-> e.job, i |-> e.i,
                                         stores |-> e.stores]]
        BY <2>2, <2>3, <3>2, <4>1, <4>2 DEF DownloadItem
      <4> DEFINE r == [pc |-> "check", job |-> e.job, i |-> e.i, stores |-> e.stores]
      <4>4. r.pc # "idle" /\ r.i = i /\ n \in r.stores /\ work' = [work EXCEPT ![w] = r]
        BY <2>3, <4>3
      <4> HIDE DEF r
      <4>5. work'[w] = r
        BY <1>0, <4>4
      <4>. QED
        BY <4>4, <4>5 DEF Owed, Ahead, Busy, Item
    <3>. QED
      BY <3>1, <3>2
  <2>4. ASSUME NEW v \in Workers, Busy(v), Item(v) = i, n \in work[v].stores
        PROVE  Owed(j, i, n)'
    <3>1. CASE v # w
      BY <1>5, <1>8, <2>4, <3>1, StepRecord
    <3>2. CASE v = w
      <4>1. \/ Busy(v)' /\ Item(v)' = Item(v) /\ n \in work'[v].stores
            \/ <<Dst[n], NameOf[i]>> \in cache'
        BY <1>1, <1>8, <2>4, <3>2, AheadNext
      <4>. QED
        BY <1>0, <2>4, <4>1 DEF Owed, Ahead, Kept
    <3>. QED
      BY <3>1, <3>2
  <2>. QED
    BY <1>2, <2>2, <2>3, <2>4 DEF Owed, Waits, Ahead
<1>9. CASE Crash
  BY <1>0, <1>1, <1>9 DEF Crash
<1>10. CASE UNCHANGED <<fed, queue, failed, work>>
  <2>1. Owed(j, i, n)
    BY <1>3, <1>10 DEF Due
  <2>2. Waits(j, i, n) => Waits(j, i, n)'
    BY <1>10 DEF Waits
  <2>. QED
    BY <1>2, <1>5, <1>10, <2>1, <2>2 DEF Owed, Ahead
<1>. QED
  BY <1>6, <1>7, <1>8, <1>9, <1>10 DEF Next, Expire, vars, run

(* The safety half of FedGetsStored without faults.  A post that has been   *)
(* fed with a name of its own, of which no error has been logged, and that  *)
(* no queue and no worker has any more, is in every store that is not       *)
(* cleaned, complete: however many workers and jobs met at its stores and   *)
(* keys, or however often one worker was stopped and started again          *)
(* (scrapperV1.go:115-151,174-209).                                         *)
THEOREM DrainedCorrect == Spec => []DrainedIsStored
<1>1. Init => RootInv /\ DueInv
  <2> SUFFICES ASSUME Init PROVE RootInv
    BY DEF Init, DueInv, Due
  <2>. QED
    BY DEF Init, RootInv, Paths
<1>2. StoreInv /\ RootInv /\ DueInv /\ [Next]_vars => (RootInv /\ DueInv)'
  BY RootStep, DueStep DEF StoreInv
<1>3. StoreInv /\ DueInv => DrainedIsStored
  <2> SUFFICES ASSUME StoreInv, DueInv, NEW j \in Jobs, NEW i \in Items, Due(j, i), ~Shared(i),
                      \A e \in queue : ~(e.job = j /\ e.i = i),
                      \A w \in Workers : ~(Busy(w) /\ Item(w) = i),
                      NEW s \in Stores \ Clean, ~CutShort
               PROVE  Has(s, i)
    BY DEF DrainedIsStored
  <2>1. BaseInv /\ FileInv /\ ChatInv
    BY DEF StoreInv
  <2>2. PICK n \in DOMAIN Dst : Dst[n] = s
    BY DEF Stores
  <2>3. Kept(s, NameOf[i])
    BY <2>2 DEF DueInv, Owed, Waits, Ahead
  <2>4. \A k \in Items : NameOf[k] = NameOf[i] => k = i
    BY DEF Shared
  <2>5. ASSUME NEW w \in Workers, Busy(w) PROVE NameOf[Item(w)] # NameOf[i]
    <3>1. Item(w) \in Items
      BY <2>1, <2>5, BusyTyped
    <3>. QED
      BY <2>4, <2>5, <3>1
  <2>6. <<s, NameOf[i]>> \in cache /\ \A w \in Workers : ~Writer(w, s, NameOf[i])
    BY <2>3, <2>5 DEF Kept, Setter, Writer, At, Busy
  <2>7. NameOf[i] \in Names /\ ~CutShort
    BY DEF Names
  <2>8. CASE s \in FileStores
    BY <2>1, <2>3, <2>4, <2>6, <2>7, <2>8 DEF FileInv, Complete, Has
  <2>9. CASE s \notin FileStores
    BY <2>1, <2>4, <2>6, <2>7, <2>9 DEF ChatInv, Has
  <2>. QED
    BY <2>8, <2>9
<1>. QED
  BY <1>1, <1>2, <1>3, StoreInductive, PTL DEF Spec
=============================================================================
