------------------------ MODULE TelegramScrapeProofs ------------------------
(***************************************************************************)
(* For any chat, clock, limit, number of feeders, workers, faults and      *)
(* crashes: a window never holds more than the limit, a key in the cache   *)
(* is that of a message forwarded, a message is forwarded at most once by  *)
(* each worker and run, and once more for each fault, and none is left out *)
(* of a round or dropped after it but for one of its FileName.             *)
(***************************************************************************)
EXTENDS TelegramScrape, FiniteSetTheorems, TLAPS

(* The workers that have forwarded message n and not marked it yet, and    *)
(* those that have found it unmarked and not forwarded it yet.             *)
Marking(n)    == {w \in Workers : work[w].pc = "mark" /\ work[w].n = n}
Forwarding(n) == {w \in Workers : work[w].pc = "forward" /\ work[w].n = n}

W == Cardinality(Workers)

(* The cache has a key of message n's FileName.                            *)
Cached(n) == n \in DOMAIN chat /\ chat[n].name \in cache

(* How often message n has been forwarded, marked or not.                  *)
Paid(n) ==
    IF Cached(n)
    THEN sent[n] + Cardinality(Forwarding(n)) <= W * crashes + W + faults
    ELSE sent[n] <= W * crashes + faults + Cardinality(Marking(n))

(* A worker that has a message has one of the chat; and what it is about to *)
(* mark has been forwarded.                                                 *)
Held == \A w \in Workers : work[w].pc # "idle" => work[w].n \in DOMAIN chat
Sized == Len(chat) <= MaxMsgs
MarkSent == \A w \in Workers : work[w].pc = "mark" => sent[work[w].n] > 0

(* The first key of a FileName is stored for a message forwarded.           *)
KeySent == \A k \in cache : \E n \in DOMAIN chat : chat[n].name = k /\ sent[n] > 0

(* The inductive invariant: types, what workers hold, what keys stand for,  *)
(* and the count of each message.                                           *)
ScrapeInv ==
    TypeOK /\ Sized /\ Held /\ MarkSent /\ KeySent /\ \A n \in Indexes : Paid(n)

-----------------------------------------------------------------------------
(* 1 for true, 0 for false.                                                 *)
Bit(b) == IF b THEN 1 ELSE 0

(* Sets that differ in one element at most.                                *)
LEMMA CardChange ==
    ASSUME NEW D, NEW E, NEW x, IsFiniteSet(D), E \ {x} = D \ {x}
    PROVE  /\ IsFiniteSet(E) /\ Cardinality(D) \in Nat /\ Cardinality(E) \in Nat
           /\ Cardinality(E) = Cardinality(D) - Bit(x \in D) + Bit(x \in E)
<1> DEFINE R == D \ {x}
<1>1. Cardinality(D) \in Nat
  BY FS_CardinalityType
<1>2. IsFiniteSet(R) /\ Cardinality(R) = Cardinality(D) - Bit(x \in D)
  BY <1>1, FS_RemoveElement DEF Bit
<1>3. Cardinality(R) \in Nat /\ x \notin R
  BY <1>2, FS_CardinalityType
<1>4. E = IF x \in E THEN R \cup {x} ELSE R
  OBVIOUS
<1> HIDE DEF R
<1>5. IsFiniteSet(R \cup {x}) /\ Cardinality(R \cup {x}) = Cardinality(R) + 1
  BY <1>2, <1>3, FS_AddElement
<1>6. CASE x \in E
  <2>1. E = R \cup {x}
    BY <1>4, <1>6
  <2>2. IsFiniteSet(E) /\ Cardinality(E) = Cardinality(R) + 1
    BY <1>5, <2>1
  <2>. QED
    BY <1>1, <1>2, <1>3, <1>6, <2>2 DEF Bit
<1>7. CASE x \notin E
  <2>1. E = R
    BY <1>4, <1>7
  <2>2. IsFiniteSet(E) /\ Cardinality(E) = Cardinality(R)
    BY <1>2, <2>1
  <2>. QED
    BY <1>1, <1>2, <1>3, <1>7, <2>2 DEF Bit
<1>. QED
  BY <1>6, <1>7

(* Marking and forwarding workers are workers, and no worker is both.      *)
LEMMA Counts ==
    ASSUME NEW n
    PROVE  /\ IsFiniteSet(Marking(n)) /\ IsFiniteSet(Forwarding(n))
           /\ Cardinality(Marking(n)) \in Nat /\ Cardinality(Forwarding(n)) \in Nat
           /\ Cardinality(Marking(n)) + Cardinality(Forwarding(n)) <= W
           /\ Cardinality(Marking(n)) <= W
           /\ W \in Nat
<1>1. IsFiniteSet(Workers) /\ W \in Nat
  BY WindowAssumption, FS_CardinalityType DEF W
<1> DEFINE M == Marking(n)
           F == Forwarding(n)
<1>2. M \in SUBSET Workers /\ F \in SUBSET Workers /\ M \cap F = {}
  BY DEF Marking, Forwarding
<1> HIDE DEF M, F
<1>3. IsFiniteSet(M) /\ IsFiniteSet(F)
  BY <1>1, <1>2, FS_Subset
<1>4. Cardinality(M) \in Nat /\ Cardinality(F) \in Nat
  BY <1>3, FS_CardinalityType
<1>5. Cardinality(M \cup F) = Cardinality(M) + Cardinality(F) - Cardinality(M \cap F)
  BY <1>3, FS_Union
<1>6. Cardinality(M \cap F) = 0
  BY <1>2, FS_EmptySet
<1>7. M \cup F \in SUBSET Workers
  BY <1>2
<1>8. Cardinality(M \cup F) <= W
  BY <1>1, <1>7, FS_Subset DEF W
<1>. QED
  BY <1>1, <1>3, <1>4, <1>5, <1>6, <1>8 DEF M, F

(* The window: the last Limit messages of the chat (sources/telegram.go:   *)
(* 67-91, telegram.go:192-234).                                            *)
LEMMA WindowSize ==
    ASSUME TypeOK
    PROVE  scrape \subseteq DOMAIN chat /\ Cardinality(scrape) <= Limit
<1>1. Len(chat) \in Nat /\ DOMAIN chat = 1 .. Len(chat) /\ Limit \in Nat \ {0}
  BY WindowAssumption DEF TypeOK
<1>2. /\ Oldest \in Nat /\ Oldest >= 1
      /\ Len(chat) - Oldest + 1 <= Limit
  BY <1>1 DEF Oldest
<1>3. scrape \subseteq Oldest .. Len(chat)
  BY DEF scrape, GetChatHistory
<1> HIDE DEF scrape
<1>4. /\ IsFiniteSet(Oldest .. Len(chat))
      /\ Cardinality(Oldest .. Len(chat)) =
            IF Oldest > Len(chat) THEN 0 ELSE Len(chat) - Oldest + 1
  <2>1. \A a, b \in Int : /\ IsFiniteSet(a .. b)
                          /\ Cardinality(a .. b) = IF a > b THEN 0 ELSE b - a + 1
    BY FS_Interval
  <2>2. Oldest \in Int /\ Len(chat) \in Int
    BY <1>1, <1>2
  <2>. QED
    BY <2>1, <2>2
<1>5. Cardinality(scrape) <= Cardinality(Oldest .. Len(chat)) /\ IsFiniteSet(scrape)
  BY <1>3, <1>4, FS_Subset
<1>6. Cardinality(scrape) \in Nat
  BY <1>5, FS_CardinalityType
<1>. QED
  BY <1>1, <1>2, <1>3, <1>4, <1>5, <1>6

-----------------------------------------------------------------------------
(* Types are preserved by every action; a message a worker has is one of   *)
(* the chat, which only grows.                                             *)
BaseInv == TypeOK /\ Sized /\ Held

(* Before the first run nothing has been sent or marked.                    *)
LEMMA BaseInit == Init => BaseInv
<1> SUFFICES ASSUME Init PROVE BaseInv
  OBVIOUS
<1>1. /\ chat = <<>> /\ DOMAIN chat = {} /\ Len(chat) = 0
      /\ <<>> \in Seq([date : 0 .. MaxClock, message : BOOLEAN, name : Names])
  BY DEF Init
<1>2. \A f \in Feeders : posts[f] = {} /\ Cardinality(posts[f]) <= Limit
  BY FS_EmptySet, WindowAssumption DEF Init
<1>3. TypeOK
  <2>1. posts \in [Feeders -> SUBSET DOMAIN chat]
    BY DEF Init
  <2>2. work \in [Workers -> [pc : {"idle", "forward", "mark"}, n : {0} \cup DOMAIN chat]]
    BY DEF Init, Idle
  <2>3. sent \in [Indexes -> Nat]
    BY DEF Init, Indexes
  <2>4. /\ clock = 0 /\ lastFrom = 0 /\ faults = 0 /\ crashes = 0
        /\ cache = {} /\ running = FALSE
    BY DEF Init
  <2>5. clock \in 0 .. MaxClock /\ lastFrom \in 0 .. clock
    BY <2>4, WindowAssumption
  <2>6. cache \subseteq Names /\ running \in BOOLEAN
    BY <2>4
  <2>7. faults \in Nat /\ crashes \in Nat
    BY <2>4
  <2>. QED
    BY <1>1, <1>2, <2>1, <2>2, <2>3, <2>5, <2>6, <2>7 DEF TypeOK
<1>4. Sized /\ Held
  BY <1>1, WindowAssumption DEF Init, Sized, Held, Idle
<1>. QED
  BY <1>3, <1>4 DEF BaseInv

(* Every action keeps the types (cmd/telegram/scrape.go:29-63,              *)
(* sources/telegram.go:67-91).                                              *)
LEMMA BaseStep == BaseInv /\ [Next]_vars => BaseInv'
<1> SUFFICES ASSUME BaseInv, [Next]_vars PROVE BaseInv'
  OBVIOUS
<1>0. TypeOK /\ Sized /\ Held
  BY DEF BaseInv
<1> USE WindowAssumption
<1>1. CASE Arrive
  <2>1. PICK m \in BOOLEAN, k \in Names :
            chat' = Append(chat, [date |-> clock, message |-> m, name |-> k])
    BY <1>1 DEF Arrive
  <2> DEFINE e == [date |-> clock, message |-> m, name |-> k]
  <2>2. e \in [date : 0 .. MaxClock, message : BOOLEAN, name : Names]
    BY <1>0 DEF TypeOK
  <2> HIDE DEF e
  <2>3. /\ chat' \in Seq([date : 0 .. MaxClock, message : BOOLEAN, name : Names])
        /\ Len(chat') = Len(chat) + 1 /\ Len(chat) \in Nat
        /\ DOMAIN chat' = 1 .. Len(chat) + 1 /\ DOMAIN chat = 1 .. Len(chat)
    BY <1>0, <2>1, <2>2 DEF TypeOK, e
  <2>4. DOMAIN chat \subseteq DOMAIN chat'
    BY <2>3
  <2>5. UNCHANGED <<clock, running, lastFrom, posts, work, cache, sent, faults, crashes>>
    BY <1>1 DEF Arrive
  <2>6. posts' \in [Feeders -> SUBSET DOMAIN chat']
    BY <1>0, <2>4, <2>5 DEF TypeOK
  <2>7. work' \in [Workers -> [pc : {"idle", "forward", "mark"}, n : {0} \cup DOMAIN chat']]
    BY <1>0, <2>4, <2>5 DEF TypeOK
  <2>8. TypeOK'
    BY <1>0, <2>3, <2>4, <2>5, <2>6, <2>7 DEF TypeOK
  <2>9. Sized' /\ Held'
    BY <1>0, <1>1, <2>3, <2>4, <2>5 DEF Sized, Held, Arrive
  <2>. QED
    BY <2>8, <2>9 DEF BaseInv
<1>2. CASE Tick
  BY <1>0, <1>2 DEF Tick, BaseInv, TypeOK, Sized, Held
<1>3. CASE Start
  BY <1>0, <1>3 DEF Start, FromNow, BaseInv, TypeOK, Sized, Held
<1>4. CASE Crash
  <2>1. \A f \in Feeders : posts'[f] = {} /\ Cardinality(posts'[f]) <= Limit
    BY <1>4, FS_EmptySet DEF Crash
  <2>2. TypeOK'
    <3>1. posts' \in [Feeders -> SUBSET DOMAIN chat]
      BY <1>4 DEF Crash
    <3>2. work' \in [Workers -> [pc : {"idle", "forward", "mark"}, n : {0} \cup DOMAIN chat]]
      BY <1>4 DEF Crash, Idle
    <3>3. /\ UNCHANGED <<clock, chat, lastFrom, cache, sent, faults>>
          /\ running' = FALSE /\ crashes' = crashes + 1
      BY <1>4 DEF Crash
    <3>4. crashes' \in Nat /\ running' \in BOOLEAN
      <4>1. crashes \in Nat
        BY <1>0 DEF TypeOK
      <4>2. crashes' \in Nat
        BY <3>3, <4>1
      <4>3. running' \in BOOLEAN
        BY <3>3
      <4>. QED
        BY <4>2, <4>3
    <3>5. clock' \in 0 .. MaxClock /\ lastFrom' \in 0 .. clock' /\ faults' \in Nat
      <4>1. clock \in 0 .. MaxClock /\ lastFrom \in 0 .. clock /\ faults \in Nat
        BY <1>0 DEF TypeOK
      <4>2. clock' = clock /\ lastFrom' = lastFrom /\ faults' = faults
        BY <3>3
      <4>. QED
        BY <4>1, <4>2
    <3>6. chat' \in Seq([date : 0 .. MaxClock, message : BOOLEAN, name : Names])
      BY <1>0, <3>3 DEF TypeOK
    <3>7. cache' \subseteq Names
      BY <1>0, <3>3 DEF TypeOK
    <3>8. sent' \in [Indexes -> Nat] /\ Indexes' = Indexes
      BY <1>0, <3>3 DEF TypeOK, Indexes
    <3>. QED
      BY <2>1, <3>1, <3>2, <3>3, <3>4, <3>5, <3>6, <3>7, <3>8 DEF TypeOK
  <2>. QED
    BY <1>0, <1>4, <2>2 DEF Crash, BaseInv, Sized, Held, Idle
<1>5. ASSUME NEW f \in Feeders, Round(f) PROVE BaseInv'
  <2>1. scrape \subseteq DOMAIN chat /\ Cardinality(scrape) <= Limit
    BY <1>0, WindowSize
  <2>2. UNCHANGED <<clock, chat, running, lastFrom, work, cache, sent, crashes>>
    BY <1>5 DEF Round
  <2>3. faults' \in Nat
    BY <1>0, <1>5 DEF Round, Fault, TypeOK
  <2>4. posts' = posts \/ posts' = [posts EXCEPT ![f] = scrape]
    BY <1>5 DEF Round
  <2> HIDE DEF scrape
  <2>5. /\ posts' \in [Feeders -> SUBSET DOMAIN chat]
        /\ \A g \in Feeders : Cardinality(posts'[g]) <= Limit
    <3>1. CASE posts' = posts
      BY <1>0, <3>1 DEF TypeOK
    <3>2. CASE posts' = [posts EXCEPT ![f] = scrape]
      <4>1. posts' \in [Feeders -> SUBSET DOMAIN chat]
        BY <1>0, <2>1, <3>2 DEF TypeOK
      <4>2. ASSUME NEW g \in Feeders PROVE Cardinality(posts'[g]) <= Limit
        <5>1. posts'[g] = IF g = f THEN scrape ELSE posts[g]
          BY <1>0, <3>2 DEF TypeOK
        <5>. QED
          BY <1>0, <2>1, <5>1 DEF TypeOK
      <4>. QED
        BY <4>1, <4>2
    <3>. QED
      BY <2>4, <3>1, <3>2
  <2>6. TypeOK'
    BY <1>0, <2>2, <2>3, <2>5 DEF TypeOK
  <2>. QED
    BY <1>0, <2>2, <2>6 DEF BaseInv, Sized, Held
<1>6. ASSUME NEW w \in Workers, NEW f \in Feeders, Receive(w, f) PROVE BaseInv'
  <2>1. PICK n \in posts[f] :
            /\ work' = [work EXCEPT ![w] =
                           IF chat[n].name \in cache THEN Idle ELSE [pc |-> "forward", n |-> n]]
            /\ posts' = [posts EXCEPT ![f] = @ \ {n}]
    BY <1>6 DEF Receive
  <2>2. UNCHANGED <<clock, chat, running, lastFrom, cache, sent, faults, crashes>>
    BY <1>6 DEF Receive
  <2>3. posts[f] \subseteq DOMAIN chat /\ n \in DOMAIN chat
    BY <1>0 DEF TypeOK
  <2>4. posts' \in [Feeders -> SUBSET DOMAIN chat]
    BY <1>0, <2>1, <2>3 DEF TypeOK
  <2>5. ASSUME NEW g \in Feeders PROVE Cardinality(posts'[g]) <= Limit
    <3>1. posts'[g] = IF g = f THEN posts[f] \ {n} ELSE posts[g]
      BY <1>0, <2>1 DEF TypeOK
    <3>2. Cardinality(posts[g]) <= Limit /\ posts[f] \in SUBSET DOMAIN chat
      BY <1>0 DEF TypeOK
    <3>3. IsFiniteSet(DOMAIN chat)
      <4>1. DOMAIN chat = 1 .. Len(chat) /\ Len(chat) \in Nat
        BY <1>0 DEF TypeOK
      <4>. QED
        BY <4>1, FS_Interval
    <3>4. IsFiniteSet(posts[f])
      BY <3>2, <3>3, FS_Subset
    <3>5. Cardinality(posts[f]) \in Nat /\ Cardinality(posts[f] \ {n}) \in Nat
      BY <3>4, FS_RemoveElement, FS_CardinalityType
    <3>6. Cardinality(posts[f] \ {n}) = Cardinality(posts[f]) - 1
      BY <3>4, FS_RemoveElement
    <3>7. Limit \in Nat /\ Cardinality(posts[f]) <= Limit
      BY <1>0 DEF TypeOK
    <3>. QED
      BY <3>1, <3>2, <3>5, <3>6, <3>7
  <2>6. work' \in [Workers -> [pc : {"idle", "forward", "mark"}, n : {0} \cup DOMAIN chat]]
    BY <1>0, <2>1, <2>3 DEF TypeOK, Idle
  <2>7. TypeOK'
    BY <1>0, <2>2, <2>4, <2>5, <2>6 DEF TypeOK
  <2>8. Held'
    BY <1>0, <2>1, <2>2, <2>3 DEF TypeOK, Held, Idle
  <2>. QED
    BY <1>0, <2>2, <2>7, <2>8 DEF BaseInv, Sized
<1>7. ASSUME NEW w \in Workers, ForwardMsg(w) PROVE BaseInv'
  <2>1. /\ work[w].pc = "forward" /\ work[w].n \in Indexes
        /\ UNCHANGED <<clock, chat, running, lastFrom, posts, cache, crashes>>
    <3>1. work[w].pc = "forward"
      BY <1>7 DEF ForwardMsg
    <3>2. work[w].n \in DOMAIN chat
      BY <1>0, <3>1 DEF Held
    <3>3. DOMAIN chat = 1 .. Len(chat) /\ Len(chat) \in Nat /\ Len(chat) <= MaxMsgs
      BY <1>0 DEF TypeOK, Sized
    <3>. QED
      BY <1>7, <3>1, <3>2, <3>3 DEF ForwardMsg, Indexes
  <2>2. work' = [work EXCEPT ![w].pc = "mark"] \/ work' = [work EXCEPT ![w] = Idle]
    BY <1>7 DEF ForwardMsg
  <2>3. sent' = sent \/ sent' = [sent EXCEPT ![work[w].n] = @ + 1]
    BY <1>7 DEF ForwardMsg
  <2>4. sent' \in [Indexes -> Nat]
    <3>1. sent \in [Indexes -> Nat] /\ work[w].n \in Indexes
      BY <1>0, <2>1 DEF TypeOK
    <3> DEFINE n == work[w].n
    <3>2. n \in Indexes /\ (sent' = sent \/ sent' = [sent EXCEPT ![n] = @ + 1])
      BY <2>3, <3>1
    <3> HIDE DEF n
    <3>3. sent[n] + 1 \in Nat
      BY <3>1, <3>2
    <3>. QED
      BY <3>1, <3>2, <3>3
  <2>5. faults' \in Nat
    BY <1>0, <1>7 DEF ForwardMsg, Fault, TypeOK
  <2>6. work' \in [Workers -> [pc : {"idle", "forward", "mark"}, n : {0} \cup DOMAIN chat]]
    <3> DEFINE T == [pc : {"idle", "forward", "mark"}, n : {0} \cup DOMAIN chat]
               m == [work[w] EXCEPT !.pc = "mark"]
    <3>1. work \in [Workers -> T] /\ work[w] \in T /\ Idle \in T
      BY <1>0 DEF TypeOK, Idle
    <3>2. m \in T
      BY <3>1
    <3>3. work' = [work EXCEPT ![w] = m] \/ work' = [work EXCEPT ![w] = Idle]
      BY <2>2
    <3> HIDE DEF T, m
    <3>4. work' \in [Workers -> T]
      BY <3>1, <3>2, <3>3
    <3>. QED
      BY <3>4 DEF T
  <2>7. TypeOK'
    BY <1>0, <2>1, <2>4, <2>5, <2>6 DEF TypeOK
  <2>8. Held'
    <3>1. \A v \in Workers : work'[v] = work[v] \/ work'[v] = Idle
                             \/ (v = w /\ work'[v].n = work[w].n)
      BY <1>0, <2>2 DEF TypeOK
    <3>2. work[w].n \in DOMAIN chat /\ chat' = chat
      BY <1>0, <2>1 DEF Held
    <3>3. Idle.pc = "idle"
      BY DEF Idle
    <3>. QED
      BY <1>0, <3>1, <3>2, <3>3 DEF Held
  <2>. QED
    BY <1>0, <2>1, <2>7, <2>8 DEF BaseInv, Sized
<1>8. ASSUME NEW w \in Workers, CacheSet(w) PROVE BaseInv'
  <2>1. /\ work[w].pc = "mark" /\ work[w].n \in DOMAIN chat /\ work' = [work EXCEPT ![w] = Idle]
        /\ UNCHANGED <<clock, chat, running, lastFrom, posts, sent, crashes>>
    BY <1>0, <1>8 DEF CacheSet, TypeOK, Held
  <2>2. cache' \subseteq Names /\ faults' \in Nat
    <3>1. chat[work[w].n].name \in Names
      <4> DEFINE T == [date : 0 .. MaxClock, message : BOOLEAN, name : Names]
      <4>1. \A n \in DOMAIN chat : chat[n] \in T
        <5>1. chat \in Seq(T)
          BY <1>0 DEF TypeOK
        <5> HIDE DEF T
        <5>. QED
          BY <5>1
      <4>2. chat[work[w].n] \in T
        BY <2>1, <4>1
      <4>. QED
        BY <4>2
    <3>. QED
      BY <1>0, <1>8, <2>1, <3>1 DEF CacheSet, Marked, Fault, TypeOK
  <2>3. TypeOK'
    BY <1>0, <2>1, <2>2 DEF TypeOK, Idle
  <2>4. Held'
    BY <1>0, <2>1 DEF TypeOK, Held, Idle
  <2>. QED
    BY <1>0, <2>1, <2>3, <2>4 DEF BaseInv, Sized
<1>9. CASE UNCHANGED vars
  BY <1>0, <1>9 DEF vars, BaseInv, TypeOK, Sized, Held
<1>. QED
  BY <1>1, <1>2, <1>3, <1>4, <1>5, <1>6, <1>7, <1>8, <1>9 DEF Next, Working

-----------------------------------------------------------------------------
(* Steps that forward and mark nothing leave the counts as they are; a     *)
(* message may arrive that the cache has a key of.                         *)
LEMMA PaidSame ==
    ASSUME BaseInv, BaseInv', UNCHANGED <<work, cache, sent, crashes>>, faults' >= faults,
           NEW n \in Indexes, Paid(n), Cached(n) => Cached(n)'
    PROVE  Paid(n)'
<1>1. Marking(n)' = Marking(n) /\ Forwarding(n)' = Forwarding(n)
  BY DEF Marking, Forwarding
<1>2. /\ Cardinality(Marking(n)) \in Nat /\ Cardinality(Forwarding(n)) \in Nat
      /\ Cardinality(Marking(n)) + Cardinality(Forwarding(n)) <= W
      /\ W \in Nat /\ W' = W
  BY Counts DEF W
<1>3. /\ sent[n] \in Nat /\ sent' = sent /\ faults \in Nat /\ faults' \in Nat /\ crashes \in Nat
  BY DEF BaseInv, TypeOK
<1> DEFINE K == W * crashes
<1>4. K \in Nat /\ W' * crashes' = K
  BY <1>2, <1>3
<1> HIDE DEF K
<1>5. CASE Cached(n)
  <2>1. sent[n] + Cardinality(Forwarding(n)) <= K + W + faults
    BY <1>5 DEF Paid, K
  <2>2. sent'[n] + Cardinality(Forwarding(n))' <= K + W' + faults'
    BY <1>1, <1>2, <1>3, <1>4, <2>1
  <2>. QED
    BY <1>4, <1>5, <2>2 DEF Paid
<1>6. CASE ~Cached(n)
  <2>1. sent[n] <= K + faults + Cardinality(Marking(n))
    BY <1>6 DEF Paid, K
  <2>2. /\ sent'[n] <= K + faults' + Cardinality(Marking(n))'
        /\ sent'[n] + Cardinality(Forwarding(n))' <= K + W' + faults'
    BY <1>1, <1>2, <1>3, <1>4, <2>1
  <2>. QED
    BY <1>4, <2>2 DEF Paid
<1>. QED
  BY <1>5, <1>6

(* The counts after a step of worker w that does not end the program.      *)
LEMMA PaidNext ==
    ASSUME BaseInv, BaseInv', NEW w \in Workers, NEW r,
           work' = [work EXCEPT ![w] = r], UNCHANGED crashes, faults' >= faults,
           NEW n \in Indexes, Paid(n),
           Cached(n) => Cached(n)',
           sent'[n] >= sent[n],
           Cached(n) => sent'[n] - sent[n]
                           <= faults' - faults + Bit(work[w].pc = "forward" /\ work[w].n = n)
                              - Bit(r.pc = "forward" /\ r.n = n),
           ~Cached(n) /\ ~Cached(n)' => sent'[n] - sent[n]
                           <= faults' - faults + Bit(r.pc = "mark" /\ r.n = n)
                              - Bit(work[w].pc = "mark" /\ work[w].n = n),
           ~Cached(n) /\ Cached(n)' => /\ sent'[n] = sent[n]
                                       /\ r.pc # "forward" /\ work[w].pc # "forward"
    PROVE  Paid(n)'
<1>0. /\ Cardinality(Marking(n))' = Cardinality(Marking(n))
                 - Bit(work[w].pc = "mark" /\ work[w].n = n) + Bit(r.pc = "mark" /\ r.n = n)
      /\ Cardinality(Forwarding(n))' = Cardinality(Forwarding(n))
                 - Bit(work[w].pc = "forward" /\ work[w].n = n)
                 + Bit(r.pc = "forward" /\ r.n = n)
  <2>1. /\ work'[w] = r /\ \A v \in Workers : v # w => work'[v] = work[v]
    BY DEF BaseInv, TypeOK
  <2>2. IsFiniteSet(Marking(n)) /\ IsFiniteSet(Forwarding(n))
    BY Counts
  <2> DEFINE A  == Marking(n)
             B  == Forwarding(n)
             AA == {v \in Workers : work'[v].pc = "mark" /\ work'[v].n = n}
             BB == {v \in Workers : work'[v].pc = "forward" /\ work'[v].n = n}
  <2>3. Marking(n)' = AA /\ Forwarding(n)' = BB
    BY DEF Marking, Forwarding
  <2>4. /\ AA \ {w} = A \ {w} /\ BB \ {w} = B \ {w}
        /\ w \in A <=> work[w].pc = "mark" /\ work[w].n = n
        /\ w \in B <=> work[w].pc = "forward" /\ work[w].n = n
        /\ w \in AA <=> r.pc = "mark" /\ r.n = n
        /\ w \in BB <=> r.pc = "forward" /\ r.n = n
    BY <2>1 DEF Marking, Forwarding
  <2> HIDE DEF A, B, AA, BB
  <2>5. Cardinality(AA) = Cardinality(A) - Bit(w \in A) + Bit(w \in AA)
    BY <2>2, <2>4, CardChange DEF A
  <2>6. Cardinality(BB) = Cardinality(B) - Bit(w \in B) + Bit(w \in BB)
    BY <2>2, <2>4, CardChange DEF B
  <2>. QED
    BY <2>3, <2>4, <2>5, <2>6 DEF Bit, A, B
<1> DEFINE M  == Cardinality(Marking(n))
           F  == Cardinality(Forwarding(n))
           M2 == Cardinality(Marking(n))'
           F2 == Cardinality(Forwarding(n))'
           a  == Bit(work[w].pc = "mark" /\ work[w].n = n)
           b  == Bit(r.pc = "mark" /\ r.n = n)
           c  == Bit(work[w].pc = "forward" /\ work[w].n = n)
           d  == Bit(r.pc = "forward" /\ r.n = n)
           K  == W * crashes
<1>1. M2 = M - a + b /\ F2 = F - c + d
  BY <1>0
<1>2. M \in Nat /\ F \in Nat /\ M + F <= W /\ W \in Nat /\ W' = W
  BY Counts DEF W
<1>3. /\ sent[n] \in Nat /\ sent'[n] \in Nat
      /\ faults \in Nat /\ faults' \in Nat /\ crashes \in Nat
  BY DEF BaseInv, TypeOK
<1>4. K \in Nat /\ W' * crashes' = K
  BY <1>2, <1>3
<1>5. a \in {0, 1} /\ b \in {0, 1} /\ c \in {0, 1} /\ d \in {0, 1}
  BY DEF Bit
<1>6. /\ Cached(n) => sent'[n] - sent[n] <= faults' - faults + c - d
      /\ ~Cached(n) /\ ~Cached(n)' => sent'[n] - sent[n] <= faults' - faults + b - a
      /\ ~Cached(n) /\ Cached(n)' => sent'[n] = sent[n] /\ c = 0 /\ d = 0
  BY DEF Bit
<1>7. IF Cached(n) THEN sent[n] + F <= K + W + faults
      ELSE sent[n] <= K + faults + M
  BY DEF Paid
<1> HIDE DEF M, F, M2, F2, a, b, c, d, K
<1>8. CASE Cached(n)
  <2>1. sent'[n] + F2 <= K + W + faults'
    BY <1>1, <1>2, <1>3, <1>4, <1>5, <1>6, <1>7, <1>8
  <2>. QED
    BY <1>2, <1>4, <1>8, <2>1 DEF Paid, F2
<1>9. CASE ~Cached(n) /\ ~Cached(n)'
  <2>1. sent'[n] <= K + faults' + M2
    BY <1>1, <1>2, <1>3, <1>4, <1>5, <1>6, <1>7, <1>9
  <2>. QED
    BY <1>2, <1>4, <1>9, <2>1 DEF Paid, M2
<1>10. CASE ~Cached(n) /\ Cached(n)'
  <2>1. sent'[n] + F2 <= K + W + faults'
    BY <1>1, <1>2, <1>3, <1>4, <1>5, <1>6, <1>7, <1>10
  <2>. QED
    BY <1>2, <1>4, <1>10, <2>1 DEF Paid, F2
<1>. QED
  BY <1>8, <1>9, <1>10

(* A worker that looks for the mark of a message (scrapperV1.go:133-141).  *)
LEMMA PaidReceive ==
    ASSUME BaseInv, BaseInv', NEW w \in Workers, NEW f \in Feeders, Receive(w, f),
           NEW n \in Indexes, Paid(n)
    PROVE  Paid(n)'
<1>1. PICK m \in posts[f] :
          work' = [work EXCEPT ![w] = IF chat[m].name \in cache THEN Idle
                                                            ELSE [pc |-> "forward", n |-> m]]
  BY DEF Receive
<1> DEFINE r == IF chat[m].name \in cache THEN Idle ELSE [pc |-> "forward", n |-> m]
<1>2. /\ work[w].pc = "idle" /\ UNCHANGED <<chat, cache, sent, faults, crashes>>
      /\ Cached(n)' = Cached(n)
  BY DEF Receive, Idle, Cached
<1>3. /\ r.pc # "mark"
      /\ r.pc = "forward" /\ r.n = n => ~Cached(n)
  BY DEF Idle, Cached
<1>4. sent[n] \in Nat /\ faults \in Nat
  BY DEF BaseInv, TypeOK
<1>5. work' = [work EXCEPT ![w] = r]
  BY <1>1
<1> HIDE DEF r
<1>6. Cached(n) => sent'[n] - sent[n]
                       <= faults' - faults + Bit(work[w].pc = "forward" /\ work[w].n = n)
                          - Bit(r.pc = "forward" /\ r.n = n)
  BY <1>2, <1>3, <1>4 DEF Bit
<1>7. ~Cached(n) /\ ~Cached(n)' => sent'[n] - sent[n]
                       <= faults' - faults + Bit(r.pc = "mark" /\ r.n = n)
                          - Bit(work[w].pc = "mark" /\ work[w].n = n)
  BY <1>2, <1>3, <1>4 DEF Bit
<1>8. sent'[n] >= sent[n] /\ faults' >= faults
  BY <1>2, <1>4
<1>. QED
  BY <1>2, <1>5, <1>6, <1>7, <1>8, PaidNext

(* A message forwarded, or an answer lost (telegram.go:273-298).           *)
LEMMA PaidForward ==
    ASSUME BaseInv, BaseInv', NEW w \in Workers, ForwardMsg(w), NEW n \in Indexes, Paid(n)
    PROVE  Paid(n)'
<1>1. /\ work[w].pc = "forward" /\ work[w].n \in DOMAIN chat
      /\ UNCHANGED <<chat, cache, crashes>> /\ Cached(n)' = Cached(n)
  BY DEF ForwardMsg, BaseInv, Held, Cached
<1> DEFINE m == work[w].n
           more == IF m = n THEN 1 ELSE 0
<1>2. sent[n] \in Nat /\ faults \in Nat /\ sent \in [Indexes -> Nat]
      /\ work[w] \in [pc : {"idle", "forward", "mark"}, n : {0} \cup DOMAIN chat]
  BY DEF BaseInv, TypeOK
<1>3. sent' = [sent EXCEPT ![m] = @ + 1] => sent'[n] = sent[n] + more
  BY <1>2
<1>4. CASE /\ sent' = [sent EXCEPT ![m] = @ + 1]
           /\ work' = [work EXCEPT ![w].pc = "mark"]
           /\ UNCHANGED faults
  <2> DEFINE r == [work[w] EXCEPT !.pc = "mark"]
  <2>1. work' = [work EXCEPT ![w] = r] /\ r.pc = "mark" /\ r.n = m
    BY <1>2, <1>4
  <2> HIDE DEF r
  <2>2. sent'[n] = sent[n] + more
    BY <1>3, <1>4
  <2>3. Cached(n) => sent'[n] - sent[n]
                       <= faults' - faults + Bit(work[w].pc = "forward" /\ work[w].n = n)
                          - Bit(r.pc = "forward" /\ r.n = n)
    BY <1>1, <1>2, <1>4, <2>1, <2>2 DEF Bit
  <2>4. ~Cached(n) /\ ~Cached(n)' => sent'[n] - sent[n]
                       <= faults' - faults + Bit(r.pc = "mark" /\ r.n = n)
                          - Bit(work[w].pc = "mark" /\ work[w].n = n)
    BY <1>1, <1>2, <1>4, <2>1, <2>2 DEF Bit
  <2>5. sent'[n] >= sent[n] /\ faults' >= faults
    BY <1>2, <1>4, <2>2
  <2>. QED
    BY <1>1, <2>1, <2>3, <2>4, <2>5, PaidNext
<1>5. CASE /\ Fault /\ work' = [work EXCEPT ![w] = Idle]
           /\ sent' \in {sent, [sent EXCEPT ![m] = @ + 1]}
  <2>1. Idle.pc = "idle" /\ faults' = faults + 1
    BY <1>5 DEF Idle, Fault
  <2>2. sent'[n] = sent[n] \/ sent'[n] = sent[n] + more
    BY <1>3, <1>5
  <2>3. Cached(n) => sent'[n] - sent[n]
                       <= faults' - faults + Bit(work[w].pc = "forward" /\ work[w].n = n)
                          - Bit(Idle.pc = "forward" /\ Idle.n = n)
    BY <1>1, <1>2, <2>1, <2>2 DEF Bit
  <2>4. ~Cached(n) /\ ~Cached(n)' => sent'[n] - sent[n]
                       <= faults' - faults + Bit(Idle.pc = "mark" /\ Idle.n = n)
                          - Bit(work[w].pc = "mark" /\ work[w].n = n)
    BY <1>1, <1>2, <2>1, <2>2 DEF Bit
  <2>5. sent'[n] >= sent[n] /\ faults' >= faults
    BY <1>2, <2>1, <2>2
  <2>. QED
    BY <1>1, <1>5, <2>3, <2>4, <2>5, PaidNext
<1>. QED
  BY <1>4, <1>5 DEF ForwardMsg

(* A message marked, or a mark that fails (scrapperV1.go:145-148).         *)
LEMMA PaidMark ==
    ASSUME BaseInv, BaseInv', NEW w \in Workers, CacheSet(w),
           NEW n \in Indexes, Paid(n)
    PROVE  Paid(n)'
<1>1. /\ work[w].pc = "mark" /\ work[w].n \in DOMAIN chat /\ work' = [work EXCEPT ![w] = Idle]
      /\ UNCHANGED <<chat, sent, crashes>> /\ Idle.pc = "idle"
  BY DEF CacheSet, BaseInv, Held, Idle
<1>2. sent[n] \in Nat /\ faults \in Nat
  BY DEF BaseInv, TypeOK
<1>3. \/ cache' = cache \cup {chat[work[w].n].name} /\ faults' = faults
      \/ cache' = cache /\ faults' = faults + 1
  BY DEF CacheSet, Marked, Fault
<1>4. Cached(n) => sent'[n] - sent[n]
                     <= faults' - faults + Bit(work[w].pc = "forward" /\ work[w].n = n)
                        - Bit(Idle.pc = "forward" /\ Idle.n = n)
  BY <1>1, <1>2, <1>3 DEF Bit
<1>5. ~Cached(n) /\ ~Cached(n)' => sent'[n] - sent[n]
                     <= faults' - faults + Bit(Idle.pc = "mark" /\ Idle.n = n)
                        - Bit(work[w].pc = "mark" /\ work[w].n = n)
  BY <1>1, <1>2, <1>3 DEF Bit, Cached
<1>6. Cached(n) => Cached(n)'
  BY <1>1, <1>3 DEF Cached
<1>7. sent'[n] >= sent[n] /\ faults' >= faults
  BY <1>1, <1>2, <1>3
<1>. QED
  BY <1>1, <1>3, <1>4, <1>5, <1>6, <1>7, PaidNext

(* The end of the program, and of all that its workers were doing.         *)
LEMMA PaidCrash ==
    ASSUME BaseInv, BaseInv', Crash, NEW n \in Indexes, Paid(n)
    PROVE  Paid(n)'
<1>1. /\ UNCHANGED <<chat, cache, sent, faults>> /\ crashes' = crashes + 1
      /\ \A w \in Workers : work'[w] = Idle
      /\ Cached(n)' = Cached(n)
  BY DEF Crash, Cached
<1>2. Marking(n)' = {} /\ Forwarding(n)' = {}
  BY <1>1 DEF Marking, Forwarding, Idle
<1>3. Cardinality(Marking(n))' = 0 /\ Cardinality(Forwarding(n))' = 0
  BY <1>2, FS_EmptySet
<1> DEFINE M == Cardinality(Marking(n))
           F == Cardinality(Forwarding(n))
           K == W * crashes
<1>4. M \in Nat /\ F \in Nat /\ M <= W /\ W \in Nat /\ W' = W
  BY Counts DEF W
<1>5. sent[n] \in Nat /\ faults \in Nat /\ crashes \in Nat
  BY DEF BaseInv, TypeOK
<1>6. K \in Nat /\ W' * crashes' = K + W
  BY <1>1, <1>4, <1>5
<1>7. IF Cached(n) THEN sent[n] + F <= K + W + faults
      ELSE sent[n] <= K + faults + M
  BY DEF Paid
<1> HIDE DEF M, F, K
<1>8. IF Cached(n) THEN sent[n] + 0 <= K + W + W + faults
      ELSE sent[n] <= K + W + faults + 0
  BY <1>4, <1>5, <1>6, <1>7
<1>. QED
  BY <1>1, <1>3, <1>4, <1>6, <1>8 DEF Paid

(* What a worker is about to mark has been forwarded.                      *)
LEMMA MarkSentStep == BaseInv /\ MarkSent /\ [Next]_vars => MarkSent'
<1> SUFFICES ASSUME BaseInv, MarkSent, [Next]_vars, NEW v \in Workers, work'[v].pc = "mark"
             PROVE  sent'[work'[v].n] > 0
  BY DEF MarkSent
<1>0. TypeOK /\ Sized /\ Held
  BY DEF BaseInv
<1>1. CASE work'[v] = work[v] /\ sent' = sent
  BY <1>1 DEF MarkSent
<1>2. CASE Arrive \/ Tick \/ Start \/ UNCHANGED vars
  BY <1>1, <1>2 DEF Arrive, Tick, Start, vars
<1>3. CASE Crash
  BY <1>3 DEF Crash, Idle
<1>4. ASSUME NEW f \in Feeders, Round(f) PROVE sent'[work'[v].n] > 0
  BY <1>1, <1>4 DEF Round
<1>5. ASSUME NEW w \in Workers, NEW f \in Feeders, Receive(w, f) PROVE sent'[work'[v].n] > 0
  BY <1>0, <1>1, <1>5 DEF Receive, Idle, TypeOK
<1>6. ASSUME NEW w \in Workers, ForwardMsg(w) PROVE sent'[work'[v].n] > 0
  <2>1. work[w].n \in DOMAIN chat /\ sent \in [Indexes -> Nat] /\ work[w].pc = "forward"
    BY <1>0, <1>6 DEF ForwardMsg, TypeOK, Held
  <2>2. DOMAIN chat = 1 .. Len(chat) /\ Len(chat) \in Nat /\ Len(chat) <= MaxMsgs
    BY <1>0 DEF TypeOK, Sized
  <2>3. work[w].n \in Indexes
    BY <2>1, <2>2, WindowAssumption DEF Indexes
  <2>4. sent' = sent \/ sent' = [sent EXCEPT ![work[w].n] = @ + 1]
    BY <1>6 DEF ForwardMsg
  <2>5. CASE v = w
    <3>1. sent' = [sent EXCEPT ![work[w].n] = @ + 1] /\ work' = [work EXCEPT ![w].pc = "mark"]
      BY <1>0, <1>6, <2>5 DEF ForwardMsg, TypeOK, Idle
    <3>2. work'[w].n = work[w].n
      BY <1>0, <3>1 DEF TypeOK
    <3>. QED
      BY <2>1, <2>3, <2>5, <3>1, <3>2
  <2>6. CASE v # w
    <3>1. work'[v] = work[v]
      BY <1>0, <1>6, <2>6 DEF ForwardMsg, TypeOK
    <3>2. work[v].n \in DOMAIN chat /\ sent[work[v].n] > 0
      BY <1>0, <3>1 DEF MarkSent, Held
    <3>3. work[v].n \in Indexes
      BY <2>2, <3>2, WindowAssumption DEF Indexes
    <3>. QED
      BY <2>1, <2>4, <3>1, <3>2, <3>3
  <2>. QED
    BY <2>5, <2>6
<1>7. ASSUME NEW w \in Workers, CacheSet(w) PROVE sent'[work'[v].n] > 0
  BY <1>0, <1>1, <1>7 DEF CacheSet, Idle, TypeOK
<1>. QED
  BY <1>2, <1>3, <1>4, <1>5, <1>6, <1>7 DEF Next, Working

(* A message, once forwarded, stays forwarded, and keeps its FileName.      *)
LEMMA SentStays ==
    ASSUME BaseInv, [Next]_vars, NEW n \in DOMAIN chat, sent[n] > 0
    PROVE  n \in DOMAIN chat' /\ chat'[n] = chat[n] /\ sent'[n] > 0
<1>0. /\ TypeOK /\ Held /\ sent \in [Indexes -> Nat]
      /\ DOMAIN chat = 1 .. Len(chat) /\ Len(chat) \in Nat /\ Len(chat) <= MaxMsgs
  BY DEF BaseInv, TypeOK, Sized
<1>1. n \in Indexes
  BY <1>0, WindowAssumption DEF Indexes
<1>2. CASE Arrive
  <2>1. PICK m \in BOOLEAN, k \in Names :
            chat' = Append(chat, [date |-> clock, message |-> m, name |-> k])
    BY <1>2 DEF Arrive
  <2>2. n \in DOMAIN chat' /\ chat'[n] = chat[n]
    BY <1>0, <2>1 DEF TypeOK
  <2>. QED
    BY <1>2, <2>2 DEF Arrive
<1>3. ASSUME NEW w \in Workers, ForwardMsg(w) PROVE chat' = chat /\ sent'[n] > 0
  <2>1. chat' = chat /\ work[w].n \in DOMAIN chat
    BY <1>0, <1>3 DEF ForwardMsg, Held
  <2> DEFINE m == work[w].n
  <2>2. sent' = sent \/ sent' = [sent EXCEPT ![m] = @ + 1]
    BY <1>3 DEF ForwardMsg
  <2> HIDE DEF m
  <2>3. sent'[n] = sent[n] \/ sent'[n] = sent[n] + 1
    BY <1>0, <1>1, <2>2
  <2>. QED
    BY <1>0, <1>1, <2>1, <2>3
<1>. QED
  BY <1>2, <1>3 DEF Next, Working, Tick, Start, Crash, Round, Receive, CacheSet, vars

(* A key is stored for the message a worker has forwarded.                  *)
LEMMA KeySentStep == BaseInv /\ MarkSent /\ KeySent /\ [Next]_vars => KeySent'
<1> SUFFICES ASSUME BaseInv, MarkSent, KeySent, [Next]_vars, NEW k \in cache'
             PROVE  \E n \in DOMAIN chat' : chat'[n].name = k /\ sent'[n] > 0
  BY DEF KeySent
<1>1. PICK n \in DOMAIN chat : chat[n].name = k /\ sent[n] > 0
  <2>1. CASE k \in cache
    BY <2>1 DEF KeySent
  <2>2. ASSUME NEW w \in Workers, CacheSet(w), k \notin cache
        PROVE  \E n \in DOMAIN chat : chat[n].name = k /\ sent[n] > 0
    <3>1. work[w].pc = "mark" /\ k = chat[work[w].n].name
      BY <2>2 DEF CacheSet, Marked
    <3>2. work[w].n \in DOMAIN chat /\ sent[work[w].n] > 0
      BY <3>1 DEF BaseInv, Held, MarkSent
    <3>. QED
      BY <3>1, <3>2
  <2>3. k \notin cache => \E w \in Workers : CacheSet(w)
    BY DEF Next, Working, Arrive, Tick, Start, Crash, Round, Receive, ForwardMsg, vars
  <2>. QED
    BY <2>1, <2>2, <2>3
<1>. QED
  BY <1>1, SentStays

-----------------------------------------------------------------------------
(* The invariant holds throughout.                                          *)
THEOREM ScrapeInductive == Spec => []ScrapeInv
<1>1. Init => ScrapeInv
  <2> SUFFICES ASSUME Init PROVE ScrapeInv
    OBVIOUS
  <2>1. BaseInv
    BY BaseInit
  <2>2. MarkSent /\ KeySent
    BY DEF Init, MarkSent, KeySent, Idle
  <2>3. ASSUME NEW n \in Indexes PROVE Paid(n)
    <3>1. ~Cached(n) /\ sent[n] = 0 /\ faults = 0 /\ crashes = 0
      BY <2>3 DEF Init, Indexes, Cached
    <3>2. W \in Nat /\ Cardinality(Marking(n)) \in Nat
      BY Counts
    <3>3. W * crashes = 0
      BY <3>1, <3>2
    <3>4. sent[n] <= W * crashes + faults + Cardinality(Marking(n))
      BY <3>1, <3>2, <3>3
    <3>. QED
      BY <3>1, <3>4 DEF Paid
  <2>. QED
    BY <2>1, <2>2, <2>3 DEF ScrapeInv, BaseInv
<1>2. ScrapeInv /\ [Next]_vars => ScrapeInv'
  <2> SUFFICES ASSUME ScrapeInv, [Next]_vars PROVE ScrapeInv'
    OBVIOUS
  <2>1. BaseInv /\ BaseInv' /\ MarkSent /\ MarkSent' /\ KeySent'
    BY BaseStep, MarkSentStep, KeySentStep DEF ScrapeInv, BaseInv
  <2>2. ASSUME NEW n \in Indexes PROVE Paid(n)'
    <3>0. Paid(n) /\ faults \in Nat
      BY DEF ScrapeInv, TypeOK
    <3>1. CASE Arrive \/ Tick \/ Start \/ UNCHANGED vars
      <4>1. UNCHANGED <<work, cache, sent, crashes>> /\ faults' >= faults
        BY <3>0, <3>1 DEF Arrive, Tick, Start, vars
      <4>2. CASE Arrive
        <5>1. PICK m \in BOOLEAN, k \in Names :
                  chat' = Append(chat, [date |-> clock, message |-> m, name |-> k])
          BY <4>2 DEF Arrive
        <5>2. n \in DOMAIN chat => n \in DOMAIN chat' /\ chat'[n] = chat[n]
          BY <2>1, <5>1 DEF BaseInv, TypeOK
        <5>. QED
          BY <2>1, <3>0, <4>1, <5>2, PaidSame DEF Cached
      <4>3. CASE UNCHANGED chat
        BY <2>1, <3>0, <4>1, <4>3, PaidSame DEF Cached
      <4>. QED
        BY <3>1, <4>2, <4>3 DEF Tick, Start, vars
    <3>2. CASE Crash
      BY <2>1, <3>0, <3>2, PaidCrash
    <3>3. ASSUME NEW f \in Feeders, Round(f) PROVE Paid(n)'
      <4>1. UNCHANGED <<chat, work, cache, sent, crashes>> /\ faults' >= faults
        BY <3>0, <3>3 DEF Round, Fault
      <4>. QED
        BY <2>1, <3>0, <4>1, PaidSame DEF Cached
    <3>4. ASSUME NEW w \in Workers, NEW f \in Feeders, Receive(w, f) PROVE Paid(n)'
      BY <2>1, <3>0, <3>4, PaidReceive
    <3>5. ASSUME NEW w \in Workers, ForwardMsg(w) PROVE Paid(n)'
      BY <2>1, <3>0, <3>5, PaidForward
    <3>6. ASSUME NEW w \in Workers, CacheSet(w) PROVE Paid(n)'
      BY <2>1, <3>0, <3>6, PaidMark
    <3>. QED
      BY <3>1, <3>2, <3>3, <3>4, <3>5, <3>6 DEF Next, Working
  <2>3. Indexes' = Indexes
    BY DEF Indexes
  <2>. QED
    BY <2>1, <2>2, <2>3 DEF ScrapeInv, BaseInv
<1>. QED
  BY <1>1, <1>2, PTL DEF Spec

(* Types: the window of a round is part of the chat and no longer than the *)
(* limit (sources/telegram.go:67-91).                                      *)
THEOREM TypeCorrect == Spec => []TypeOK
<1>1. ScrapeInv => TypeOK
  BY DEF ScrapeInv
<1>. QED
  BY <1>1, ScrapeInductive, PTL

(* SentOnce: a message is forwarded at most once by each worker in a run,  *)
(* and once for each fault; a key in the cache is that of a message which  *)
(* has been forwarded (scrapperV1.go:134-149).                             *)
THEOREM SentCorrect == Spec => []SentOnce
<1>1. ScrapeInv => SentOnce
  <2> SUFFICES ASSUME ScrapeInv PROVE SentOnce
    OBVIOUS
  <2>1. ASSUME NEW n \in Indexes PROVE sent[n] <= W * (1 + crashes) + faults
    <3> DEFINE K == W * crashes
    <3>1. /\ sent[n] \in Nat /\ faults \in Nat /\ crashes \in Nat /\ W \in Nat
          /\ Cardinality(Marking(n)) \in Nat /\ Cardinality(Forwarding(n)) \in Nat
          /\ Cardinality(Marking(n)) <= W
      BY Counts DEF ScrapeInv, TypeOK
    <3>2. K \in Nat /\ W * (1 + crashes) = K + W
      BY <3>1
    <3>3. IF Cached(n) THEN sent[n] + Cardinality(Forwarding(n)) <= K + W + faults
          ELSE sent[n] <= K + faults + Cardinality(Marking(n))
      BY DEF ScrapeInv, Paid
    <3> HIDE DEF K
    <3>. QED
      BY <3>1, <3>2, <3>3
  <2>. QED
    BY <2>1 DEF SentOnce, W, ScrapeInv, KeySent
<1>. QED
  BY <1>1, ScrapeInductive, PTL

-----------------------------------------------------------------------------
(* A feeder or a worker has message n.                                     *)
Taken(n) ==
    \/ \E f \in Feeders : n \in posts[f]
    \/ \E w \in Workers : work[w].pc # "idle" /\ work[w].n = n

(* A round that gets its posts takes all of the window, and what has been  *)
(* taken stays with a feeder or a worker until it is forwarded, unless a   *)
(* request fails, the program ends, or another message of its FileName has *)
(* been forwarded: then it is dropped, and never forwarded.                *)
RoundTakesWindow ==
    \A f \in Feeders : Round(f) /\ faults' = faults =>
        \A n \in Indexes : InWindow(n) /\ ~Missed(n) => n \in posts'[f]
KeptTillSent ==
    \A n \in Indexes : Taken(n) =>
        \/ Taken(n)' \/ sent'[n] > 0 \/ Doubled(n)'
        \/ faults' > faults \/ crashes' > crashes
NothingMissed == [][RoundTakesWindow /\ KeptTillSent]_vars

(* The limit counts back from the last message of the chat                 *)
(* (telegram.go:192-234, sources/telegram.go:67-91).                       *)
LEMMA WindowTaken == TypeOK => RoundTakesWindow
<1> SUFFICES ASSUME TypeOK, NEW f \in Feeders, Round(f), faults' = faults,
                    NEW n \in Indexes, InWindow(n), ~Missed(n)
             PROVE  n \in posts'[f]
  BY DEF RoundTakesWindow
<1>1. /\ Len(chat) \in Nat /\ DOMAIN chat = 1 .. Len(chat) /\ faults \in Nat
      /\ posts \in [Feeders -> SUBSET DOMAIN chat]
  BY DEF TypeOK
<1>2. n \in 1 .. Len(chat) /\ chat[n].message /\ chat[n].date > lastFrom
  BY <1>1 DEF InWindow
<1>3. Len(chat) < n + Limit
  BY <1>1, <1>2, WindowAssumption DEF Missed
<1>4. n \in Oldest .. Len(chat)
  BY <1>1, <1>2, <1>3, WindowAssumption DEF Oldest
<1>5. n \in scrape
  BY <1>2, <1>4 DEF scrape, GetChatHistory, From
<1>6. posts' = [posts EXCEPT ![f] = scrape]
  BY <1>1 DEF Round, Fault
<1>. QED
  BY <1>1, <1>5, <1>6

(* A message leaves a feeder for a worker or because the cache has its      *)
(* FileName, and a worker when its key is stored (scrapperV1.go:131-150).   *)
LEMMA TakenKept == ScrapeInv /\ [Next]_vars => KeptTillSent
<1> SUFFICES ASSUME ScrapeInv, [Next]_vars, NEW n \in Indexes, Taken(n)
             PROVE  \/ Taken(n)' \/ sent'[n] > 0 \/ Doubled(n)'
                    \/ faults' > faults \/ crashes' > crashes
  BY DEF KeptTillSent
<1> DEFINE Good == \/ Taken(n)' \/ sent'[n] > 0 \/ Doubled(n)'
                   \/ faults' > faults \/ crashes' > crashes
<1>0. /\ TypeOK /\ MarkSent /\ faults \in Nat /\ crashes \in Nat
      /\ posts \in [Feeders -> SUBSET DOMAIN chat]
      /\ work \in [Workers -> [pc : {"idle", "forward", "mark"}, n : {0} \cup DOMAIN chat]]
      /\ KeySent
      /\ Fault => faults' > faults
  BY DEF ScrapeInv, TypeOK, Fault
<1>1. CASE UNCHANGED <<posts, work>>
  BY <1>1 DEF Taken
<1>2. CASE Crash
  BY <1>0, <1>2 DEF Crash
<1>3. ASSUME NEW f \in Feeders, Round(f) PROVE Good
  <2>1. UNCHANGED work /\ posts[f] = {} /\ \A g \in Feeders \ {f} : posts'[g] = posts[g]
    BY <1>0, <1>3 DEF Round
  <2>. QED
    BY <2>1 DEF Taken
<1>4. ASSUME NEW w \in Workers, NEW f \in Feeders, Receive(w, f) PROVE Good
  <2>1. PICK m \in posts[f] :
          /\ work' = [work EXCEPT ![w] = IF chat[m].name \in cache THEN Idle
                                         ELSE [pc |-> "forward", n |-> m]]
          /\ posts' = [posts EXCEPT ![f] = @ \ {m}]
    BY <1>4 DEF Receive
  <2>2. work[w].pc = "idle" /\ UNCHANGED <<chat, sent>> /\ m \in DOMAIN chat
    BY <1>0, <1>4 DEF Receive, Idle
  <2> DEFINE r == IF chat[m].name \in cache THEN Idle ELSE [pc |-> "forward", n |-> m]
  <2>3. chat[m].name \notin cache => r.pc # "idle" /\ r.n = m
    OBVIOUS
  <2>7. chat[m].name \in cache => sent'[m] > 0 \/ Doubled(m)'
    BY <1>0, <2>2 DEF KeySent, Doubled
  <2> HIDE DEF r
  <2>4. /\ work'[w] = r /\ \A v \in Workers \ {w} : work'[v] = work[v]
        /\ posts'[f] = posts[f] \ {m} /\ \A g \in Feeders \ {f} : posts'[g] = posts[g]
    BY <1>0, <2>1 DEF r
  <2>5. CASE \E v \in Workers : work[v].pc # "idle" /\ work[v].n = n
    BY <2>2, <2>4, <2>5 DEF Taken
  <2>6. CASE \E g \in Feeders : n \in posts[g]
    BY <1>0, <2>2, <2>3, <2>4, <2>6, <2>7 DEF Taken
  <2>. QED
    BY <2>5, <2>6 DEF Taken
<1>5. ASSUME NEW w \in Workers, ForwardMsg(w) PROVE Good
  <2>1. UNCHANGED posts /\ work[w].pc = "forward"
    BY <1>5 DEF ForwardMsg
  <2>2. CASE work' = [work EXCEPT ![w].pc = "mark"]
    <3>1. /\ work'[w].pc = "mark" /\ work'[w].n = work[w].n
          /\ \A v \in Workers \ {w} : work'[v] = work[v]
      BY <1>0, <2>2
    <3>. QED
      BY <2>1, <3>1 DEF Taken
  <2>3. CASE Fault
    BY <1>0, <2>3
  <2>. QED
    BY <1>5, <2>2, <2>3 DEF ForwardMsg
<1>6. ASSUME NEW w \in Workers, CacheSet(w) PROVE Good
  <2>1. /\ UNCHANGED <<posts, sent>> /\ work[w].pc = "mark"
        /\ \A v \in Workers \ {w} : work'[v] = work[v]
    BY <1>0, <1>6 DEF CacheSet
  <2>2. sent[work[w].n] > 0
    BY <1>0, <2>1 DEF MarkSent
  <2>. QED
    BY <2>1, <2>2 DEF Taken
<1>. QED
  BY <1>1, <1>2, <1>3, <1>4, <1>5, <1>6 DEF Next, Working, Arrive, Tick, Start, vars

(* The safety half of EventuallyForwarded: no message in the window is left *)
(* out of a round, nor dropped before it or one of its FileName is          *)
(* forwarded                                                                *)
(* (cmd/telegram/scrape.go:44-63, sources/telegram.go:67-91).               *)
THEOREM NothingMissedCorrect == Spec => NothingMissed
<1>1. ScrapeInv /\ [Next]_vars => [RoundTakesWindow /\ KeptTillSent]_vars
  BY WindowTaken, TakenKept DEF ScrapeInv
<1>. QED
  BY <1>1, ScrapeInductive, PTL DEF Spec, NothingMissed
=============================================================================
