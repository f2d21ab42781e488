------------------------ MODULE TelegramClientProofs ------------------------
(***************************************************************************)
(* What a nil client can and cannot do to the program, for any number of   *)
(* overlapping heartbeats and callers and any bounds on what goes wrong.   *)
(***************************************************************************)
EXTENDS TelegramClient, FiniteSetTheorems, TLAPS

(* A goroutine holds a nil client only when its reconnect has failed.      *)
BeatInv == \A b \in Beats : At(b, "client") /\ beat[b].c = Nil => failed > 0

Inv == TypeOK /\ BeatInv /\ CrashNeedsFailure

-----------------------------------------------------------------------------
LEMMA InitInv == Init => Inv
<1> SUFFICES ASSUME Init PROVE Inv
  OBVIOUS
<1>1. TypeOK
  <2>1. up \subseteq 1 .. clients
    BY DEF Init
  <2>2. c \in {Nil} \cup 1 .. clients /\ manager \in 1 .. clients /\ clients \in Nat \ {0}
    BY DEF Init
  <2>3. beat \in [Beats -> [pc : {"idle", "tick", "ping", "connect", "client", "manager"},
                           c : {Nil} \cup 1 .. clients]]
    BY DEF Init, Idle
  <2>. QED
    BY <2>1, <2>2, <2>3 DEF Init, TypeOK
<1>2. BeatInv /\ CrashNeedsFailure
  BY DEF Init, BeatInv, CrashNeedsFailure, Idle, At, Nil
<1>. QED
  BY <1>1, <1>2 DEF Inv

LEMMA StepInv == Inv /\ [Next]_vars => Inv'
<1> SUFFICES ASSUME Inv, [Next]_vars PROVE Inv'
  OBVIOUS
<1> USE ClientAssumption DEF Inv, TypeOK, BeatInv, CrashNeedsFailure, At, Nil
<1>1. ASSUME NEW b \in Beats, Tick(b) PROVE Inv'
  BY <1>1 DEF Tick
<1>2. ASSUME NEW b \in Beats, Ping(b) PROVE Inv'
  BY <1>2 DEF Ping, Idle
<1>3. ASSUME NEW b \in Beats, PingAnswer(b) PROVE Inv'
  <2>1. faults' \in Nat /\ c' = c
    BY <1>3 DEF PingAnswer, Meanwhile, Fault
  <2>2. beat' = [beat EXCEPT ![b] = Idle] \/ beat' = [beat EXCEPT ![b].pc = AfterFail]
    BY <1>3 DEF PingAnswer
  <2>. QED
    BY <1>3, <2>1, <2>2 DEF PingAnswer, AfterFail, Idle
<1>4. ASSUME NEW b \in Beats, GetClientWithStore(b) PROVE Inv'
  <2>1. CASE /\ clients' = clients + 1 /\ up' = up \cup {clients'}
             /\ beat' = [beat EXCEPT ![b] = [pc |-> "client", c |-> clients']]
             /\ UNCHANGED <<failed, faults>>
    <3>1. 1 .. clients \subseteq 1 .. clients' /\ clients' \in 1 .. clients' /\ clients' # 0
      BY <2>1
    <3>2. TypeOK'
      BY <1>4, <2>1, <3>1 DEF GetClientWithStore
    <3>3. BeatInv' /\ CrashNeedsFailure'
      BY <1>4, <2>1, <3>1 DEF GetClientWithStore
    <3>. QED
      BY <3>2, <3>3
  <2>2. CASE /\ Fault /\ failed' = failed + 1
             /\ beat' = [beat EXCEPT ![b] = [pc |-> "client", c |-> Nil]]
             /\ UNCHANGED <<clients, up>>
    <3>1. failed' \in Nat /\ failed' > 0 /\ faults' \in Nat
      BY <2>2 DEF Fault
    <3>2. TypeOK'
      BY <1>4, <2>2, <3>1 DEF GetClientWithStore
    <3>3. BeatInv' /\ CrashNeedsFailure'
      BY <1>4, <2>2, <3>1 DEF GetClientWithStore
    <3>. QED
      BY <3>2, <3>3
  <2>. QED
    BY <1>4, <2>1, <2>2 DEF GetClientWithStore
<1>5. ASSUME NEW b \in Beats, SetClient(b) PROVE Inv'
  BY <1>5 DEF SetClient, Connected
<1>6. ASSUME NEW b \in Beats, SetManager(b) PROVE Inv'
  BY <1>6 DEF SetManager, Built, Idle
<1>7. ASSUME NEW u \in Callers, Call(u) \/ GetInputPeer(u) PROVE Inv'
  <2>1. caller' \in [Callers -> {"idle", "peer", "api"}]
    BY <1>7 DEF Call, GetInputPeer
  <2>2. UNCHANGED <<c, manager, clients, up, beat, crashed, failed, drops, faults>>
    BY <1>7 DEF Call, GetInputPeer
  <2>. QED
    BY <2>1, <2>2
<1>8. ASSUME NEW u \in Callers, API(u) PROVE Inv'
  BY <1>8 DEF API
<1>9. ASSUME NEW n \in up, Drop(n) PROVE Inv'
  BY <1>9 DEF Drop
<1>10. CASE UNCHANGED vars
  BY <1>10 DEF vars
<1>. QED
  BY <1>1, <1>2, <1>3, <1>4, <1>5, <1>6, <1>7, <1>8, <1>9, <1>10 DEF Next, HeartBeat

(* The conjunction is an invariant of the specification.                   *)
THEOREM ClientInductive == Spec => []Inv
BY InitInv, StepInv, PTL DEF Spec

(* Client, manager, heartbeats and callers are well typed; the manager in  *)
(* particular is never built on a nil client (telegram.go:87-92).          *)
THEOREM ClientTypeCorrect == Spec => []TypeOK
BY ClientInductive, PTL DEF Inv

(* A call brings the program down only after a reconnect has failed: no    *)
(* interleaving of heartbeats and callers shows a nil client otherwise     *)
(* (telegram.go:79-92,192-200).                                            *)
THEOREM CrashCorrect == Spec => []CrashNeedsFailure
BY ClientInductive, PTL DEF Inv

-----------------------------------------------------------------------------
(* A ping is never on a nil client, and a client on its way to t.c is held *)
(* by one goroutine alone and by no ping.                                  *)
Fresh ==
    /\ \A b \in Beats : At(b, "ping") => beat[b].c # Nil
    /\ \A b \in Beats : At(b, "client") /\ beat[b].c # Nil =>
          /\ c # beat[b].c
          /\ \A d \in Beats \ {b} :
                At(d, "client") \/ At(d, "ping") => beat[d].c # beat[b].c

(* Goroutine b may still come to replace client n.                         *)
Open(b, n) ==
    \/ At(b, "ping") /\ beat[b].c = n
    \/ c = n /\ ~At(b, "connect") /\ ~At(b, "client")
    \/ \E d \in Beats : At(d, "client") /\ beat[d].c = n

(* The clients that may still be connected on account of what has already  *)
(* failed: one for each goroutine that is about to, <<b, 0>>, and one for  *)
(* each that can still find the lost client n unanswering, <<b, n>>.       *)
Due == {t \in Beats \X (0 .. clients) :
           \/ t[2] = 0 /\ At(t[1], "connect")
           \/ t[2] \in (1 .. clients) \ up /\ Open(t[1], t[2])}

(* What is connected or due has been paid for by a loss or a failed ping.  *)
Paid == clients + Cardinality(Due) <= 1 + Cardinality(Beats) * drops + faults

(* What is due is a finite set.                                            *)
LEMMA DueFinite == TypeOK => IsFiniteSet(Due) /\ Cardinality(Due) \in Nat
<1> SUFFICES ASSUME TypeOK PROVE IsFiniteSet(Due) /\ Cardinality(Due) \in Nat
  OBVIOUS
<1>1. IsFiniteSet(0 .. clients)
  BY FS_Interval DEF TypeOK
<1>2. IsFiniteSet(Beats \X (0 .. clients))
  BY <1>1, FS_Product, ClientAssumption
<1>3. Due \in SUBSET (Beats \X (0 .. clients))
  BY DEF Due
<1>. QED
  BY <1>2, <1>3, FS_Subset, FS_CardinalityType

(* The arithmetic of the steps: a finite set E that has no more than D,    *)
(* after one element is taken out, put in, or exchanged.                   *)
LEMMA SubsetCard ==
  ASSUME NEW D, NEW E, IsFiniteSet(D), E \subseteq D
  PROVE  IsFiniteSet(E) /\ Cardinality(E) \in Nat /\ Cardinality(E) <= Cardinality(D)
BY FS_Subset, FS_CardinalityType

LEMMA LessOneCard ==
  ASSUME NEW D, NEW E, NEW x \in D, IsFiniteSet(D), E \subseteq D \ {x}
  PROVE  Cardinality(E) \in Nat /\ Cardinality(E) <= Cardinality(D) - 1
<1>1. IsFiniteSet(D \ {x}) /\ Cardinality(D \ {x}) = Cardinality(D) - 1
  BY FS_RemoveElement
<1>2. Cardinality(D) \in Nat
  BY FS_CardinalityType
<1>3. Cardinality(E) \in Nat /\ Cardinality(E) <= Cardinality(D \ {x})
  BY <1>1, SubsetCard
<1>. QED
  BY <1>1, <1>2, <1>3

LEMMA PlusOneCard ==
  ASSUME NEW D, NEW E, NEW y, IsFiniteSet(D), E \subseteq D \cup {y}
  PROVE  Cardinality(E) \in Nat /\ Cardinality(E) <= Cardinality(D) + 1
<1>1. Cardinality(D) \in Nat
  BY FS_CardinalityType
<1>2. /\ IsFiniteSet(D \cup {y})
      /\ Cardinality(D \cup {y}) = IF y \in D THEN Cardinality(D) ELSE Cardinality(D) + 1
  BY FS_AddElement
<1>3. Cardinality(E) \in Nat /\ Cardinality(E) <= Cardinality(D \cup {y})
  BY <1>2, SubsetCard
<1>. QED
  BY <1>1, <1>2, <1>3

LEMMA ExchangeCard ==
  ASSUME NEW D, NEW E, NEW x \in D, NEW y, IsFiniteSet(D), E \subseteq (D \ {x}) \cup {y}
  PROVE  Cardinality(E) \in Nat /\ Cardinality(E) <= Cardinality(D)
<1>1. IsFiniteSet(D \ {x}) /\ Cardinality(D \ {x}) = Cardinality(D) - 1
  BY FS_RemoveElement
<1>2. Cardinality(D) \in Nat
  BY FS_CardinalityType
<1>3. Cardinality(E) \in Nat /\ Cardinality(E) <= Cardinality(D \ {x}) + 1
  BY <1>1, PlusOneCard
<1>. QED
  BY <1>1, <1>2, <1>3

-----------------------------------------------------------------------------
(* Each step keeps a client that is on its way out of the others' reach.   *)
LEMMA StepFresh == TypeOK /\ Fresh /\ [Next]_vars => Fresh'
<1> SUFFICES ASSUME TypeOK, Fresh, [Next]_vars PROVE Fresh'
  OBVIOUS
<1> USE DEF TypeOK, Fresh, At, Nil
<1>1. ASSUME NEW b \in Beats, Tick(b) PROVE Fresh'
  BY <1>1 DEF Tick
<1>2. ASSUME NEW b \in Beats, Ping(b) PROVE Fresh'
  BY <1>2 DEF Ping, Idle
<1>3. ASSUME NEW b \in Beats, PingAnswer(b) PROVE Fresh'
  <2>1. c' = c
    BY <1>3 DEF PingAnswer, Meanwhile
  <2>2. beat' = [beat EXCEPT ![b] = Idle] \/ beat' = [beat EXCEPT ![b].pc = AfterFail]
    BY <1>3 DEF PingAnswer
  <2>. QED
    BY <2>1, <2>2 DEF AfterFail, Idle
<1>4. ASSUME NEW b \in Beats, GetClientWithStore(b) PROVE Fresh'
  <2>1. c' = c
    BY <1>4 DEF GetClientWithStore
  <2>2. PICK k \in {Nil, clients + 1} : beat' = [beat EXCEPT ![b] = [pc |-> "client", c |-> k]]
    BY <1>4 DEF GetClientWithStore
  <2>3. c # clients + 1 /\ \A d \in Beats : beat[d].c # clients + 1
    OBVIOUS
  <2>. QED
    BY <2>1, <2>2, <2>3
<1>5. ASSUME NEW b \in Beats, SetClient(b) PROVE Fresh'
  BY <1>5 DEF SetClient, Connected
<1>6. ASSUME NEW b \in Beats, SetManager(b) PROVE Fresh'
  BY <1>6 DEF SetManager, Idle
<1>7. ASSUME NEW u \in Callers, Call(u) \/ GetInputPeer(u) \/ API(u) PROVE Fresh'
  BY <1>7 DEF Call, GetInputPeer, API
<1>8. ASSUME NEW n \in up, Drop(n) PROVE Fresh'
  BY <1>8 DEF Drop
<1>9. CASE UNCHANGED vars
  BY <1>9 DEF vars
<1>. QED
  BY <1>1, <1>2, <1>3, <1>4, <1>5, <1>6, <1>7, <1>8, <1>9 DEF Next, HeartBeat

(* Each step pays for what it connects, and for what it makes due.         *)
LEMMA StepPaid == TypeOK /\ Fresh /\ Paid /\ [Next]_vars => Paid'
<1> SUFFICES ASSUME TypeOK, Fresh, Paid, [Next]_vars PROVE Paid'
  OBVIOUS
<1>0. /\ IsFiniteSet(Due) /\ Cardinality(Due) \in Nat
      /\ Cardinality(Beats) \in Nat /\ clients \in Nat /\ drops \in Nat /\ faults \in Nat
      /\ Cardinality(Beats) * drops \in Nat
      /\ clients + Cardinality(Due) <= 1 + Cardinality(Beats) * drops + faults
  BY DueFinite, FS_CardinalityType, ClientAssumption DEF TypeOK, Paid
<1>S. ASSUME Due' \subseteq Due, UNCHANGED <<clients, drops, faults>> PROVE Paid'
  BY <1>0, <1>S, SubsetCard DEF Paid
<1> USE DEF TypeOK, At
<1>1. ASSUME NEW b \in Beats, Tick(b) PROVE Paid'
  <2>1. Due' \subseteq Due
    BY <1>1 DEF Tick, Due, Open
  <2>. QED
    BY <1>1, <1>S, <2>1 DEF Tick
<1>2. ASSUME NEW b \in Beats, Ping(b) PROVE Paid'
  <2>1. Due' \subseteq Due
    BY <1>2 DEF Ping, Idle, Due, Open, Nil
  <2>. QED
    BY <1>2, <1>S, <2>1 DEF Ping
<1>3. ASSUME NEW b \in Beats, PingAnswer(b) PROVE Paid'
  <2>0. UNCHANGED <<c, clients, up, drops>> /\ At(b, "ping")
    BY <1>3 DEF PingAnswer, Meanwhile
  <2>1. CASE beat[b].c \in up /\ beat' = [beat EXCEPT ![b] = Idle] /\ UNCHANGED faults
    <3>1. Due' \subseteq Due
      BY <2>0, <2>1 DEF Idle, Due, Open
    <3>. QED
      BY <2>0, <2>1, <1>S, <3>1
  <2>2. CASE /\ beat[b].c \in up /\ faults' = faults + 1
             /\ beat' = [beat EXCEPT ![b].pc = AfterFail]
    <3>1. Due' \subseteq Due \cup {<<b, 0>>}
      BY <2>0, <2>2 DEF AfterFail, Due, Open
    <3>2. Cardinality(Due') \in Nat /\ Cardinality(Due') <= Cardinality(Due) + 1
      BY <1>0, <3>1, PlusOneCard
    <3>. QED
      BY <1>0, <2>0, <2>2, <3>2 DEF Paid
  <2>3. CASE /\ beat[b].c \notin up /\ faults' = faults /\ beat[b].c # Nil
             /\ beat' = [beat EXCEPT ![b].pc = AfterFail]
    <3>1. <<b, beat[b].c>> \in Due
      BY <2>0, <2>3 DEF Due, Open, Nil
    <3>2. Due' \subseteq (Due \ {<<b, beat[b].c>>}) \cup {<<b, 0>>}
      BY <2>0, <2>3 DEF AfterFail, Due, Open, Fresh, Nil
    <3>3. Cardinality(Due') \in Nat /\ Cardinality(Due') <= Cardinality(Due)
      BY <1>0, <3>1, <3>2, ExchangeCard
    <3>. QED
      BY <1>0, <2>0, <2>3, <3>3 DEF Paid
  <2>4. beat[b].c # Nil
    BY <2>0 DEF Fresh
  <2>5. \/ beat[b].c \in up /\ beat' = [beat EXCEPT ![b] = Idle] /\ UNCHANGED faults
        \/ /\ beat[b].c \in up /\ faults' = faults + 1
           /\ beat' = [beat EXCEPT ![b].pc = AfterFail]
        \/ /\ beat[b].c \notin up /\ faults' = faults
           /\ beat' = [beat EXCEPT ![b].pc = AfterFail]
    BY <1>3 DEF PingAnswer, Fault
  <2>. QED
    BY <2>1, <2>2, <2>3, <2>4, <2>5
<1>4. ASSUME NEW b \in Beats, GetClientWithStore(b) PROVE Paid'
  <2>0. UNCHANGED <<c, drops>> /\ At(b, "connect") /\ <<b, 0>> \in Due
    BY <1>4 DEF GetClientWithStore, Due
  <2>1. CASE /\ clients' = clients + 1 /\ up' = up \cup {clients'} /\ faults' = faults
             /\ beat' = [beat EXCEPT ![b] = [pc |-> "client", c |-> clients']]
    <3>1. Due' \subseteq Due \ {<<b, 0>>}
      BY <2>0, <2>1, SMTT(30) DEF Due, Open
    <3>2. Cardinality(Due') \in Nat /\ Cardinality(Due') <= Cardinality(Due) - 1
      BY <1>0, <2>0, <3>1, LessOneCard
    <3>. QED
      BY <1>0, <2>0, <2>1, <3>2 DEF Paid
  <2>2. CASE /\ faults' = faults + 1 /\ UNCHANGED <<clients, up>>
             /\ beat' = [beat EXCEPT ![b] = [pc |-> "client", c |-> Nil]]
    <3>1. Due' \subseteq Due
      BY <2>0, <2>2 DEF Due, Open, Nil
    <3>2. Cardinality(Due') \in Nat /\ Cardinality(Due') <= Cardinality(Due)
      BY <1>0, <3>1, SubsetCard
    <3>. QED
      BY <1>0, <2>0, <2>2, <3>2 DEF Paid
  <2>. QED
    BY <1>4, <2>1, <2>2 DEF GetClientWithStore, Fault
<1>5. ASSUME NEW b \in Beats, SetClient(b) PROVE Paid'
  <2>1. Due' \subseteq Due
    BY <1>5 DEF SetClient, Connected, Due, Open
  <2>. QED
    BY <1>5, <1>S, <2>1 DEF SetClient
<1>6. ASSUME NEW b \in Beats, SetManager(b) PROVE Paid'
  <2>1. Due' \subseteq Due
    BY <1>6 DEF SetManager, Idle, Due, Open
  <2>. QED
    BY <1>6, <1>S, <2>1 DEF SetManager
<1>7. ASSUME NEW u \in Callers, Call(u) \/ GetInputPeer(u) \/ API(u) PROVE Paid'
  <2>1. UNCHANGED <<c, clients, up, beat, drops, faults>>
    BY <1>7 DEF Call, GetInputPeer, API
  <2>. QED
    BY <1>S, <2>1 DEF Due, Open
<1>8. ASSUME NEW n \in up, Drop(n) PROVE Paid'
  <2>0. UNCHANGED <<c, clients, beat, faults>> /\ drops' = drops + 1
    BY <1>8 DEF Drop
  <2>1. Due' \subseteq Due \cup (Beats \X {n})
    BY <1>8 DEF Drop, Due, Open
  <2>2. /\ IsFiniteSet(Beats \X {n})
        /\ Cardinality(Beats \X {n}) = Cardinality(Beats)
    <3>1. IsFiniteSet({n}) /\ Cardinality({n}) = 1
      BY FS_Singleton
    <3>2. /\ IsFiniteSet(Beats \X {n})
          /\ Cardinality(Beats \X {n}) = Cardinality(Beats) * Cardinality({n})
      BY <3>1, FS_Product, ClientAssumption
    <3>. QED
      BY <1>0, <3>1, <3>2
  <2>3. /\ IsFiniteSet(Due \cup (Beats \X {n}))
        /\ Cardinality(Due \cup (Beats \X {n})) <= Cardinality(Due) + Cardinality(Beats)
    <3>1. Cardinality(Due \cap (Beats \X {n})) \in Nat
      BY <1>0, FS_Intersection, FS_CardinalityType
    <3>2. /\ IsFiniteSet(Due \cup (Beats \X {n}))
          /\ Cardinality(Due \cup (Beats \X {n})) =
               Cardinality(Due) + Cardinality(Beats \X {n})
                 - Cardinality(Due \cap (Beats \X {n}))
      BY <1>0, <2>2, FS_Union
    <3>. QED
      BY <1>0, <2>2, <3>1, <3>2
  <2>4. /\ Cardinality(Due') \in Nat
        /\ Cardinality(Due') <= Cardinality(Due \cup (Beats \X {n}))
        /\ Cardinality(Due \cup (Beats \X {n})) \in Nat
    BY <2>1, <2>3, SubsetCard, FS_CardinalityType
  <2>5. Cardinality(Beats) * (drops + 1) = Cardinality(Beats) * drops + Cardinality(Beats)
    BY <1>0
  <2>. QED
    BY <1>0, <2>0, <2>3, <2>4, <2>5 DEF Paid
<1>9. CASE UNCHANGED vars
  BY <1>9, <1>S DEF vars, Due, Open
<1>. QED
  BY <1>1, <1>2, <1>3, <1>4, <1>5, <1>6, <1>7, <1>8, <1>9 DEF Next, HeartBeat

(* However the heartbeats overlap, no more clients are ever connected than *)
(* one for each goroutine and lost connection and one for each ping that   *)
(* failed without: no goroutine replaces the same lost client twice, and   *)
(* none replaces one whose replacement is under way more than once         *)
(* (telegram.go:74-92).                                                    *)
THEOREM ClientsCorrect == Spec => []ClientsBounded
<1>1. Init => Fresh /\ Paid
  <2> SUFFICES ASSUME Init PROVE Fresh /\ Paid
    OBVIOUS
  <2>1. TypeOK
    BY InitInv DEF Inv
  <2>2. Fresh /\ Due = {}
    BY <2>1 DEF Init, Fresh, Due, Open, Idle, At, Nil
  <2>3. Cardinality(Due) = 0 /\ Cardinality(Beats) \in Nat
    BY <2>2, FS_EmptySet, FS_CardinalityType, ClientAssumption
  <2>. QED
    BY <2>2, <2>3 DEF Init, Paid
<1>2. (TypeOK /\ Fresh /\ Paid) /\ [Next]_vars => Fresh' /\ Paid'
  BY StepFresh, StepPaid
<1>3. TypeOK /\ Paid => ClientsBounded
  <2> SUFFICES ASSUME TypeOK, Paid PROVE ClientsBounded
    OBVIOUS
  <2>1. Cardinality(Due) \in Nat /\ Cardinality(Beats) * drops \in Nat
    BY DueFinite, FS_CardinalityType, ClientAssumption DEF TypeOK
  <2>. QED
    BY <2>1 DEF TypeOK, Paid, ClientsBounded
<1>. QED
  BY <1>1, <1>2, <1>3, ClientTypeCorrect, PTL DEF Spec
=============================================================================
