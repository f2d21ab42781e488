------------------------- MODULE DownloadIterProofs -------------------------
(***************************************************************************)
(* For any dialogs, albums and filters, any limit, number of runs and of   *)
(* faults: a download that returns nil has left nothing out, nothing is    *)
(* started more often than it is due, and the iterator fails only for a    *)
(* reason.                                                                 *)
(*                                                                         *)
(* The invariant: Base, the types, with no progress ever stored but the    *)
(* empty one; Fresh, no dialog without messages passed; AtLast, when the   *)
(* loop is over everything is passed; Counted, the messages started and    *)
(* those on i.elem against the positions passed; Hung, what an album that  *)
(* could not be had leads to; Filed, what has become of the latest         *)
(* download of a message; ErrorHasReason; and WaitHasReason, which is      *)
(* apart from these.  FilesOf goes through an album message by message     *)
(* (Filtered): what it leaves is proved by induction, in the form that a   *)
(* set of numbers with 0 and every successor is Nat.                       *)
(*                                                                         *)
(* At the end, with what has been proved of Filtered, the list of dialogs: *)
(* it is complete, and a page of topics gets it on.                        *)
(***************************************************************************)
EXTENDS DownloadIter, FiniteSetTheorems, FunctionTheorems, WellFoundedInduction, TLAPS

(* A set of natural numbers that is not empty has a least element.          *)
LEMMA LeastNat ==
    ASSUME NEW S \in SUBSET Nat, S # {}
    PROVE  \E m \in S : \A n \in S : m <= n
<1> DEFINE R == OpToRel(<, Nat)
<1>1. IsWellFoundedOn(R, Nat)
  BY NatLessThanWellFounded, Zenon
<1>2. \A m, n \in Nat : m < n => <<m, n>> \in R
  BY DEF OpToRel
<1> HIDE DEF R
<1>3. \E x \in S : \A y \in S : ~ (<<y, x>> \in R)
  BY <1>1, WFMin
<1>4. PICK x \in S : \A y \in S : ~ (<<y, x>> \in R)
  BY <1>3
<1>5. ASSUME NEW n \in S PROVE x <= n
  <2>1. ~ (n < x)
    BY <1>2, <1>4
  <2>. QED
    BY <2>1
<1>. QED
  BY <1>5

(* Induction: a set with 0 and the successor of each of its members is Nat. *)
LEMMA NatInd ==
    ASSUME NEW S \in SUBSET Nat, 0 \in S, \A n \in S : n + 1 \in S
    PROVE  S = Nat
<1> SUFFICES ASSUME Nat \ S # {} PROVE FALSE
  OBVIOUS
<1>1. PICK m \in Nat \ S : \A n \in Nat \ S : m <= n
  BY LeastNat
<1>2. m # 0 /\ m - 1 \in Nat /\ m - 1 \in S
  BY <1>1
<1>. QED
  BY <1>1, <1>2

-----------------------------------------------------------------------------
(* One turn of the loop of Filtered.                                        *)
Turn(t, x, S) == IF x \in S THEN Append(t, x) ELSE t

(* f[k] is what k turns of that loop have taken.                            *)
Turns(f, s, S, n) ==
    f = [k \in 0 .. n |-> IF k = 0 THEN <<>> ELSE Turn(f[k - 1], s[k], S)]

(* The loop can be run for any number of turns: the function Filtered is    *)
(* defined by exists (iter.go:251-254, ls.go:232-241).                      *)
LEMMA TurnsEnd ==
    ASSUME NEW s, NEW S, NEW n \in Nat
    PROVE  \E f : Turns(f, s, S, n)
<1> DEFINE K == {k \in Nat : \E f : Turns(f, s, S, k)}
<1>1. 0 \in K
  <2>1. Turns([k \in 0 .. 0 |-> <<>>], s, S, 0)
    BY DEF Turns
  <2>. QED
    BY <2>1
<1>2. ASSUME NEW k \in K PROVE k + 1 \in K
  <2>1. PICK f : Turns(f, s, S, k)
    OBVIOUS
  <2> DEFINE g == [l \in 0 .. k + 1 |-> IF l <= k THEN f[l] ELSE Turn(f[k], s[l], S)]
  <2>2. ASSUME NEW l \in 0 .. k + 1
        PROVE  g[l] = IF l = 0 THEN <<>> ELSE Turn(g[l - 1], s[l], S)
    <3>1. CASE l <= k
      BY <2>1, <3>1 DEF Turns
    <3>2. CASE l = k + 1
      BY <2>1, <3>2 DEF Turns
    <3>. QED
      BY <3>1, <3>2
  <2>3. Turns(g, s, S, k + 1)
    <3> HIDE DEF g
    <3>1. g = [l \in 0 .. k + 1 |-> g[l]]
      BY DEF g
    <3>. QED
      BY <2>2, <3>1 DEF Turns
  <2>. QED
    BY <2>3
<1> HIDE DEF K
<1>3. K = Nat
  <2>1. K \in SUBSET Nat
    BY DEF K
  <2>. QED
    BY <1>1, <1>2, <2>1, NatInd
<1>. QED
  BY <1>3 DEF K

(* The elements of t are those of the first k of s that are in S, taken at  *)
(* the places that "from" names, in order.                                  *)
Takes(t, s, S, k, from) ==
    /\ from \in [1 .. Len(t) -> 1 .. k]
    /\ \A i, j \in 1 .. Len(t) : i < j => from[i] < from[j]
    /\ \A i \in 1 .. Len(t) : t[i] = s[from[i]] /\ t[i] \in S
    /\ \A l \in 1 .. k : s[l] \in S => \E i \in 1 .. Len(t) : from[i] = l

Taken(t, T, s, S, k) ==
    /\ t \in Seq(T) /\ Len(t) <= k
    /\ \E from : Takes(t, s, S, k, from)

(* A turn of the loop takes the next element if it is in S                  *)
(* (iter.go:251-254, ls.go:232-241).                                        *)
LEMMA TakenTurn ==
    ASSUME NEW T, NEW s \in Seq(T), NEW S, NEW k \in Nat, k + 1 <= Len(s),
           NEW t, Taken(t, T, s, S, k)
    PROVE  Taken(Turn(t, s[k + 1], S), T, s, S, k + 1)
<1> DEFINE x == s[k + 1]
<1>1. x \in T /\ t \in Seq(T) /\ Len(t) \in Nat /\ Len(t) <= k /\ DOMAIN t = 1 .. Len(t)
  BY DEF Taken
<1>2. PICK from : Takes(t, s, S, k, from)
  BY DEF Taken
<1>3. CASE x \in S
  <2> DEFINE u == Append(t, x)
             to == [i \in 1 .. Len(t) + 1 |-> IF i <= Len(t) THEN from[i] ELSE k + 1]
  <2>1. /\ u \in Seq(T) /\ Len(u) = Len(t) + 1
        /\ \A i \in 1 .. Len(t) : u[i] = t[i]
        /\ u[Len(t) + 1] = x
    BY <1>1
  <2>2. Turn(t, x, S) = u
    BY <1>3 DEF Turn
  <2> HIDE DEF u, x
  <2>3. \A i \in 1 .. Len(u) : i \in 1 .. Len(t) \/ i = Len(t) + 1
    BY <1>1, <2>1
  <2>a. \A i \in 1 .. Len(t) : from[i] \in 1 .. k
    BY <1>2 DEF Takes
  <2>b. \A i \in 1 .. Len(t) : i \in 1 .. Len(t) + 1 /\ i <= Len(t)
    BY <1>1
  <2>c. Len(t) + 1 \in 1 .. Len(t) + 1 /\ ~ (Len(t) + 1 <= Len(t))
    BY <1>1
  <2>4. /\ \A i \in 1 .. Len(t) : to[i] = from[i] /\ from[i] \in 1 .. k
        /\ to[Len(t) + 1] = k + 1
    BY <2>a, <2>b, <2>c
  <2>5. to \in [1 .. Len(u) -> 1 .. k + 1]
    BY <1>1, <1>2, <2>1 DEF Takes
  <2> HIDE DEF to
  <2>6. ASSUME NEW i \in 1 .. Len(u), NEW j \in 1 .. Len(u), i < j PROVE to[i] < to[j]
    <3>1. CASE j \in 1 .. Len(t)
      <4>1. i \in 1 .. Len(t)
        BY <1>1, <2>1, <2>6, <3>1
      <4>. QED
        BY <1>2, <2>4, <2>6, <3>1, <4>1 DEF Takes
    <3>2. CASE j = Len(t) + 1
      <4>1. i \in 1 .. Len(t)
        BY <1>1, <2>1, <2>6, <3>2
      <4>. QED
        BY <2>4, <3>2, <4>1
    <3>. QED
      BY <2>3, <3>1, <3>2
  <2>7. \A i \in 1 .. Len(u) : u[i] = s[to[i]] /\ u[i] \in S
    BY <1>2, <1>3, <2>1, <2>3, <2>4 DEF Takes, x
  <2>8. ASSUME NEW l \in 1 .. k + 1, s[l] \in S PROVE \E i \in 1 .. Len(u) : to[i] = l
    <3>1. CASE l \in 1 .. k
      <4>1. PICK i \in 1 .. Len(t) : from[i] = l
        BY <1>2, <2>8, <3>1 DEF Takes
      <4>. QED
        BY <1>1, <2>1, <2>4, <4>1
    <3>2. CASE l = k + 1
      BY <1>1, <2>1, <2>4, <3>2
    <3>. QED
      BY <3>1, <3>2
  <2>9. Takes(u, s, S, k + 1, to)
    BY <2>5, <2>6, <2>7, <2>8 DEF Takes
  <2>. QED
    BY <1>1, <2>1, <2>2, <2>9 DEF Taken, x
<1>4. CASE x \notin S
  <2>1. Turn(t, x, S) = t
    BY <1>4 DEF Turn
  <2>2. from \in [1 .. Len(t) -> 1 .. k + 1]
    BY <1>2 DEF Takes
  <2>3. \A l \in 1 .. k + 1 : s[l] \in S => \E i \in 1 .. Len(t) : from[i] = l
    BY <1>2, <1>4 DEF Takes
  <2>4. Takes(t, s, S, k + 1, from)
    BY <1>2, <2>2, <2>3 DEF Takes
  <2>. QED
    BY <1>1, <2>1, <2>4 DEF Taken
<1>. QED
  BY <1>3, <1>4

(* All turns together (iter.go:244-256, ls.go:232-241).                     *)
LEMMA FilteredTaken ==
    ASSUME NEW T, NEW s \in Seq(T), NEW S
    PROVE  Taken(Filtered(s, S), T, s, S, Len(s))
<1> DEFINE n == Len(s)
<1>0. n \in Nat
  OBVIOUS
<1>1. PICK f : Turns(f, s, S, n) /\ Filtered(s, S) = f[n]
  <2>1. \E f : Turns(f, s, S, n)
    BY <1>0, TurnsEnd
  <2>2. Filtered(s, S) = (CHOOSE f : Turns(f, s, S, n))[n]
    BY DEF Filtered, Turns, Turn
  <2>. QED
    BY <2>1, <2>2
<1> DEFINE K == {k \in Nat : k <= n => Taken(f[k], T, s, S, k)}
<1> HIDE DEF n
<1>2. 0 \in K
  <2>1. f[0] = <<>>
    BY <1>0, <1>1 DEF Turns
  <2>2. Takes(<<>>, s, S, 0, <<>>)
    BY DEF Takes
  <2>3. <<>> \in Seq(T) /\ Len(<<>>) <= 0
    OBVIOUS
  <2>. QED
    BY <1>0, <2>1, <2>2, <2>3, Zenon DEF Taken
<1>3. ASSUME NEW k \in K PROVE k + 1 \in K
  <2> SUFFICES ASSUME k + 1 <= n PROVE Taken(f[k + 1], T, s, S, k + 1)
    OBVIOUS
  <2>1. Taken(f[k], T, s, S, k)
    BY <1>0
  <2>2. f[k + 1] = Turn(f[k], s[k + 1], S)
    BY <1>0, <1>1 DEF Turns
  <2>. QED
    BY <2>1, <2>2, TakenTurn DEF n
<1> HIDE DEF K
<1>4. K = Nat
  <2>1. K \in SUBSET Nat
    BY DEF K
  <2>. QED
    BY <1>2, <1>3, <2>1, NatInd
<1>. QED
  BY <1>0, <1>1, <1>4 DEF K, n

(* What is taken is what is in S, and an order of the elements of s is one  *)
(* of those taken (iter.go:244-256, ls.go:232-241).                         *)
LEMMA FilteredIs ==
    ASSUME NEW T, NEW s \in Seq(T), NEW S
    PROVE  /\ Filtered(s, S) \in Seq(T) /\ Len(Filtered(s, S)) <= Len(s)
           /\ Range(Filtered(s, S)) = Range(s) \cap S
           /\ \E from \in [DOMAIN Filtered(s, S) -> DOMAIN s] :
                 /\ \A i, j \in DOMAIN from : i < j => from[i] < from[j]
                 /\ \A i \in DOMAIN from : Filtered(s, S)[i] = s[from[i]]
<1> DEFINE t == Filtered(s, S)
<1>1. t \in Seq(T) /\ Len(t) <= Len(s) /\ Len(t) \in Nat /\ DOMAIN t = 1 .. Len(t)
      /\ Len(s) \in Nat /\ DOMAIN s = 1 .. Len(s)
  BY FilteredTaken DEF Taken
<1>2. PICK from : Takes(t, s, S, Len(s), from)
  BY FilteredTaken DEF Taken
<1> HIDE DEF t
<1>3. from \in [DOMAIN t -> DOMAIN s] /\ DOMAIN from = DOMAIN t
  BY <1>1, <1>2 DEF Takes
<1>4. \A x : x \in Range(t) <=> x \in Range(s) /\ x \in S
  <2>1. ASSUME NEW i \in DOMAIN t PROVE t[i] \in S /\ \E l \in DOMAIN s : s[l] = t[i]
    BY <1>1, <1>2, <1>3, <2>1 DEF Takes
  <2>2. ASSUME NEW l \in DOMAIN s, s[l] \in S PROVE \E i \in DOMAIN t : t[i] = s[l]
    <3>1. l \in 1 .. Len(s)
      BY <1>1
    <3>2. PICK i \in 1 .. Len(t) : from[i] = l
      BY <1>2, <2>2, <3>1 DEF Takes
    <3>. QED
      BY <1>1, <1>2, <3>2 DEF Takes
  <2>. QED
    BY <2>1, <2>2 DEF Range
<1>. QED
  BY <1>1, <1>2, <1>3, <1>4 DEF Takes, t

-----------------------------------------------------------------------------
(* No element occurs twice.                                                 *)
Distinct(s) == \A k, l \in DOMAIN s : s[k] = s[l] => k = l

(* Message m has a file, and one that could be created.                     *)
Kept(m, lost) == Class[m] = "media" /\ m \notin lost

(* The messages of the album with a file, each once, and no more than there *)
(* are messages (iter.go:244-256).                                          *)
LEMMA AlbumsFiles ==
    ASSUME NEW album \in Seq(Msgs), NEW lost, Distinct(album)
    PROVE  /\ FilesOf(album, lost) \in Seq(Msgs) /\ Len(FilesOf(album, lost)) <= Len(album)
           /\ Distinct(FilesOf(album, lost))
           /\ Range(FilesOf(album, lost)) = {m \in Range(album) : Kept(m, lost)}
<1> DEFINE S == {m \in Range(album) : Kept(m, lost)}
<1>1. FilesOf(album, lost) = Filtered(album, S)
  BY DEF FilesOf, Kept
<1> DEFINE t == Filtered(album, S)
<1> HIDE DEF t, S
<1>2. t \in Seq(Msgs) /\ Len(t) <= Len(album) /\ Range(t) = Range(album) \cap S
  BY FilteredIs DEF t
<1>3. PICK from \in [DOMAIN t -> DOMAIN album] :
        /\ \A i, j \in DOMAIN from : i < j => from[i] < from[j]
        /\ \A i \in DOMAIN from : t[i] = album[from[i]]
  BY FilteredIs DEF t
<1>4. Distinct(t)
  <2> SUFFICES ASSUME NEW i \in DOMAIN t, NEW j \in DOMAIN t, t[i] = t[j] PROVE i = j
    BY DEF Distinct
  <2>1. from[i] = from[j]
    BY <1>3 DEF Distinct
  <2>2. i \in Nat /\ j \in Nat /\ \A l \in DOMAIN album : l \in Nat
    BY <1>2
  <2>. QED
    BY <1>3, <2>1, <2>2
<1>5. Range(album) \cap S = S
  BY DEF S
<1>. QED
  BY <1>1, <1>2, <1>4, <1>5 DEF t, S

-----------------------------------------------------------------------------
(* The dialogs and the albums of a request.                                 *)
LEMMA RequestTyped ==
    ASSUME request \in Requests
    PROVE  /\ Dialogs \in Seq(Seq(Msgs)) /\ request.group \in BOOLEAN
           /\ Len(Dialogs) \in Nat /\ DOMAIN Dialogs = 1 .. Len(Dialogs)
           /\ \A d \in DOMAIN Dialogs : /\ Dialogs[d] \in Seq(Msgs) /\ Len(Dialogs[d]) \in Nat
                                        /\ DOMAIN Dialogs[d] = 1 .. Len(Dialogs[d])
           /\ \A m \in Msgs : /\ Album[m] \in Seq(Msgs) /\ Len(Album[m]) <= 10
                              /\ Distinct(Album[m])
<1>1. Dialogs \in Seq(Seq(Msgs)) /\ request.group \in BOOLEAN
  BY IterAssumption DEF Dialogs
<1>2. \A d \in DOMAIN Dialogs : Dialogs[d] \in Seq(Msgs)
  BY <1>1
<1>3. \A m \in Msgs : Album[m] \in Seq(Msgs) /\ Len(Album[m]) <= 10 /\ Distinct(Album[m])
  BY IterAssumption DEF Album, Distinct
<1>. QED
  BY <1>1, <1>2, <1>3

(* A position is a dialog and a message of it.                              *)
LEMMA PositionsAre ==
    ASSUME request \in Requests, NEW p
    PROVE  p \in Positions <=> /\ p = <<p[1], p[2]>>
                               /\ p[1] \in 1 .. Len(Dialogs) /\ p[2] \in 1 .. Len(Dialogs[p[1]])
BY RequestTyped DEF Positions

(* A request has finitely many positions.                                   *)
LEMMA PositionsFinite == request \in Requests => IsFiniteSet(Positions) /\ IsFiniteSet(Reached)
<1> SUFFICES ASSUME request \in Requests PROVE IsFiniteSet(Positions) /\ IsFiniteSet(Reached)
  OBVIOUS
<1> DEFINE D == DOMAIN Dialogs
           f == [d \in D |-> {d} \X DOMAIN Dialogs[d]]
           T == {f[d] : d \in D}
<1>1. IsFiniteSet(D)
  BY RequestTyped, FS_Interval
<1>2. ASSUME NEW d \in D PROVE IsFiniteSet(f[d])
  <2>1. IsFiniteSet({d}) /\ IsFiniteSet(DOMAIN Dialogs[d])
    <3>1. DOMAIN Dialogs[d] = 1 .. Len(Dialogs[d]) /\ Len(Dialogs[d]) \in Int
      BY RequestTyped
    <3>2. \A n \in Int : IsFiniteSet(1 .. n)
      BY FS_Interval
    <3>. QED
      BY <3>1, <3>2, FS_Singleton
  <2>. QED
    BY <2>1, FS_Product
<1>3. Positions = UNION T
  BY DEF Positions
<1>4. DOMAIN f = D
  OBVIOUS
<1> HIDE DEF f, D
<1>5. f \in Surjection(D, T)
  <2>1. f \in [D -> T]
    <3>1. f = [d \in D |-> f[d]]
      BY <1>4 DEF f
    <3>. QED
      BY <3>1
  <2>. QED
    BY <2>1 DEF Surjection
<1>6. IsFiniteSet(T)
  BY <1>1, <1>5, FS_Surjection
<1>7. \A S \in T : IsFiniteSet(S)
  BY <1>2
<1>8. IsFiniteSet(Positions)
  BY <1>3, <1>6, <1>7, FS_UNION
<1>9. Reached \in SUBSET Positions
  BY DEF Reached
<1>. QED
  BY <1>8, <1>9, FS_Subset

(* Where the iteration stands: at a message, at the start of a dialog, or   *)
(* after the last dialog.                                                   *)
AtTyped ==
    /\ at \in (1 .. Len(Dialogs) + 1) \X (Nat \ {0})
    /\ at[1] <= Len(Dialogs) => at[2] = 1 \/ at[2] <= Len(Dialogs[at[1]])

(* The deferred step of process leaves i.i and i.j in that range            *)
(* (iter.go:138-143).                                                       *)
LEMMA AdvancedTyped ==
    ASSUME request \in Requests, AtTyped, at' = Advanced, UNCHANGED request
    PROVE  AtTyped' /\ Dialogs' = Dialogs
<1>1. Dialogs' = Dialogs
  BY DEF Dialogs
<1>2. at = <<at[1], at[2]>> /\ at[1] \in 1 .. Len(Dialogs) + 1 /\ at[2] \in Nat \ {0}
      /\ Len(Dialogs) \in Nat
  BY RequestTyped DEF AtTyped
<1>3. CASE at[1] <= Len(Dialogs) /\ at[2] + 1 > Len(Dialogs[at[1]])
  <2>1. at' = <<at[1] + 1, 1>>
    BY <1>3 DEF Advanced
  <2>. QED
    BY <1>1, <1>2, <1>3, <2>1 DEF AtTyped
<1>4. CASE ~(at[1] <= Len(Dialogs) /\ at[2] + 1 > Len(Dialogs[at[1]]))
  <2>1. at' = <<at[1], at[2] + 1>>
    BY <1>4 DEF Advanced
  <2>2. at[1] <= Len(Dialogs) => at[2] + 1 <= Len(Dialogs[at[1]])
    BY <1>2, <1>4, RequestTyped
  <2>. QED
    BY <1>1, <1>2, <2>1, <2>2 DEF AtTyped
<1>. QED
  BY <1>3, <1>4

(* It passes the message it was at, and no other (iter.go:138-143).         *)
LEMMA AdvancedPasses ==
    ASSUME request \in Requests, AtTyped, at' = Advanced, NEW p \in Positions
    PROVE  Passed(p)' <=> Passed(p) \/ p = at
<1>1. /\ at = <<at[1], at[2]>> /\ at[1] \in 1 .. Len(Dialogs) + 1 /\ at[2] \in Nat \ {0}
      /\ Len(Dialogs) \in Nat
  BY RequestTyped DEF AtTyped
<1>2. /\ p = <<p[1], p[2]>> /\ p[1] \in 1 .. Len(Dialogs) /\ p[2] \in 1 .. Len(Dialogs[p[1]])
      /\ Len(Dialogs[p[1]]) \in Nat
  BY PositionsAre, RequestTyped
<1>3. p = at <=> p[1] = at[1] /\ p[2] = at[2]
  BY <1>1, <1>2
<1>4. CASE at[1] <= Len(Dialogs) /\ at[2] + 1 > Len(Dialogs[at[1]])
  <2>1. at' = <<at[1] + 1, 1>>
    BY <1>4 DEF Advanced
  <2>2. Passed(p)' <=> p[1] < at[1] + 1 \/ (p[1] = at[1] + 1 /\ p[2] < 1)
    BY <2>1 DEF Passed
  <2>3. p[1] = at[1] => p[2] < at[2] + 1
    BY <1>1, <1>2, <1>4
  <2>. QED
    BY <1>1, <1>2, <1>3, <2>2, <2>3 DEF Passed
<1>5. CASE ~(at[1] <= Len(Dialogs) /\ at[2] + 1 > Len(Dialogs[at[1]]))
  <2>1. at' = <<at[1], at[2] + 1>>
    BY <1>5 DEF Advanced
  <2>2. Passed(p)' <=> p[1] < at[1] \/ (p[1] = at[1] /\ p[2] < at[2] + 1)
    BY <2>1 DEF Passed
  <2>. QED
    BY <1>1, <1>2, <1>3, <2>2 DEF Passed
<1>. QED
  BY <1>4, <1>5

(* What process finds: a message, or the end, or a dialog without messages, *)
(* which it takes for the end (iter.go:145-150).                            *)
LEMMA AtPosition ==
    ASSUME request \in Requests, AtTyped
    PROVE  /\ ~AtEnd <=> at \in Positions
           /\ ~AtEnd => Msg \in Msgs
           /\ ~Passed(at)
           /\ AtEnd => \/ at[1] = Len(Dialogs) + 1
                       \/ at[1] \in DOMAIN Dialogs /\ Dialogs[at[1]] = <<>>
<1>1. /\ at = <<at[1], at[2]>> /\ at[1] \in 1 .. Len(Dialogs) + 1 /\ at[2] \in Nat \ {0}
      /\ Len(Dialogs) \in Nat
  BY RequestTyped DEF AtTyped
<1>2. ~Passed(at)
  BY <1>1 DEF Passed
<1>3. ~AtEnd <=> at[1] \in 1 .. Len(Dialogs) /\ at[2] \in 1 .. Len(Dialogs[at[1]])
  BY <1>1, RequestTyped DEF AtEnd
<1>4. ~AtEnd <=> at \in Positions
  BY <1>1, <1>3, PositionsAre
<1>5. ~AtEnd => Msg \in Msgs
  <2> SUFFICES ASSUME ~AtEnd PROVE Msg \in Msgs
    OBVIOUS
  <2>1. Dialogs[at[1]] \in Seq(Msgs) /\ at[2] \in DOMAIN Dialogs[at[1]]
    BY <1>3, RequestTyped
  <2>. QED
    BY <2>1 DEF Msg
<1>6. ASSUME AtEnd, at[1] \in DOMAIN Dialogs PROVE Dialogs[at[1]] = <<>>
  <2>1. Dialogs[at[1]] \in Seq(Msgs) /\ at[2] > Len(Dialogs[at[1]]) /\ at[1] <= Len(Dialogs)
    BY <1>1, <1>6, RequestTyped DEF AtEnd
  <2>2. Len(Dialogs[at[1]]) = 0
    BY <1>1, <2>1 DEF AtTyped
  <2>. QED
    BY <2>1, <2>2
<1>. QED
  BY <1>1, <1>2, <1>4, <1>5, <1>6, RequestTyped

(* Types; no progress is ever stored but the empty one, as nothing calls    *)
(* Finish (iter.go:284-289, dl.go:183-193); what waits on i.elem has a      *)
(* file, each message once.                                                 *)
Base ==
    /\ TypeOK
    /\ request \in Requests
    /\ finished = {} /\ key \subseteq {{}}
    /\ IsFiniteSet(active)
    /\ Distinct(elem)
    /\ \A m \in Range(elem) : Class[m] = "media"

(* What a step has to show to keep Base.                                    *)
LEMMA BaseKept ==
    ASSUME Base, UNCHANGED request,
           pc' \in {"idle", "next", "process", "value", "ended"}, AtTyped', err' \in BOOLEAN,
           elem' \in Seq(Msgs), Len(elem') <= 10, Distinct(elem'),
           \A m \in Range(elem') : Class[m] = "media",
           active' \in SUBSET (Msgs \X Nat),
           IsFiniteSet(active'), Cardinality(active') <= Limit,
           late' \in SUBSET (Msgs \X Nat \X Nat), swallowed' \in SUBSET Positions,
           started' \in [Msgs -> Nat], failed' \in SUBSET (Msgs \X Nat), whole' \in SUBSET Msgs,
           finished' = {}, key' \subseteq {{}},
           rerr' \in {"none", "nil", "error"}, canceled' \in BOOLEAN,
           faults' \in Nat, runs' \in Nat
    PROVE  Base'
<1>1. Dialogs' = Dialogs /\ Class' = Class /\ Positions' = Positions
  BY DEF Dialogs, Class, Positions
<1>2. finished' \in SUBSET Positions' /\ key' \in SUBSET (SUBSET Positions')
  OBVIOUS
<1>3. TypeOK'
  BY <1>1, <1>2 DEF TypeOK, AtTyped
<1>. QED
  BY <1>1, <1>3 DEF Base

(* The types of the variables, as the steps need them.                      *)
LEMMA BaseTyped ==
    ASSUME Base
    PROVE  /\ AtTyped
           /\ pc \in {"idle", "next", "process", "value", "ended"} /\ err \in BOOLEAN
           /\ elem \in Seq(Msgs) /\ Len(elem) <= 10
           /\ active \in SUBSET (Msgs \X Nat) /\ IsFiniteSet(active)
           /\ Cardinality(active) \in Nat /\ Cardinality(active) <= Limit /\ Limit \in Nat \ {0}
           /\ started \in [Msgs -> Nat] /\ failed \in SUBSET (Msgs \X Nat)
           /\ late \in SUBSET (Msgs \X Nat \X Nat) /\ swallowed \in SUBSET Positions
           /\ whole \in SUBSET Msgs
           /\ rerr \in {"none", "nil", "error"} /\ canceled \in BOOLEAN
           /\ faults \in Nat /\ runs \in Nat
<1>1. Cardinality(active) \in Nat
  BY FS_CardinalityType DEF Base
<1>. QED
  BY <1>1, IterAssumption DEF Base, TypeOK, AtTyped

(* The album of the message process is at: its files fit into i.elem        *)
(* (iter.go:103,244-256).                                                   *)
LEMMA AlbumFilesTyped ==
    ASSUME Base, ~AtEnd, NEW lost
    PROVE  /\ AlbumFiles(lost) \in Seq(Msgs) /\ Len(AlbumFiles(lost)) <= 10
           /\ Distinct(AlbumFiles(lost))
           /\ Range(AlbumFiles(lost)) = {m \in Range(Album[Msg]) : Kept(m, lost)}
           /\ Range(AlbumFiles(lost)) \subseteq Msgs
<1>1. request \in Requests /\ AtTyped
  BY BaseTyped DEF Base
<1>2. Msg \in Msgs
  BY <1>1, AtPosition
<1>3. Album[Msg] \in Seq(Msgs) /\ Len(Album[Msg]) <= 10 /\ Distinct(Album[Msg])
  BY <1>1, <1>2, RequestTyped
<1> DEFINE a == Album[Msg]
<1> HIDE DEF a
<1>4. a \in Seq(Msgs) /\ Len(a) <= 10 /\ Distinct(a)
  BY <1>3 DEF a
<1>5. /\ FilesOf(a, lost) \in Seq(Msgs) /\ Len(FilesOf(a, lost)) <= Len(a)
      /\ Distinct(FilesOf(a, lost))
      /\ Range(FilesOf(a, lost)) = {m \in Range(a) : Kept(m, lost)}
  BY <1>4, AlbumsFiles
<1>6. Len(FilesOf(a, lost)) \in Nat /\ Len(a) \in Nat
  BY <1>4, <1>5
<1>7. Range(FilesOf(a, lost)) \subseteq Msgs
  BY <1>5 DEF Range
<1>. QED
  BY <1>4, <1>5, <1>6, <1>7 DEF a, AlbumFiles

(* processGrouped sets i.err for a message without media, or for a file     *)
(* that could not be created; what is left of the album is on i.elem; and   *)
(* an album that could not be had is passed in silence (iter.go:244-256,    *)
(* 174-179,217-239).                                                        *)
LEMMA GroupedFiles ==
    ASSUME Base, NextGrouped
    PROVE  /\ UNCHANGED <<request, finished, active, late, started, failed, key, rerr,
                          canceled, runs>>
           /\ ~AtEnd /\ ~err /\ Grouped /\ elem = <<>> /\ at' = Advanced
           /\ pc = "process" /\ pc' = "value" /\ err' \in BOOLEAN
           /\ faults' \in Nat /\ faults' >= faults
           /\ \/ /\ swallowed' = swallowed
                 /\ AlbumError => err'
                 /\ \E lost \in SUBSET Range(Album[Msg]) :
                       /\ elem' = AlbumFiles(lost) /\ whole' = whole \ Range(elem')
                       /\ IF lost = {} THEN err' = AlbumError ELSE err' /\ faults' > 0
              \/ /\ swallowed' = swallowed \cup {at}
                 /\ UNCHANGED <<err, elem, whole>>
<1>0. faults \in Nat /\ faults + 1 \in Nat /\ faults + 1 >= faults /\ faults >= faults
      /\ faults + 1 > 0 /\ err \in BOOLEAN
  BY BaseTyped
<1>1. /\ UNCHANGED <<request, finished, active, late, started, failed, key, rerr, canceled,
                     runs>>
      /\ ~AtEnd /\ ~err /\ Grouped /\ elem = <<>> /\ at' = Advanced
      /\ pc = "process" /\ pc' = "value"
  BY DEF NextGrouped, Processing, jobs, call
<1>2. CASE swallowed' = swallowed \cup {at} /\ Failing /\ UNCHANGED <<err, whole, elem>>
  BY <1>0, <1>1, <1>2 DEF Failing
<1>3. ASSUME NEW lost \in SUBSET Range(Album[Msg]), UNCHANGED swallowed,
             \/ lost = {} /\ err' = AlbumError /\ UNCHANGED faults
             \/ lost # {} /\ faults' = faults + 1 /\ err' = TRUE,
             whole' = whole \ Range(AlbumFiles(lost)),
             elem' = elem \o AlbumFiles(lost)
      PROVE  /\ elem' = AlbumFiles(lost) /\ whole' = whole \ Range(elem')
             /\ IF lost = {} THEN err' = AlbumError ELSE err' /\ faults' > 0
             /\ faults' \in Nat /\ faults' >= faults
             /\ err' \in BOOLEAN /\ (AlbumError => err')
  <2>1. elem' = AlbumFiles(lost)
    <3>1. AlbumFiles(lost) \in Seq(Msgs)
      BY <1>1, AlbumFilesTyped
    <3>2. \A s \in Seq(Msgs) : <<>> \o s = s
      OBVIOUS
    <3>. QED
      BY <1>1, <1>3, <3>1, <3>2
  <2>2. AlbumError \in BOOLEAN
    BY DEF AlbumError
  <2>3. IF lost = {} THEN err' = AlbumError ELSE err' /\ faults' > 0
    BY <1>0, <1>3
  <2>4. faults' \in Nat /\ faults' >= faults
    BY <1>0, <1>3
  <2>5. err' = AlbumError \/ err' = TRUE
    BY <1>3
  <2>6. err' \in BOOLEAN /\ (AlbumError => err')
    BY <2>2, <2>5
  <2>7. whole' = whole \ Range(elem')
    BY <1>3, <2>1
  <2>. QED
    BY <2>1, <2>3, <2>4, <2>6, <2>7
<1>4. \/ swallowed' = swallowed \cup {at} /\ Failing /\ UNCHANGED <<err, whole, elem>>
      \/ /\ UNCHANGED swallowed
         /\ \E lost \in SUBSET Range(Album[Msg]) :
               /\ \/ lost = {} /\ err' = AlbumError /\ UNCHANGED faults
                  \/ lost # {} /\ faults' = faults + 1 /\ err' = TRUE
               /\ whole' = whole \ Range(AlbumFiles(lost))
               /\ elem' = elem \o AlbumFiles(lost)
  BY DEF NextGrouped
<1>. QED
  BY <1>1, <1>2, <1>3, <1>4

(* What Next leaves as it is, and what it puts on i.elem: nothing, one      *)
(* message whose file is created again, or the files of an album            *)
(* (iter.go:108-132,214-256).                                               *)
LEMMA NextFiles ==
    ASSUME Base, NextStep \/ NextFails
    PROVE  /\ UNCHANGED <<request, finished, active, late, started, failed, key, rerr,
                          canceled, runs>>
           /\ at' = at \/ (at' = Advanced /\ elem = <<>> /\ pc = "process")
           /\ pc' \in {"next", "process", "value", "ended"} /\ pc \in {"next", "process"}
           /\ \/ swallowed' = swallowed
              \/ swallowed' = swallowed \cup {at} /\ ~AtEnd
           /\ err' \in BOOLEAN /\ faults' \in Nat /\ faults' >= faults
           /\ \/ elem' = elem /\ whole' = whole
              \/ /\ ~AtEnd /\ elem = <<>> /\ elem' = <<Msg>> /\ whole' = whole \ {Msg}
                 /\ Class[Msg] = "media" /\ Msg \in Msgs /\ ~Grouped
              \/ /\ ~AtEnd /\ elem = <<>> /\ \E lost : elem' = AlbumFiles(lost)
                 /\ whole' = whole \ Range(elem') /\ Grouped
<1>0. /\ request \in Requests /\ AtTyped /\ faults \in Nat /\ err \in BOOLEAN
      /\ faults + 1 \in Nat /\ faults + 1 >= faults /\ faults >= faults
  BY BaseTyped DEF Base
<1>1. CASE NextEarly
  BY <1>0, <1>1 DEF NextEarly, jobs, call
<1>2. CASE NextEnd
  BY <1>0, <1>2 DEF NextEnd, Processing, jobs, call
<1>3. CASE NextSkip
  BY <1>0, <1>3 DEF NextSkip, Processing, jobs, call
<1>4. CASE NextFails
  BY <1>0, <1>4 DEF NextFails, Failing, Processing, jobs, call
<1>5. CASE NextSingle
  <2>1. Msg \in Msgs
    BY <1>0, <1>5, AtPosition DEF NextSingle
  <2>2. elem = <<>> => Append(elem, Msg) = <<Msg>>
    OBVIOUS
  <2>. QED
    BY <1>0, <1>5, <2>1, <2>2 DEF NextSingle, Processing, jobs, call
<1>6. CASE NextGrouped
  BY <1>6, GroupedFiles
<1>. QED
  BY <1>1, <1>2, <1>3, <1>4, <1>5, <1>6 DEF NextStep

(* Next keeps the types (iter.go:108-256).                                  *)
LEMMA BaseNext == ASSUME Base, NextStep \/ NextFails PROVE Base'
<1>0. request \in Requests /\ AtTyped /\ finished = {} /\ key \subseteq {{}}
  BY BaseTyped DEF Base
<1>1. AtTyped'
  <2>1. CASE at' = Advanced
    BY <1>0, <2>1, NextFiles, AdvancedTyped
  <2>2. CASE at' = at
    BY <1>0, <2>2, NextFiles DEF AtTyped, Dialogs
  <2>. QED
    BY <2>1, <2>2, NextFiles
<1>2. /\ elem' \in Seq(Msgs) /\ Len(elem') <= 10 /\ Distinct(elem')
      /\ \A m \in Range(elem') : Class[m] = "media"
      /\ whole' \in SUBSET Msgs
  <2>1. CASE elem' = elem /\ whole' = whole
    BY <2>1, BaseTyped DEF Base
  <2>2. CASE /\ elem' = <<Msg>> /\ whole' = whole \ {Msg}
             /\ Class[Msg] = "media" /\ Msg \in Msgs
    BY <2>2, BaseTyped DEF Distinct, Range
  <2>3. ASSUME NEW lost, ~AtEnd, elem' = AlbumFiles(lost), whole' = whole \ Range(elem')
        PROVE  /\ elem' \in Seq(Msgs) /\ Len(elem') <= 10 /\ Distinct(elem')
               /\ \A m \in Range(elem') : Class[m] = "media"
               /\ whole' \in SUBSET Msgs
    BY <2>3, BaseTyped, AlbumFilesTyped DEF Kept
  <2>. QED
    BY <2>1, <2>2, <2>3, NextFiles
<1>3. late' \in SUBSET (Msgs \X Nat \X Nat) /\ swallowed' \in SUBSET Positions
  <2>1. ~AtEnd => at \in Positions
    BY <1>0, AtPosition
  <2>. QED
    BY <2>1, NextFiles, BaseTyped
<1>. QED
  BY <1>0, <1>1, <1>2, <1>3, NextFiles, BaseTyped, BaseKept

(* Value takes one message off i.elem, and its download begins              *)
(* (iter.go:258-260).                                                       *)
LEMMA ValueTakes ==
    ASSUME Base, Value
    PROVE  /\ UNCHANGED <<request, at, err, finished, swallowed, late, failed, whole, key,
                          rerr, canceled, runs, faults>>
           /\ pc = "value" /\ pc' = "next"
           /\ \E m \in Msgs :
                 /\ m \in Range(elem) /\ Class[m] = "media"
                 /\ Range(elem') = Range(elem) \ {m}
                 /\ elem' \in Seq(Msgs) /\ Len(elem') <= 10 /\ Distinct(elem')
                 /\ active' = active \cup {<<m, started[m]>>}
                 /\ started' = [started EXCEPT ![m] = @ + 1]
           /\ Cardinality(active) < Limit
<1>1. /\ UNCHANGED <<request, at, err, finished, swallowed, late, failed, whole, key, rerr,
                     canceled, runs, faults>>
      /\ pc = "value" /\ pc' = "next" /\ elem # <<>> /\ elem' = Tail(elem)
      /\ Cardinality(active) < Limit
  BY DEF Value, call
<1>2. elem \in Seq(Msgs) /\ Len(elem) <= 10 /\ Distinct(elem) /\ DOMAIN elem = 1 .. Len(elem)
      /\ Len(elem) \in Nat \ {0} /\ \A m \in Range(elem) : Class[m] = "media"
  BY <1>1, BaseTyped DEF Base
<1> DEFINE m == Head(elem)
           s == Tail(elem)
<1>3. /\ m = elem[1] /\ m \in Msgs /\ s \in Seq(Msgs) /\ Len(s) = Len(elem) - 1
      /\ DOMAIN s = 1 .. Len(elem) - 1 /\ \A k \in 1 .. Len(elem) - 1 : s[k] = elem[k + 1]
  BY <1>1, <1>2
<1>4. active' = active \cup {<<m, started[m]>>} /\ started' = [started EXCEPT ![m] = @ + 1]
  BY DEF Value
<1> HIDE DEF m, s
<1>5. m \in Range(elem)
  BY <1>2, <1>3 DEF Range
<1>6. Distinct(s) /\ Len(s) <= 10
  <2>1. ASSUME NEW k \in DOMAIN s, NEW l \in DOMAIN s, s[k] = s[l] PROVE k = l
    <3>1. k + 1 \in DOMAIN elem /\ l + 1 \in DOMAIN elem /\ k \in Nat /\ l \in Nat
      BY <1>2, <1>3
    <3>2. elem[k + 1] = elem[l + 1]
      BY <1>3, <2>1
    <3>3. k + 1 = l + 1
      BY <1>2, <3>1, <3>2 DEF Distinct
    <3>. QED
      BY <3>1, <3>3
  <2>. QED
    BY <1>2, <1>3, <2>1 DEF Distinct
<1>7. Range(s) = Range(elem) \ {m}
  <2>1. ASSUME NEW x \in Range(s) PROVE x \in Range(elem) \ {m}
    <3>1. PICK k \in 1 .. Len(elem) - 1 : s[k] = x
      BY <1>3 DEF Range
    <3>2. x = elem[k + 1] /\ k + 1 \in DOMAIN elem /\ k + 1 # 1 /\ 1 \in DOMAIN elem
      BY <1>2, <1>3, <3>1
    <3>. QED
      BY <1>2, <1>3, <3>2 DEF Distinct, Range
  <2>2. ASSUME NEW x \in Range(elem) \ {m} PROVE x \in Range(s)
    <3>1. PICK k \in DOMAIN elem : elem[k] = x
      BY DEF Range
    <3>2. k # 1
      BY <1>3, <3>1
    <3>3. k - 1 \in 1 .. Len(elem) - 1 /\ k = (k - 1) + 1
      BY <1>2, <3>2
    <3>4. s[k - 1] = x /\ k - 1 \in DOMAIN s
      BY <1>3, <3>1, <3>3
    <3>. QED
      BY <3>4 DEF Range
  <2>. QED
    BY <2>1, <2>2
<1>. QED
  BY <1>1, <1>2, <1>3, <1>4, <1>5, <1>6, <1>7 DEF s

(* Every step keeps the types.                                              *)
LEMMA BaseStep == ASSUME Base, [Next]_vars PROVE Base'
<1>0. request \in Requests /\ finished = {} /\ key \subseteq {{}} /\ Distinct(elem)
      /\ \A m \in Range(elem) : Class[m] = "media"
  BY DEF Base
<1>1. CASE Run
  <2>1. Resumed = {}
    BY <1>0 DEF Resumed
  <2>2. /\ pc' = "next" /\ at' = <<1, 1>> /\ err' = FALSE /\ elem' = <<>> /\ active' = {}
        /\ started' = [m \in Msgs |-> 0] /\ failed' = {} /\ rerr' = "none"
        /\ canceled' = FALSE /\ finished' = {} /\ runs' = runs + 1
        /\ UNCHANGED <<request, whole, key, faults>>
    BY <1>1, <2>1 DEF Run
  <2>3. AtTyped'
    BY <1>0, <2>2, RequestTyped DEF AtTyped, Dialogs
  <2>4. IsFiniteSet(active') /\ Cardinality(active') <= Limit
    BY <2>2, FS_EmptySet, BaseTyped
  <2>5. elem' \in Seq(Msgs) /\ Len(elem') <= 10 /\ Distinct(elem') /\ Range(elem') = {}
    BY <2>2 DEF Distinct, Range
  <2>6. /\ pc' \in {"idle", "next", "process", "value", "ended"} /\ err' \in BOOLEAN
        /\ whole' \in SUBSET Msgs /\ finished' = {} /\ key' \subseteq {{}}
        /\ rerr' \in {"none", "nil", "error"} /\ canceled' \in BOOLEAN
        /\ faults' \in Nat /\ UNCHANGED request
    BY <1>0, <2>2, BaseTyped
  <2>8. runs' \in Nat /\ started' \in [Msgs -> Nat]
    BY <2>2, BaseTyped
  <2>9. active' \in SUBSET (Msgs \X Nat) /\ failed' \in SUBSET (Msgs \X Nat)
    BY <2>2
  <2>7. \A m \in Range(elem') : Class[m] = "media"
    BY <2>5
  <2>10. late' \in SUBSET (Msgs \X Nat \X Nat) /\ swallowed' \in SUBSET Positions
    <3>1. {<<a[1], a[2], runs>> : a \in active} \in SUBSET (Msgs \X Nat \X Nat)
      BY BaseTyped
    <3>2. swallowed' = {} /\ late' \in {{}, late \cup {<<a[1], a[2], runs>> : a \in active}}
      BY <1>1 DEF Run
    <3>. QED
      BY <3>1, <3>2, BaseTyped
  <2>. QED
    BY <2>3, <2>4, <2>5, <2>6, <2>7, <2>8, <2>9, <2>10, BaseKept
<1>2. CASE RunFails
  <2>1. /\ UNCHANGED <<request, pc, at, err, elem, finished, swallowed, active, late, started,
                       failed, whole, key, canceled>>
        /\ rerr' = "error" /\ runs' = runs + 1 /\ faults' = faults + 1
    BY <1>2 DEF RunFails, iter, jobs
  <2>2. AtTyped'
    BY <2>1, BaseTyped DEF AtTyped, Dialogs
  <2>3. rerr' \in {"none", "nil", "error"} /\ runs' \in Nat /\ faults' \in Nat
    BY <2>1, BaseTyped
  <2>4. /\ pc' \in {"idle", "next", "process", "value", "ended"} /\ err' \in BOOLEAN
        /\ elem' \in Seq(Msgs) /\ Len(elem') <= 10 /\ Distinct(elem')
        /\ \A m \in Range(elem') : Class[m] = "media"
        /\ whole' \in SUBSET Msgs /\ finished' = {} /\ key' \subseteq {{}}
        /\ canceled' \in BOOLEAN /\ UNCHANGED request
    BY <1>0, <2>1, BaseTyped
  <2>5. /\ active' \in SUBSET (Msgs \X Nat) /\ IsFiniteSet(active')
        /\ Cardinality(active') <= Limit
        /\ late' \in SUBSET (Msgs \X Nat \X Nat) /\ swallowed' \in SUBSET Positions
        /\ started' \in [Msgs -> Nat] /\ failed' \in SUBSET (Msgs \X Nat)
    BY <2>1, BaseTyped
  <2>. QED
    BY <2>2, <2>3, <2>4, <2>5, BaseKept
<1>3. CASE NextStep \/ NextFails
  BY <1>3, BaseNext
<1>4. CASE Value
  <2>1. PICK m \in Msgs :
           /\ Range(elem') = Range(elem) \ {m}
           /\ elem' \in Seq(Msgs) /\ Len(elem') <= 10 /\ Distinct(elem')
           /\ active' = active \cup {<<m, started[m]>>}
           /\ started' = [started EXCEPT ![m] = @ + 1]
    BY <1>4, ValueTakes
  <2>2. started' \in [Msgs -> Nat] /\ started[m] \in Nat
    BY <2>1, BaseTyped
  <2>3. /\ active' \in SUBSET (Msgs \X Nat) /\ IsFiniteSet(active')
    <3>1. <<m, started[m]>> \in Msgs \X Nat
      BY <2>2
    <3> DEFINE a == <<m, started[m]>>
    <3>2. a \in Msgs \X Nat /\ active' = active \cup {a}
      BY <2>1, <3>1
    <3> HIDE DEF a
    <3>3. IsFiniteSet(active')
      BY <3>2, BaseTyped, FS_AddElement
    <3>. QED
      BY <3>2, <3>3, BaseTyped
  <2>4. \/ Cardinality(active') = Cardinality(active)
        \/ Cardinality(active') = Cardinality(active) + 1
    BY <2>1, BaseTyped, FS_AddElement
  <2>5. Cardinality(active') <= Limit
    BY <1>4, <2>4, ValueTakes, BaseTyped
  <2>6. AtTyped'
    BY <1>4, ValueTakes, BaseTyped DEF AtTyped, Dialogs
  <2>. QED
    BY <1>0, <1>4, <2>1, <2>2, <2>3, <2>5, <2>6, ValueTakes, BaseTyped, BaseKept
<1>5. ASSUME NEW a \in active, OnDone(a) PROVE Base'
  <2>1. UNCHANGED <<request, pc, at, err, elem, finished, swallowed, late, started, key,
                    canceled, runs>>
        /\ active' = active \ {a}
    BY <1>5 DEF OnDone, iter
  <2>2. /\ active' \in SUBSET (Msgs \X Nat) /\ IsFiniteSet(active')
    BY <2>1, BaseTyped, FS_RemoveElement
  <2>3. Cardinality(active') = Cardinality(active) - 1
    BY <2>1, BaseTyped, FS_RemoveElement
  <2>4. a \in Msgs \X Nat /\ a[1] \in Msgs
    BY BaseTyped
  <2>5. whole' \in SUBSET Msgs /\ failed' \in SUBSET (Msgs \X Nat)
        /\ rerr' \in {"none", "nil", "error"} /\ faults' \in Nat
    BY <1>5, <2>4, BaseTyped DEF OnDone
  <2>6. AtTyped'
    BY <2>1, BaseTyped DEF AtTyped, Dialogs
  <2>7. Cardinality(active') <= Limit
    BY <2>3, BaseTyped
  <2>. QED
    BY <1>0, <2>1, <2>2, <2>5, <2>6, <2>7, BaseTyped, BaseKept
<1>6. CASE Cancel
  BY <1>0, <1>6, BaseTyped, BaseKept DEF Cancel, iter, jobs, AtTyped, Dialogs
<1>7. CASE Return
  <2>1. /\ UNCHANGED <<request, at, err, elem, finished, swallowed, active, late, started,
                       failed, whole, canceled, runs>>
        /\ pc' = "idle"
    BY <1>7 DEF Return, iter, jobs
  <2>2. key' \subseteq {{}} /\ rerr' \in {"none", "nil", "error"} /\ faults' \in Nat
    BY <1>0, <1>7, BaseTyped DEF Return, Saved
  <2>3. AtTyped'
    BY <2>1, BaseTyped DEF AtTyped, Dialogs
  <2>. QED
    BY <1>0, <2>1, <2>2, <2>3, BaseTyped, BaseKept
<1>8. CASE UNCHANGED vars
  BY <1>0, <1>8, BaseTyped, BaseKept DEF vars, iter, jobs, call, AtTyped, Dialogs
<1>9. ASSUME NEW a \in late, OnDoneLate(a) PROVE Base'
  <2>1. /\ UNCHANGED <<request, pc, at, err, elem, finished, swallowed, active, started, failed,
                       key, rerr, canceled, runs, faults>>
        /\ late' = late \ {a} /\ whole' \in {whole, whole \cup {a[1]}}
    BY <1>9 DEF OnDoneLate, iter, call
  <2>2. a[1] \in Msgs
    BY BaseTyped
  <2>3. whole' \in SUBSET Msgs /\ late' \in SUBSET (Msgs \X Nat \X Nat)
    BY <2>1, <2>2, BaseTyped
  <2>4. AtTyped'
    BY <2>1, BaseTyped DEF AtTyped, Dialogs
  <2>. QED
    BY <1>0, <2>1, <2>3, <2>4, BaseTyped, BaseKept
<1>. QED
  BY <1>1, <1>2, <1>3, <1>4, <1>5, <1>6, <1>7, <1>8, <1>9 DEF Next

(* Before the first run the types hold.                                     *)
LEMMA BaseInit == Init => Base
<1> SUFFICES ASSUME Init PROVE Base
  OBVIOUS
<1>1. /\ request \in Requests /\ pc = "idle" /\ at = <<1, 1>> /\ err = FALSE /\ elem = <<>>
      /\ finished = {} /\ active = {} /\ started = [m \in Msgs |-> 0] /\ failed = {}
      /\ whole = {} /\ key = {} /\ rerr = "none" /\ canceled = FALSE /\ faults = 0 /\ runs = 0
      /\ late = {} /\ swallowed = {}
  BY DEF Init
<1>2. AtTyped
  BY <1>1, RequestTyped DEF AtTyped
<1>3. IsFiniteSet(active) /\ Cardinality(active) <= Limit
  BY <1>1, FS_EmptySet, IterAssumption
<1>4. elem \in Seq(Msgs) /\ Len(elem) <= 10 /\ Distinct(elem) /\ Range(elem) = {}
  BY <1>1 DEF Distinct, Range
<1>5. TypeOK
  BY <1>1, <1>2, <1>3, <1>4 DEF TypeOK, AtTyped
<1>. QED
  BY <1>1, <1>3, <1>4, <1>5 DEF Base

-----------------------------------------------------------------------------
(* While the loop goes on, it has passed no dialog without messages.        *)
Fresh == pc \in {"next", "process", "value"} => \A d \in 1 .. at[1] - 1 : Dialogs[d] # <<>>

(* So the message it is at is one the iteration reaches (iter.go:146-150).  *)
LEMMA FreshReached ==
    ASSUME Base, Fresh, pc = "process", ~AtEnd
    PROVE  at \in Reached
<1>1. request \in Requests /\ AtTyped
  BY BaseTyped DEF Base
<1>2. at \in Positions
  BY <1>1, AtPosition
<1>3. at[1] \in 1 .. Len(Dialogs) /\ at[2] \in 1 .. Len(Dialogs[at[1]])
  BY <1>1, <1>2, PositionsAre
<1>4. Dialogs[at[1]] # <<>>
  BY <1>1, <1>3, RequestTyped
<1>5. \A d \in 1 .. at[1] : Dialogs[d] # <<>>
  <2> SUFFICES ASSUME NEW d \in 1 .. at[1] PROVE Dialogs[d] # <<>>
    OBVIOUS
  <2>1. d = at[1] \/ d \in 1 .. at[1] - 1
    BY <1>1, <1>3, RequestTyped
  <2>. QED
    BY <1>4, <2>1 DEF Fresh
<1>. QED
  BY <1>2, <1>5 DEF Reached

(* At a dialog without messages process ends the loop (iter.go:145-148).    *)
LEMMA FreshStep == ASSUME Base, Fresh, [Next]_vars PROVE Fresh'
<1>1. request \in Requests /\ AtTyped /\ Dialogs' = Dialogs
  <2>1. request' = request
    BY DEF Next, vars, iter, jobs, call, Run, RunFails, NextStep, NextEarly, NextEnd, NextSkip,
           NextSingle, NextGrouped, NextFails, Value, OnDone, OnDoneLate, Cancel, Return
  <2>. QED
    BY <2>1, BaseTyped DEF Base, Dialogs
<1>2. CASE Run
  <2>1. at' = <<1, 1>>
    BY <1>2 DEF Run
  <2>. QED
    BY <2>1 DEF Fresh
<1>3. CASE NextStep \/ NextFails
  <2>1. CASE at' = at
    BY <1>1, <1>3, <2>1, NextFiles DEF Fresh
  <2>2. CASE at' # at /\ AtEnd
    <3>1. pc' = "ended"
      BY <1>3, <2>2 DEF NextStep, NextFails, NextEarly, NextEnd, NextSkip, NextSingle,
                        NextGrouped
    <3>. QED
      BY <3>1 DEF Fresh
  <2>3. CASE at' # at /\ ~AtEnd
    <3>0. at' = Advanced
      BY <1>3, <2>3, NextFiles
    <3>1. at \in Reached /\ pc = "process"
      BY <1>3, <2>3, NextFiles, FreshReached
    <3>2. \A d \in 1 .. at[1] : Dialogs[d] # <<>>
      BY <3>1 DEF Reached
    <3>3. at'[1] = at[1] \/ at'[1] = at[1] + 1
      BY <3>0 DEF Advanced
    <3>4. at[1] \in Nat
      BY <1>1 DEF AtTyped
    <3>5. \A d \in 1 .. at'[1] - 1 : d \in 1 .. at[1]
      BY <3>3, <3>4
    <3>. QED
      BY <1>1, <3>2, <3>5 DEF Fresh
  <2>. QED
    BY <1>3, <2>1, <2>2, <2>3, NextFiles
<1>4. CASE Value
  BY <1>1, <1>4, ValueTakes DEF Fresh
<1>5. CASE UNCHANGED <<pc, at>> \/ pc' = "idle"
  BY <1>1, <1>5 DEF Fresh
<1>6. RunFails \/ (\E a \in active : OnDone(a)) \/ (\E a \in late : OnDoneLate(a))
      \/ Cancel \/ Return \/ UNCHANGED vars
      => UNCHANGED <<pc, at>> \/ pc' = "idle"
  BY DEF RunFails, OnDone, OnDoneLate, Cancel, Return, vars, iter
<1>. QED
  BY <1>2, <1>3, <1>4, <1>5, <1>6 DEF Next

(* The request stays: its dialogs, albums and filters.                      *)
LEMMA RequestKept ==
    ASSUME [Next]_vars
    PROVE  /\ request' = request /\ Class' = Class /\ Reached' = Reached
           /\ \A p : MsgsAt(p)' = MsgsAt(p)
           /\ \A p : Texts(p)' = Texts(p)
<1>1. request' = request
  BY DEF Next, vars, iter, jobs, call, Run, RunFails, NextStep, NextEarly, NextEnd, NextSkip,
         NextSingle, NextGrouped, NextFails, Value, OnDone, OnDoneLate, Cancel, Return
<1>2. Class' = Class /\ Dialogs' = Dialogs /\ Album' = Album
  BY <1>1 DEF Class, Dialogs, Album
<1>3. Reached' = Reached
  BY <1>2 DEF Reached, Positions
<1>4. \A p : MsgsAt(p)' = MsgsAt(p)
  BY <1>1, <1>2 DEF MsgsAt
<1>5. \A p : Texts(p)' = Texts(p)
  BY <1>2, <1>4 DEF Texts
<1>. QED
  BY <1>1, <1>2, <1>3, <1>4, <1>5

(* Once an album was asked for in vain the run hangs (iter.go:245-260).     *)
Hung == swallowed # {} => pc = "value" /\ elem = <<>>

LEMMA HungStep == ASSUME Base, Hung, [Next]_vars PROVE Hung'
<1>1. CASE Run
  BY <1>1 DEF Run, Hung
<1>2. CASE NextStep \/ NextFails
  <2>1. swallowed = {}
    BY <1>2, NextFiles DEF Hung
  <2>2. CASE NextGrouped
    BY <2>1, <2>2, GroupedFiles DEF Hung
  <2>3. CASE ~NextGrouped
    BY <1>2, <2>1, <2>3 DEF Hung, NextStep, NextEarly, NextEnd, NextSkip, NextSingle, NextFails
  <2>. QED
    BY <2>2, <2>3
<1>3. CASE RunFails \/ Value \/ (\E a \in active : OnDone(a)) \/ (\E a \in late : OnDoneLate(a))
           \/ Cancel \/ Return \/ UNCHANGED vars
  BY <1>3 DEF Hung, RunFails, Value, OnDone, OnDoneLate, Cancel, Return, vars, iter
<1>. QED
  BY <1>1, <1>2, <1>3 DEF Next

(* The step passes the position it was at, and no other.                    *)
Passing(p) == Passed(p)' <=> Passed(p) \/ p = at

(* Next either passes nothing that is reached, or it is at a message, with  *)
(* i.elem empty, and passes it: the files of the message or its album are   *)
(* then on i.elem unless i.err is set, and i.err is set for a message       *)
(* without media (iter.go:108-256).                                         *)
LEMMA NextPasses ==
    ASSUME Base, Fresh, Hung, NextStep \/ NextFails
    PROVE  /\ err => err'
           /\ \/ /\ \A p \in Reached : Passed(p)' <=> Passed(p)
                 /\ elem' = elem /\ swallowed' = swallowed
                 /\ err' => err \/ canceled
              \/ /\ at \in Reached
                 /\ \A p \in Reached : Passing(p)
                 /\ elem = <<>>
                 /\ Range(elem') \subseteq MsgsAt(at)
                 /\ \/ swallowed' = swallowed
                    \/ at \in swallowed' /\ swallowed \subseteq swallowed'
                 /\ ~err' /\ swallowed' = swallowed =>
                       Range(elem') = {m \in MsgsAt(at) : Class[m] = "media"}
                 /\ err' => err \/ faults' > 0 \/ canceled \/ Texts(at) # {}
                 /\ Texts(at) # {} => err' \/ at \in swallowed'
<1>0. /\ request \in Requests /\ AtTyped /\ faults \in Nat /\ err \in BOOLEAN /\ finished = {}
      /\ (pc = "process" /\ ~AtEnd => at \in Reached /\ Msg \in Msgs)
      /\ Reached \subseteq Positions
  BY BaseTyped, AtPosition, FreshReached DEF Base, Reached
<1>1. at' = Advanced => \A p \in Reached : Passing(p)
  BY <1>0, AdvancedPasses DEF Passing
<1>2. MsgsAt(at) = IF Grouped THEN Range(Album[Msg]) ELSE {Msg}
  BY DEF MsgsAt, Grouped, Msg
<1>3. Range(<<>>) = {} /\ Range(<<Msg>>) = {Msg}
  BY DEF Range
<1>4. CASE NextEarly
  <2>1. at' = at /\ elem' = elem /\ (err' => err \/ canceled) /\ (err => err')
        /\ swallowed' = swallowed
    BY <1>4 DEF NextEarly
  <2>. QED
    BY <2>1 DEF Passed
<1>5. CASE NextEnd
  <2>1. at' = Advanced /\ elem' = elem /\ elem = <<>> /\ err' = err /\ (AtEnd \/ err)
        /\ pc = "process" /\ swallowed' = swallowed
    BY <1>5 DEF NextEnd, Processing
  <2>2. CASE AtEnd
    <3>1. at \notin Reached
      BY <1>0, <2>2, AtPosition
    <3>. QED
      BY <1>1, <2>1, <3>1 DEF Passing
  <2>3. CASE ~AtEnd
    BY <1>0, <1>1, <1>3, <2>1, <2>3
  <2>. QED
    BY <2>2, <2>3
<1>6. CASE NextSkip
  <2>1. at' = Advanced /\ elem' = elem /\ elem = <<>> /\ err' = err /\ ~AtEnd /\ ~err
        /\ ~Grouped /\ Class[Msg] = "filtered" /\ pc = "process" /\ swallowed' = swallowed
    BY <1>0, <1>6 DEF NextSkip, Processing
  <2>2. Texts(at) = {} /\ {m \in MsgsAt(at) : Class[m] = "media"} = {}
    BY <1>2, <2>1 DEF Texts
  <2>. QED
    BY <1>0, <1>1, <1>3, <2>1, <2>2
<1>7. CASE NextFails
  <2>1. at' = Advanced /\ elem' = elem /\ elem = <<>> /\ err' = TRUE /\ ~AtEnd
        /\ (faults' > 0 \/ canceled) /\ pc = "process" /\ swallowed' = swallowed
    BY <1>0, <1>7 DEF NextFails, Failing, Processing
  <2>. QED
    BY <1>0, <1>1, <1>3, <2>1
<1>8. CASE NextSingle
  <2>1. at' = Advanced /\ elem = <<>> /\ ~AtEnd /\ ~err /\ ~Grouped
        /\ pc = "process" /\ swallowed' = swallowed
    BY <1>8 DEF NextSingle, Processing
  <2>2. MsgsAt(at) = {Msg}
    BY <1>2, <2>1
  <2>3. CASE Class[Msg] = "media"
    <3>1. elem' = <<Msg>> /\ err' = err
      <4>1. elem' = Append(<<>>, Msg) /\ err' = err
        BY <1>8, <2>1, <2>3 DEF NextSingle
      <4>. QED
        BY <4>1
    <3>2. Texts(at) = {}
      BY <2>2, <2>3 DEF Texts
    <3>3. Range(elem') = {m \in MsgsAt(at) : Class[m] = "media"}
      BY <1>3, <2>2, <2>3, <3>1
    <3>. QED
      BY <1>0, <1>1, <2>1, <2>2, <3>1, <3>2, <3>3
  <2>4. CASE Class[Msg] = "text"
    <3>1. elem' = elem /\ err' = TRUE
      BY <1>8, <2>4 DEF NextSingle
    <3>2. Texts(at) # {}
      BY <2>2, <2>4 DEF Texts
    <3>. QED
      BY <1>0, <1>1, <1>3, <2>1, <3>1, <3>2
  <2>. QED
    BY <1>8, <2>3, <2>4 DEF NextSingle
<1>9. CASE NextGrouped
  <2>1. at' = Advanced /\ elem = <<>> /\ ~AtEnd /\ ~err /\ Grouped /\ pc = "process"
    BY <1>9, GroupedFiles
  <2>2. MsgsAt(at) = Range(Album[Msg])
    BY <1>2, <2>1
  <2>3. ASSUME NEW lost \in SUBSET Range(Album[Msg]), elem' = AlbumFiles(lost),
               IF lost = {} THEN err' = AlbumError ELSE err' /\ faults' > 0,
               AlbumError => err', swallowed' = swallowed
        PROVE  /\ Range(elem') \subseteq MsgsAt(at)
               /\ ~err' => Range(elem') = {m \in MsgsAt(at) : Class[m] = "media"}
               /\ err' => faults' > 0 \/ Texts(at) # {}
               /\ Texts(at) # {} => err'
    <3>1. Range(elem') = {m \in MsgsAt(at) : Kept(m, lost)}
      BY <2>1, <2>2, <2>3, AlbumFilesTyped
    <3>2. AlbumError <=> Texts(at) # {}
      BY <2>2 DEF AlbumError, Texts
    <3>3. ~err' => Range(elem') = {m \in MsgsAt(at) : Class[m] = "media"}
      BY <2>3, <3>1 DEF Kept
    <3>4. Range(elem') \subseteq MsgsAt(at)
      BY <3>1
    <3>5. err' => faults' > 0 \/ Texts(at) # {}
      BY <2>3, <3>2
    <3>. QED
      BY <2>3, <3>2, <3>3, <3>4, <3>5
  <2>4. CASE swallowed' = swallowed \cup {at} /\ UNCHANGED <<err, elem>>
    <3>1. at \in Reached /\ ~err' /\ Range(elem') = {} /\ at \in swallowed'
          /\ swallowed \subseteq swallowed'
      BY <1>0, <1>3, <2>1, <2>4
    <3>2. swallowed' = swallowed => Range(elem') = {m \in MsgsAt(at) : Class[m] = "media"}
             \/ at \in swallowed
      BY <3>1
    <3>3. at \notin swallowed
      BY <2>1 DEF Hung
    <3>. QED
      BY <1>1, <2>1, <3>1, <3>2, <3>3
  <2>5. \/ swallowed' = swallowed \cup {at} /\ UNCHANGED <<err, elem>>
        \/ /\ swallowed' = swallowed /\ (AlbumError => err')
           /\ \E lost \in SUBSET Range(Album[Msg]) :
                 /\ elem' = AlbumFiles(lost)
                 /\ IF lost = {} THEN err' = AlbumError ELSE err' /\ faults' > 0
    BY <1>9, GroupedFiles
  <2>6. CASE /\ swallowed' = swallowed /\ (AlbumError => err')
             /\ \E lost \in SUBSET Range(Album[Msg]) :
                   /\ elem' = AlbumFiles(lost)
                   /\ IF lost = {} THEN err' = AlbumError ELSE err' /\ faults' > 0
    BY <1>0, <1>1, <2>1, <2>3, <2>6
  <2>. QED
    BY <2>4, <2>5, <2>6
<1>. QED
  BY <1>4, <1>5, <1>6, <1>7, <1>8, <1>9 DEF NextStep

(* No step but Next and the start of a run moves the iterator or sets       *)
(* i.err.                                                                   *)
LEMMA OtherSteps ==
    ASSUME Base, RunFails \/ Value \/ (\E a \in active : OnDone(a))
                 \/ (\E a \in late : OnDoneLate(a)) \/ Cancel \/ Return \/ UNCHANGED vars
    PROVE  /\ UNCHANGED <<request, at, err, swallowed>>
           /\ (\A p : Passed(p)' <=> Passed(p))
           /\ faults' >= faults /\ (canceled => canceled')
<1>1. UNCHANGED <<request, at, err, swallowed>>
  BY DEF RunFails, Value, OnDone, OnDoneLate, Cancel, Return, vars, iter
<1>2. faults' = faults \/ faults' = faults + 1
  BY DEF RunFails, Value, OnDone, OnDoneLate, Cancel, Return, vars
<1>3. canceled' = canceled \/ canceled' = TRUE
  BY DEF RunFails, Value, OnDone, OnDoneLate, Cancel, Return, vars, call
<1>. QED
  BY <1>1, <1>2, <1>3, BaseTyped DEF Passed

(* A run starts with a new iterator, that has passed nothing (dl.go:75-87). *)
LEMMA RunStarts ==
    ASSUME Base, Run
    PROVE  /\ err' = FALSE /\ elem' = <<>> /\ pc' = "next" /\ rerr' = "none"
           /\ started' = [m \in Msgs |-> 0]
           /\ \A p \in Reached : ~Passed(p)'
<1>1. /\ err' = FALSE /\ elem' = <<>> /\ pc' = "next" /\ at' = <<1, 1>> /\ rerr' = "none"
      /\ started' = [m \in Msgs |-> 0]
  BY DEF Run
<1>2. ASSUME NEW p \in Reached PROVE ~Passed(p)'
  <2>1. p[1] \in 1 .. Len(Dialogs) /\ p[2] \in 1 .. Len(Dialogs[p[1]])
    BY PositionsAre DEF Base, Reached
  <2>. QED
    BY <1>1, <2>1 DEF Passed
<1>. QED
  BY <1>1, <1>2

(* Every step keeps ErrorHasReason: i.err is set, and a message without     *)
(* media passed, in the same step (iter.go:108-113,157-179,244-256).        *)
LEMMA ReasonStep ==
    ASSUME Base, Fresh, Hung, ErrorHasReason, [Next]_vars
    PROVE  ErrorHasReason'
<1>0. Reached' = Reached /\ \A p : Texts(p)' = Texts(p)
  BY RequestKept
<1>1. CASE Run
  BY <1>0, <1>1, RunStarts DEF ErrorHasReason
<1>2. CASE NextStep \/ NextFails
  <2>1. canceled' = canceled /\ faults' >= faults /\ faults \in Nat /\ faults' \in Nat
    BY <1>2, NextFiles, BaseTyped
  <2>2. err => faults' > 0 \/ canceled' \/ \E p \in Reached : Passed(p) /\ Texts(p) # {}
    BY <2>1 DEF ErrorHasReason
  <2>3. \A p \in Reached : Passed(p) /\ Texts(p) # {} => err \/ p \in swallowed
    BY DEF ErrorHasReason
  <2>4. CASE /\ \A p \in Reached : Passed(p)' <=> Passed(p)
             /\ swallowed' = swallowed
             /\ err' => err \/ canceled
    BY <1>0, <1>2, <2>1, <2>2, <2>3, <2>4, NextPasses DEF ErrorHasReason
  <2>5. CASE /\ at \in Reached
             /\ \A p \in Reached : Passing(p)
             /\ swallowed \subseteq swallowed'
             /\ err' => err \/ faults' > 0 \/ canceled \/ Texts(at) # {}
             /\ Texts(at) # {} => err' \/ at \in swallowed'
    BY <1>0, <1>2, <2>1, <2>2, <2>3, <2>5, NextPasses DEF ErrorHasReason, Passing
  <2>. QED
    BY <1>2, <2>4, <2>5, NextPasses
<1>3. CASE RunFails \/ Value \/ (\E a \in active : OnDone(a))
           \/ (\E a \in late : OnDoneLate(a)) \/ Cancel \/ Return \/ UNCHANGED vars
  <2>1. faults' > 0 \/ ~(faults > 0)
    <3>1. faults' >= faults /\ faults \in Nat
      BY <1>3, OtherSteps, BaseTyped
    <3>2. faults' \in Nat
      BY BaseStep, BaseTyped, <1>3 DEF Base, TypeOK
    <3>. QED
      BY <3>1, <3>2
  <2>. QED
    BY <1>0, <1>3, <2>1, OtherSteps DEF ErrorHasReason
<1>. QED
  BY <1>1, <1>2, <1>3 DEF Next

-----------------------------------------------------------------------------
(* Run has returned nil only with nothing under way; and the loop over      *)
(* without i.err, or nil returned, means that i.elem is empty and all that  *)
(* is reached is passed.                                                    *)
AtLast ==
    /\ rerr = "nil" => pc = "idle" /\ ~err /\ active = {}
    /\ (pc = "ended" /\ ~err) \/ rerr = "nil" =>
          elem = <<>> /\ \A p \in Reached : Passed(p)

(* At the end of the iteration, or at a dialog without messages, all that   *)
(* is reached is passed (iter.go:145-148).                                  *)
LEMMA EndPasses ==
    ASSUME Base, AtEnd
    PROVE  \A p \in Reached : Passed(p)
<1> SUFFICES ASSUME NEW p \in Reached PROVE Passed(p)
  OBVIOUS
<1>1. request \in Requests /\ AtTyped /\ at[1] \in Nat /\ Len(Dialogs) \in Nat
  BY BaseTyped, RequestTyped DEF Base, AtTyped
<1>2. p[1] \in 1 .. Len(Dialogs) /\ \A d \in 1 .. p[1] : Dialogs[d] # <<>>
  BY <1>1, PositionsAre DEF Reached
<1>3. at[1] = Len(Dialogs) + 1 \/ (at[1] \in 1 .. Len(Dialogs) /\ Dialogs[at[1]] = <<>>)
  BY <1>1, AtPosition, RequestTyped
<1>. QED
  BY <1>1, <1>2, <1>3 DEF Passed

(* Every step keeps AtLast: the loop ends without an error only at the end  *)
(* of the iteration, and Run then waits for its downloads (iter.go:120-148, *)
(* dl.go:89-95,121).                                                        *)
LEMMA LastStep == ASSUME Base, Fresh, Hung, AtLast, [Next]_vars PROVE AtLast'
<1>0. Reached' = Reached
  BY RequestKept
<1>1. CASE Run
  BY <1>0, <1>1, RunStarts DEF AtLast
<1>2. CASE NextStep \/ NextFails
  <2>1. rerr # "nil" /\ rerr' = rerr
    BY <1>2, NextFiles DEF AtLast
  <2>2. ASSUME pc' = "ended", ~err' PROVE elem' = <<>> /\ \A p \in Reached : Passed(p)'
    <3>1. NextEnd /\ ~err
      BY <1>2, <2>2 DEF NextStep, NextFails, NextEarly, NextEnd, NextSkip, NextSingle,
                        NextGrouped, Processing
    <3>2. AtEnd /\ elem' = <<>>
      BY <3>1 DEF NextEnd, Processing
    <3>3. \A p \in Reached : Passed(p)
      BY <3>2, EndPasses
    <3>. QED
      BY <1>2, <3>2, <3>3, NextPasses DEF Passing
  <2>. QED
    BY <1>0, <2>1, <2>2 DEF AtLast
<1>3. CASE Value
  BY <1>3, ValueTakes DEF AtLast
<1>4. CASE Return
  <2>1. UNCHANGED <<err, elem, active>> /\ pc = "ended" /\ pc' = "idle"
        /\ (rerr' = "nil" => ~err /\ active = {})
    BY <1>4 DEF Return, iter, jobs
  <2>. QED
    BY <1>0, <1>4, <2>1, OtherSteps DEF AtLast
<1>5. CASE RunFails \/ (\E a \in active : OnDone(a)) \/ (\E a \in late : OnDoneLate(a))
           \/ Cancel \/ UNCHANGED vars
  <2>1. UNCHANGED <<pc, err, elem>> /\ (rerr' = rerr \/ rerr' = "error")
    BY <1>5 DEF RunFails, OnDone, OnDoneLate, Cancel, vars, iter, call
  <2>2. active = {} => active' = {}
    BY <1>5 DEF RunFails, OnDone, OnDoneLate, Cancel, vars, jobs
  <2>. QED
    BY <1>0, <1>5, <2>1, <2>2, OtherSteps DEF AtLast
<1>. QED
  BY <1>1, <1>2, <1>3, <1>4, <1>5 DEF Next

-----------------------------------------------------------------------------
(* 1 for yes, 0 for no.                                                     *)
Bit(b) == IF b THEN 1 ELSE 0

(* The positions passed at which message m is due.                          *)
Done(m) == {p \in Reached : Passed(p) /\ m \in MsgsAt(p)}

(* What was started of m in this run, and what of it waits on i.elem, is no *)
(* more than what was due at the positions passed, and no less if m has a   *)
(* file, i.err is not set and every album was had.                          *)
Counted(m) ==
    LET taken == started[m] + Bit(m \in Range(elem)) IN
    /\ taken <= Cardinality(Done(m))
    /\ ~err /\ swallowed = {} /\ Class[m] = "media" => taken = Cardinality(Done(m))

(* These positions can be counted.                                          *)
LEMMA DoneFinite ==
    ASSUME Base, NEW m
    PROVE  IsFiniteSet(Done(m)) /\ Cardinality(Done(m)) \in Nat
<1>1. IsFiniteSet(Reached)
  BY PositionsFinite DEF Base
<1>2. Done(m) \in SUBSET Reached
  BY DEF Done
<1>. QED
  BY <1>1, <1>2, FS_Subset, FS_CardinalityType

(* Next adds to the positions passed, for m, at most the one it was at,     *)
(* which was not passed before (iter.go:138-172).                           *)
LEMMA NextDone ==
    ASSUME Base, Fresh, Hung, NextStep \/ NextFails, [Next]_vars, NEW m
    PROVE  \/ /\ elem' = elem /\ Done(m)' = Done(m) /\ swallowed' = swallowed
           \/ /\ at \in Reached
              /\ elem = <<>>
              /\ Range(elem') \subseteq MsgsAt(at)
              /\ ~err' /\ swallowed' = {} =>
                    Range(elem') = {n \in MsgsAt(at) : Class[n] = "media"}
              /\ Cardinality(Done(m)') =
                    Cardinality(Done(m)) + Bit(m \in MsgsAt(at))
<1>0. Reached' = Reached /\ (\A p : MsgsAt(p)' = MsgsAt(p)) /\ ~Passed(at)
  BY RequestKept, AtPosition, BaseTyped DEF Base
<1>1. Done(m)' = {p \in Reached : Passed(p)' /\ m \in MsgsAt(p)}
  BY <1>0 DEF Done
<1>2. CASE /\ \A p \in Reached : Passed(p)' <=> Passed(p)
           /\ elem' = elem /\ swallowed' = swallowed
  BY <1>1, <1>2 DEF Done
<1>3. ASSUME at \in Reached, \A p \in Reached : Passing(p)
      PROVE  Cardinality(Done(m)') = Cardinality(Done(m)) + Bit(m \in MsgsAt(at))
  <2>1. IsFiniteSet(Done(m)) /\ Cardinality(Done(m)) \in Nat /\ at \notin Done(m)
    BY <1>0, DoneFinite DEF Done
  <2>2. CASE m \in MsgsAt(at)
    <3>1. Done(m)' = Done(m) \cup {at}
      BY <1>1, <1>3, <2>2 DEF Done, Passing
    <3>. QED
      BY <2>1, <2>2, <3>1, FS_AddElement DEF Bit
  <2>3. CASE m \notin MsgsAt(at)
    <3>1. Done(m)' = Done(m)
      BY <1>1, <1>3, <2>3 DEF Done, Passing
    <3>. QED
      BY <2>1, <2>3, <3>1 DEF Bit
  <2>. QED
    BY <2>2, <2>3
<1>4. swallowed = {}
  BY NextFiles DEF Hung
<1>. QED
  BY <1>2, <1>3, <1>4, NextPasses

(* Every step keeps Counted: Next puts a message on i.elem when it passes   *)
(* its position, Value takes it from there and starts it (iter.go:108-260). *)
LEMMA CountStep ==
    ASSUME Base, Fresh, Hung, [Next]_vars, NEW m \in Msgs, Counted(m)
    PROVE  Counted(m)'
<1>0. /\ Class' = Class /\ Reached' = Reached /\ (\A p : MsgsAt(p)' = MsgsAt(p))
      /\ started[m] \in Nat /\ Cardinality(Done(m)) \in Nat /\ Base'
  BY RequestKept, DoneFinite, BaseTyped, BaseStep
<1>1. Cardinality(Done(m)') \in Nat
  <2>1. Done(m)' = {p \in Reached : Passed(p)' /\ m \in MsgsAt(p)}
    BY <1>0 DEF Done
  <2>2. IsFiniteSet(Reached)
    BY PositionsFinite DEF Base
  <2>. QED
    BY <2>1, <2>2, FS_Subset, FS_CardinalityType
<1>2. CASE Run
  <2>1. Done(m)' = {}
    BY <1>0, <1>2, RunStarts DEF Done
  <2>2. Cardinality(Done(m)') = 0
    BY <2>1, FS_EmptySet
  <2>3. started'[m] = 0 /\ m \notin Range(elem')
    BY <1>2, RunStarts DEF Range
  <2>4. Bit(m \in Range(elem')) = 0
    BY <2>3 DEF Bit
  <2>. QED
    BY <2>2, <2>3, <2>4 DEF Counted
<1>3. CASE NextStep \/ NextFails
  <2>1. started' = started /\ (~err' => ~err) /\ swallowed = {}
    BY <1>3, NextFiles, NextPasses DEF Hung
  <2>2. CASE elem' = elem /\ Done(m)' = Done(m) /\ swallowed' = swallowed
    BY <1>0, <2>1, <2>2 DEF Counted
  <2>3. CASE /\ elem = <<>>
             /\ Range(elem') \subseteq MsgsAt(at)
             /\ ~err' /\ swallowed' = {} =>
                   Range(elem') = {n \in MsgsAt(at) : Class[n] = "media"}
             /\ Cardinality(Done(m)') = Cardinality(Done(m)) + Bit(m \in MsgsAt(at))
    <3>1. Bit(m \in Range(elem)) = 0
      BY <2>3 DEF Bit, Range
    <3>2. /\ Bit(m \in Range(elem')) <= Bit(m \in MsgsAt(at))
          /\ ~err' /\ swallowed' = {} /\ Class[m] = "media" =>
                Bit(m \in Range(elem')) = Bit(m \in MsgsAt(at))
          /\ Bit(m \in Range(elem')) \in Nat /\ Bit(m \in MsgsAt(at)) \in Nat
      BY <2>3 DEF Bit
    <3> DEFINE b == Bit(m \in Range(elem'))
               c == Bit(m \in MsgsAt(at))
               d == Cardinality(Done(m))
               e == Cardinality(Done(m)')
    <3>3. e = d + c /\ b <= c /\ (~err' /\ swallowed' = {} /\ Class[m] = "media" => b = c)
          /\ b \in Nat /\ c \in Nat /\ d \in Nat /\ e \in Nat
      BY <1>0, <1>1, <2>3, <3>2
    <3>4. started[m] <= d /\ (~err' /\ Class[m] = "media" => started[m] = d)
      BY <1>0, <2>1, <3>1 DEF Counted
    <3>5. Counted(m)' <=> /\ started[m] + b <= e
                          /\ ~err' /\ swallowed' = {} /\ Class[m] = "media" =>
                                started[m] + b = e
      BY <1>0, <2>1 DEF Counted
    <3> HIDE DEF b, c, d, e
    <3>. QED
      BY <1>0, <3>3, <3>4, <3>5
  <2>. QED
    BY <1>3, <2>2, <2>3, NextDone
<1>4. ASSUME RunFails \/ Value \/ (\E a \in active : OnDone(a))
             \/ (\E a \in late : OnDoneLate(a)) \/ Cancel \/ Return \/ UNCHANGED vars
      PROVE  Counted(m)'
  <2>1. Done(m)' = Done(m) /\ err' = err /\ swallowed' = swallowed
    BY <1>0, <1>4, OtherSteps DEF Done
  <2>2. CASE Value
    <3>1. PICK n \in Msgs : /\ n \in Range(elem) /\ Range(elem') = Range(elem) \ {n}
                            /\ started' = [started EXCEPT ![n] = @ + 1]
      BY <2>2, ValueTakes
    <3>2. started'[m] + Bit(m \in Range(elem')) = started[m] + Bit(m \in Range(elem))
      <4>1. CASE n = m
        <5>1. started'[m] = started[m] + 1 /\ m \in Range(elem) /\ m \notin Range(elem')
          BY <3>1, <4>1, BaseTyped
        <5>. QED
          BY <1>0, <5>1 DEF Bit
      <4>2. CASE n # m
        <5>1. started'[m] = started[m] /\ (m \in Range(elem) <=> m \in Range(elem'))
          BY <3>1, <4>2, BaseTyped
        <5>. QED
          BY <1>0, <5>1 DEF Bit
      <4>. QED
        BY <4>1, <4>2
    <3>. QED
      BY <1>0, <2>1, <3>2 DEF Counted
  <2>3. CASE ~Value
    <3>1. started' = started /\ elem' = elem
      BY <1>4, <2>3 DEF RunFails, OnDone, OnDoneLate, Cancel, Return, vars, iter, jobs
    <3>. QED
      BY <1>0, <2>1, <3>1 DEF Counted
  <2>. QED
    BY <2>2, <2>3
<1>. QED
  BY <1>2, <1>3, <1>4 DEF Next

(* The latest download of m: its file has been truncated for another that   *)
(* waits on i.elem, or it is whole, or the download has failed, is still    *)
(* going, or Run has an error.                                              *)
Filed(m) ==
    started[m] > 0 =>
        \/ m \in Range(elem)
        \/ m \in whole
        \/ \E a \in failed : a[1] = m
        \/ <<m, started[m] - 1>> \in active
        \/ rerr = "error"

(* Every step keeps Filed: a file is truncated only for an element put on   *)
(* i.elem, and the end of the latest download leaves it whole, or is an     *)
(* error (iter.go:214-242).                                                 *)
LEMMA FileStep ==
    ASSUME Base, [Next]_vars, NEW m \in Msgs, Filed(m)
    PROVE  Filed(m)'
<1>0. started[m] \in Nat
  BY BaseTyped
<1>1. CASE Run
  BY <1>1, RunStarts DEF Filed
<1>2. CASE NextStep \/ NextFails
  <2>1. UNCHANGED <<active, started, failed, rerr>>
    BY <1>2, NextFiles
  <2>2. CASE elem' = elem /\ whole' = whole
    BY <2>1, <2>2 DEF Filed
  <2>3. CASE elem = <<>> /\ whole' = whole \ Range(elem')
    <3>1. Range(elem) = {}
      BY <2>3 DEF Range
    <3>. QED
      BY <2>1, <2>3, <3>1 DEF Filed
  <2>4. Range(<<Msg>>) = {Msg}
    BY DEF Range
  <2>. QED
    BY <1>2, <2>2, <2>3, <2>4, NextFiles
<1>3. CASE Value
  <2>1. PICK n \in Msgs : /\ Range(elem') = Range(elem) \ {n}
                          /\ active' = active \cup {<<n, started[n]>>}
                          /\ started' = [started EXCEPT ![n] = @ + 1]
    BY <1>3, ValueTakes
  <2>2. UNCHANGED <<failed, whole, rerr>>
    BY <1>3, ValueTakes
  <2>3. CASE n = m
    <3>1. started'[m] = started[m] + 1
      BY <2>1, <2>3, BaseTyped
    <3>2. started'[m] - 1 = started[m]
      BY <1>0, <3>1
    <3>. QED
      BY <2>1, <2>3, <3>2 DEF Filed
  <2>4. CASE n # m
    <3>1. started'[m] = started[m] /\ (m \in Range(elem) => m \in Range(elem'))
      BY <2>1, <2>4, BaseTyped
    <3>. QED
      BY <2>1, <2>2, <3>1 DEF Filed
  <2>. QED
    BY <2>3, <2>4
<1>4. ASSUME NEW a \in active, OnDone(a) PROVE Filed(m)'
  <2>1. UNCHANGED <<elem, started>> /\ active' = active \ {a}
    BY <1>4 DEF OnDone, iter
  <2>2. a = <<a[1], a[2]>> /\ a[2] \in Nat
    BY BaseTyped
  <2>3. /\ whole \subseteq whole' /\ failed \subseteq failed'
        /\ rerr = "error" => rerr' = "error"
    BY <1>4 DEF OnDone
  <2>4. CASE a = <<m, started[m] - 1>>
    <3>1. a[1] = m /\ a[2] + 1 = started[m]
      BY <1>0, <2>2, <2>4
    <3>2. m \in Range(elem) \/ Newest(a)
      BY <3>1 DEF Newest
    <3>3. m \in Range(elem) \/ m \in whole' \/ a \in failed' \/ rerr' = "error"
      BY <1>4, <3>1, <3>2 DEF OnDone
    <3>. QED
      BY <2>1, <3>1, <3>3 DEF Filed
  <2>5. CASE a # <<m, started[m] - 1>>
    BY <2>1, <2>3, <2>5 DEF Filed
  <2>. QED
    BY <2>4, <2>5
<1>5. CASE RunFails \/ Cancel \/ Return \/ UNCHANGED vars
  <2>1. UNCHANGED <<elem, started, failed, whole, active>>
    BY <1>5 DEF RunFails, Cancel, Return, vars, iter, jobs
  <2>2. rerr = "error" => rerr' = "error"
    BY <1>5 DEF RunFails, Cancel, Return, vars, call
  <2>. QED
    BY <2>1, <2>2 DEF Filed
<1>6. ASSUME NEW a \in late, OnDoneLate(a) PROVE Filed(m)'
  <2>1. UNCHANGED <<elem, started, failed, active, rerr>> /\ whole \subseteq whole'
    BY <1>6 DEF OnDoneLate, iter, call
  <2>. QED
    BY <2>1 DEF Filed
<1>. QED
  BY <1>1, <1>2, <1>3, <1>4, <1>5, <1>6 DEF Next

-----------------------------------------------------------------------------
(* The inductive invariant.                                                 *)
IterInv ==
    /\ Base
    /\ Fresh
    /\ Hung
    /\ AtLast
    /\ \A m \in Msgs : Counted(m) /\ Filed(m)
    /\ ErrorHasReason

(* The invariant holds: no filter, fault, repeated message or cancellation  *)
(* brings the iterator and what is left of its messages apart.              *)
THEOREM IterInductive == Spec => []IterInv
<1>1. Init => IterInv
  <2> SUFFICES ASSUME Init PROVE IterInv
    OBVIOUS
  <2>1. Base
    BY BaseInit
  <2>2. /\ pc = "idle" /\ at = <<1, 1>> /\ err = FALSE /\ elem = <<>> /\ rerr = "none"
        /\ started = [m \in Msgs |-> 0] /\ swallowed = {}
    BY DEF Init
  <2>3. Fresh /\ Hung /\ AtLast
    BY <2>2 DEF Fresh, Hung, AtLast
  <2>4. ASSUME NEW p \in Reached PROVE ~Passed(p)
    <3>1. p[1] \in 1 .. Len(Dialogs) /\ p[2] \in 1 .. Len(Dialogs[p[1]])
      BY <2>1, PositionsAre DEF Base, Reached
    <3>. QED
      BY <2>2, <3>1 DEF Passed
  <2>5. ErrorHasReason
    BY <2>2, <2>4 DEF ErrorHasReason
  <2>6. ASSUME NEW m \in Msgs PROVE Counted(m) /\ Filed(m)
    <3>1. started[m] = 0 /\ m \notin Range(elem)
      BY <2>2 DEF Range
    <3>2. Done(m) = {}
      BY <2>4 DEF Done
    <3>3. Cardinality(Done(m)) = 0 /\ Bit(m \in Range(elem)) = 0
      BY <3>1, <3>2, FS_EmptySet DEF Bit
    <3>. QED
      BY <3>1, <3>3 DEF Counted, Filed
  <2>. QED
    BY <2>1, <2>3, <2>5, <2>6 DEF IterInv
<1>2. IterInv /\ [Next]_vars => IterInv'
  <2> SUFFICES ASSUME IterInv, [Next]_vars PROVE IterInv'
    OBVIOUS
  <2>1. Base' /\ Fresh' /\ Hung' /\ AtLast' /\ ErrorHasReason'
    BY BaseStep, FreshStep, HungStep, LastStep, ReasonStep DEF IterInv
  <2>2. \A m \in Msgs : Counted(m)' /\ Filed(m)'
    BY CountStep, FileStep DEF IterInv
  <2>. QED
    BY <2>1, <2>2 DEF IterInv
<1>. QED
  BY <1>1, <1>2, PTL DEF Spec

(* Everything keeps its type: i.i and i.j stay within the dialogs, i.elem   *)
(* never holds more than the 10 files it has room for, and no more than     *)
(* Limit downloads go on at a time (iter.go:103,138-143, dl.go:107,121).    *)
THEOREM TypeCorrect == Spec => []TypeOK
<1>1. IterInv => TypeOK
  BY DEF IterInv, Base
<1>. QED
  BY <1>1, IterInductive, PTL

(* The iterator fails only for a reason, and passes no message without      *)
(* media over, but in an album it asked for in vain (iter.go:108-113,       *)
(* 157-179,244-256).                                                        *)
THEOREM ReasonCorrect == Spec => []ErrorHasReason
<1>1. IterInv => ErrorHasReason
  BY DEF IterInv
<1>. QED
  BY <1>1, IterInductive, PTL

(* When Run returns nil, all that was due has been started as often as it   *)
(* was due and is over, and each file is whole unless one of its downloads  *)
(* has failed; and nothing is ever started more often                       *)
(* (iter.go:108-172,214-260, dl.go:80-121).                                 *)
THEOREM NilCorrect == Spec => []NilMeansAll
<1>1. IterInv => NilMeansAll
  <2> SUFFICES ASSUME IterInv PROVE NilMeansAll
    OBVIOUS
  <2>1. Base /\ Hung /\ AtLast /\ \A m \in Msgs : Counted(m) /\ Filed(m)
    BY DEF IterInv
  <2>2. \A m \in Msgs : /\ started[m] \in Nat /\ Due(m) \in Nat
                        /\ Cardinality(Done(m)) \in Nat /\ Cardinality(Done(m)) <= Due(m)
    <3> SUFFICES ASSUME NEW m \in Msgs
                 PROVE  /\ started[m] \in Nat /\ Due(m) \in Nat
                        /\ Cardinality(Done(m)) \in Nat /\ Cardinality(Done(m)) <= Due(m)
      OBVIOUS
    <3> DEFINE S == {p \in Reached : m \in MsgsAt(p)}
    <3>1. IsFiniteSet(Reached)
      BY <2>1, PositionsFinite DEF Base
    <3>2. IsFiniteSet(S)
      BY <3>1, FS_Subset
    <3>3. Done(m) \in SUBSET S
      BY DEF Done
    <3>. QED
      BY <2>1, <3>2, <3>3, FS_Subset, FS_CardinalityType, BaseTyped DEF Due
  <2>3. ASSUME NEW m \in Msgs PROVE started[m] <= Due(m)
    <3>1. Bit(m \in Range(elem)) \in {0, 1}
      BY DEF Bit
    <3>2. started[m] + Bit(m \in Range(elem)) <= Cardinality(Done(m))
      BY <2>1 DEF Counted
    <3>. QED
      BY <2>2, <3>1, <3>2
  <2>4. ASSUME pc = "idle", rerr = "nil"
        PROVE  /\ active = {}
               /\ \A m \in Msgs : Class[m] = "media" /\ Due(m) > 0 =>
                     /\ started[m] = Due(m)
                     /\ m \in whole \/ \E a \in failed : a[1] = m
    <3>1. /\ ~err /\ active = {} /\ elem = <<>> /\ swallowed = {}
          /\ \A p \in Reached : Passed(p)
      BY <2>1, <2>4 DEF AtLast, Hung
    <3>2. ASSUME NEW m \in Msgs, Class[m] = "media", Due(m) > 0
          PROVE  started[m] = Due(m) /\ (m \in whole \/ \E a \in failed : a[1] = m)
      <4>1. Done(m) = {p \in Reached : m \in MsgsAt(p)} /\ m \notin Range(elem)
        BY <3>1 DEF Done, Range
      <4>2. Cardinality(Done(m)) = Due(m) /\ Bit(m \in Range(elem)) = 0
        BY <4>1 DEF Due, Bit
      <4>3. started[m] + 0 = Due(m)
        BY <2>1, <3>1, <3>2, <4>2 DEF Counted
      <4>4. started[m] = Due(m) /\ started[m] > 0
        BY <2>2, <3>2, <4>3
      <4>5. m \in whole \/ \E a \in failed : a[1] = m
        BY <2>1, <2>4, <3>1, <4>1, <4>4 DEF Filed
      <4>. QED
        BY <4>4, <4>5
    <3>. QED
      BY <3>1, <3>2
  <2>. QED
    BY <2>3, <2>4 DEF NilMeansAll
<1>. QED
  BY <1>1, IterInductive, PTL

(* An album the iteration has come to, at position p, that has left nothing *)
(* on i.elem.                                                               *)
Barren(p) ==
    LET album == Album[Dialogs[p[1]][p[2]]] IN
    /\ Passed(p) /\ album # <<>>
    /\ \/ p \in swallowed
       \/ \A m \in Range(album) : Class[m] # "media"
       \/ err /\ faults > 0

WaitHasReason == pc = "value" /\ elem = <<>> => \E p \in Reached : Barren(p)

(* A message that is handed out is on i.elem; an album may leave nothing    *)
(* there, and then it could not be had, it has no file, or one of them      *)
(* could not be created (iter.go:108-132,244-260).                          *)
LEMMA WaitStep == ASSUME Base, Fresh, WaitHasReason, [Next]_vars PROVE WaitHasReason'
<1> SUFFICES ASSUME pc' = "value", elem' = <<>> PROVE \E p \in Reached' : Barren(p)'
  BY DEF WaitHasReason
<1>0. /\ request' = request /\ Dialogs' = Dialogs /\ Album' = Album /\ Class' = Class
      /\ Reached' = Reached
  BY RequestKept DEF Dialogs, Album
<1>1. CASE Run
  BY <1>1, RunStarts
<1>2. CASE NextGrouped
  <2>2. pc = "process" /\ ~AtEnd /\ at' = Advanced /\ Album[Msg] # <<>>
    BY <1>2, GroupedFiles DEF Grouped
  <2>3. PICK p \in Reached : p = at /\ p \in Positions
    BY <2>2, FreshReached DEF Reached
  <2>4. Passed(p)'
    BY <2>2, <2>3, AdvancedPasses, BaseTyped DEF Base
  <2>5. ASSUME NEW lost \in SUBSET Range(Album[Msg]), elem' = AlbumFiles(lost),
               IF lost = {} THEN err' = AlbumError ELSE err' /\ faults' > 0
        PROVE  (\A m \in Range(Album[Msg]) : Class[m] # "media") \/ (err' /\ faults' > 0)
    <3>1. Range(elem') = {m \in Range(Album[Msg]) : Kept(m, lost)}
      BY <2>2, <2>5, AlbumFilesTyped
    <3>2. Range(elem') = {}
      BY DEF Range
    <3>. QED
      BY <2>5, <3>1, <3>2 DEF Kept
  <2>7. \/ p \in swallowed'
        \/ \A m \in Range(Album[Msg]) : Class[m] # "media"
        \/ err' /\ faults' > 0
    <3>1. \/ swallowed' = swallowed \cup {at}
          \/ \E lost \in SUBSET Range(Album[Msg]) :
                /\ elem' = AlbumFiles(lost)
                /\ IF lost = {} THEN err' = AlbumError ELSE err' /\ faults' > 0
      BY <1>2, GroupedFiles
    <3>. QED
      BY <2>3, <2>5, <3>1
  <2>8. Barren(p)'
    BY <1>0, <2>2, <2>3, <2>4, <2>7 DEF Barren, Msg
  <2>. QED
    BY <1>0, <2>8
<1>3. CASE NextEarly \/ NextEnd \/ NextSkip \/ NextSingle \/ NextFails
  <2>1. \A m : Append(<<>>, m) # <<>>
    OBVIOUS
  <2>. QED
    BY <1>3, <2>1 DEF NextEarly, NextEnd, NextSkip, NextSingle, NextFails, Processing
<1>4. CASE RunFails \/ Value \/ (\E a \in active : OnDone(a))
           \/ (\E a \in late : OnDoneLate(a)) \/ Cancel \/ Return \/ UNCHANGED vars
  <2>1. pc = "value" /\ elem = <<>>
    BY <1>4 DEF RunFails, Value, OnDone, OnDoneLate, Cancel, Return, vars, iter
  <2>2. PICK p \in Reached : Barren(p)
    BY <2>1 DEF WaitHasReason
  <2>3. /\ UNCHANGED <<err, swallowed>> /\ (Passed(p)' <=> Passed(p))
        /\ (faults > 0 => faults' > 0)
    <3>1. faults \in Nat /\ (faults' = faults \/ faults' = faults + 1)
      BY <1>4, BaseTyped DEF RunFails, Value, OnDone, OnDoneLate, Cancel, Return, vars
    <3>. QED
      BY <1>4, <3>1, OtherSteps
  <2>4. Barren(p)'
    BY <1>0, <2>2, <2>3 DEF Barren
  <2>. QED
    BY <1>0, <2>4
<1>. QED
  BY <1>1, <1>2, <1>3, <1>4 DEF Next, NextStep

(* The safety part of RunReturns: the iterator waits for an element that    *)
(* does not come only at an album with nothing to download, whose request   *)
(* failed or was canceled, or whose files could not be created              *)
(* (iter.go:108-132,244-260).                                               *)
THEOREM WaitCorrect == Spec => [](pc = "value" /\ elem = <<>> => StuckAtEmptyAlbum)
<1>1. Init => Base /\ Fresh /\ WaitHasReason
  BY BaseInit DEF Init, Fresh, WaitHasReason
<1>2. Base /\ Fresh /\ WaitHasReason /\ [Next]_vars => (Base /\ Fresh /\ WaitHasReason)'
  BY BaseStep, FreshStep, WaitStep
<1>3. WaitHasReason => (pc = "value" /\ elem = <<>> => StuckAtEmptyAlbum)
  BY DEF WaitHasReason, Barren, StuckAtEmptyAlbum
<1>. QED
  BY <1>1, <1>2, <1>3, PTL DEF Spec

-----------------------------------------------------------------------------
(***************************************************************************)
(* The list of dialogs, for pages of any size and any number of dialogs,   *)
(* topics and failed requests.  Its loop over a page is Filtered again.    *)
(***************************************************************************)
CONSTANTS PageSize, MaxDialogs, MaxTopics

VARIABLES dialogs, where, dialog, offset, res, result, failures

List == INSTANCE TelegramList WITH pc <- where, d <- dialog, faults <- failures

(* The list is complete up to dialog k.                                     *)
ListedTo(k) ==
    /\ \A i, j \in DOMAIN result : i < j => result[i][1] < result[j][1]
    /\ \A i \in DOMAIN result : /\ result[i][1] \in DOMAIN dialogs /\ result[i][1] < k
                                /\ List!Listed(result[i][1])
                                /\ List!Ascending(result[i][2])
                                /\ Range(result[i][2]) = List!TopicsOf(result[i][1])
    /\ \A l \in DOMAIN dialogs : l < k /\ List!Listed(l) =>
          \E i \in DOMAIN result : result[i][1] = l

(* In a forum, what has been taken are the topics up to the offset; pages   *)
(* are asked for only of a dialog that is to be listed.                     *)
TopicsTo ==
    where = "topics" =>
        /\ dialog \in DOMAIN dialogs /\ List!Listed(dialog)
        /\ offset \in 0 .. Len(dialogs[dialog].forum)
        /\ List!Ascending(res)
        /\ Range(res) = {k \in List!TopicsOf(dialog) : k <= offset}

ListInv ==
    /\ \E n \in Nat : dialogs \in [1 .. n -> List!Dialogs] /\ dialog \in 1 .. n + 1
    /\ where \in {"collect", "dialog", "topics", "done", "error", "panic"}
    /\ res \in Seq(Nat) /\ result \in Seq(Nat \X Seq(Nat))
    /\ ListedTo(dialog)
    /\ TopicsTo
    /\ where = "done" => dialog \notin DOMAIN dialogs

(* The forum of a dialog is a sequence, and its topics are places in it.    *)
LEMMA ForumTyped ==
    ASSUME ListInv, NEW k \in DOMAIN dialogs
    PROVE  /\ k \in Nat /\ dialog \in Nat
           /\ dialogs[k].forum \in Seq({"topic", "deleted"})
           /\ Len(dialogs[k].forum) \in Nat
           /\ DOMAIN dialogs[k].forum = 1 .. Len(dialogs[k].forum)
           /\ List!TopicsOf(k) \subseteq 1 .. Len(dialogs[k].forum)
<1>1. PICK n \in Nat : dialogs \in [1 .. n -> List!Dialogs] /\ dialog \in 1 .. n + 1
  BY DEF ListInv
<1>2. k \in Nat /\ dialog \in Nat /\ dialogs[k].forum \in List!Forums
  BY <1>1 DEF List!Dialogs
<1>3. PICK m \in 0 .. MaxTopics : dialogs[k].forum \in [1 .. m -> {"topic", "deleted"}]
  BY <1>2 DEF List!Forums
<1>4. dialogs[k].forum \in Seq({"topic", "deleted"})
  BY <1>3
<1>. QED
  BY <1>2, <1>4 DEF List!TopicsOf

(* There is a place after every dialog.                                     *)
LEMMA DialogAdvances ==
    ASSUME ListInv, dialog \in DOMAIN dialogs
    PROVE  \E n \in Nat : dialogs \in [1 .. n -> List!Dialogs] /\ dialog + 1 \in 1 .. n + 1
<1>1. PICK n \in Nat : dialogs \in [1 .. n -> List!Dialogs] /\ dialog \in 1 .. n + 1
  BY DEF ListInv
<1>2. dialog \in 1 .. n
  BY <1>1
<1>3. dialog + 1 \in 1 .. n + 1
  BY <1>2
<1>. QED
  BY <1>1, <1>3

(* Dialogs up to dialog are listed; none of it keeps it out of the list.    *)
LEMMA DialogPassed ==
    ASSUME ListInv, dialog \in DOMAIN dialogs, ~List!Listed(dialog),
           UNCHANGED <<dialogs, result>>, dialog' = dialog + 1
    PROVE  ListedTo(dialog)'
<1>1. /\ \A k \in DOMAIN dialogs : k \in Nat
      /\ dialog \in Nat
  BY ForumTyped
<1>2. /\ \A k : List!Listed(k)' = List!Listed(k) /\ List!TopicsOf(k)' = List!TopicsOf(k)
      /\ \A s : List!Ascending(s)' = List!Ascending(s)
  BY DEF List!Listed, List!TopicsOf, List!Ascending
<1>3. ListedTo(dialog)
  BY DEF ListInv
<1>4. \A k \in Nat : k < dialog => k < dialog + 1
  BY <1>1
<1>5. \A k \in Nat : k < dialog + 1 => k < dialog \/ k = dialog
  BY <1>1
<1>. QED
  BY <1>1, <1>2, <1>3, <1>4, <1>5 DEF ListedTo

(* A dialog is added with its topics.                                       *)
LEMMA DialogListed ==
    ASSUME ListInv, dialog \in DOMAIN dialogs, List!Listed(dialog),
           NEW t \in Seq(Nat), List!Ascending(t), Range(t) = List!TopicsOf(dialog),
           UNCHANGED dialogs, result' = Append(result, <<dialog, t>>), dialog' = dialog + 1
    PROVE  /\ result' \in Seq(Nat \X Seq(Nat))
           /\ ListedTo(dialog)'
<1>1. /\ \A k \in DOMAIN dialogs : k \in Nat
      /\ dialog \in Nat
  BY ForumTyped
<1>2. /\ \A k : List!Listed(k)' = List!Listed(k) /\ List!TopicsOf(k)' = List!TopicsOf(k)
      /\ \A s : List!Ascending(s)' = List!Ascending(s)
  BY DEF List!Listed, List!TopicsOf, List!Ascending
<1>3. ListedTo(dialog) /\ result \in Seq(Nat \X Seq(Nat))
  BY DEF ListInv
<1> DEFINE n == Len(result)
           e == <<dialog, t>>
<1>4. n \in Nat /\ DOMAIN result = 1 .. n
  BY <1>3
<1>5. e \in Nat \X Seq(Nat) /\ e[1] = dialog /\ e[2] = t
  BY <1>1
<1>6. /\ result' \in Seq(Nat \X Seq(Nat))
      /\ DOMAIN result' = DOMAIN result \cup {n + 1}
      /\ \A i \in DOMAIN result : result'[i] = result[i] /\ i < n + 1 /\ i \in Nat
      /\ result'[n + 1] = e
  <2> HIDE DEF e
  <2>1. /\ Append(result, e) \in Seq(Nat \X Seq(Nat))
        /\ DOMAIN Append(result, e) = 1 .. n + 1
        /\ \A i \in 1 .. n : Append(result, e)[i] = result[i]
        /\ Append(result, e)[n + 1] = e
    BY <1>3, <1>4, <1>5
  <2>2. 1 .. n + 1 = (1 .. n) \cup {n + 1} /\ \A i \in 1 .. n : i < n + 1 /\ i \in Nat
    BY <1>4
  <2>. QED
    BY <1>4, <2>1, <2>2 DEF e
<1> HIDE DEF n, e
<1>7. ASSUME NEW i \in DOMAIN result', NEW j \in DOMAIN result', i < j
      PROVE  result'[i][1] < result'[j][1]
  <2>1. CASE j \in DOMAIN result
    <3>1. i \in DOMAIN result
      BY <1>4, <1>6, <1>7, <2>1
    <3>. QED
      BY <1>3, <1>6, <1>7, <2>1, <3>1 DEF ListedTo
  <2>2. CASE j = n + 1
    <3>1. i \in DOMAIN result
      BY <1>4, <1>6, <1>7, <2>2
    <3>. QED
      BY <1>3, <1>5, <1>6, <2>2, <3>1 DEF ListedTo
  <2>. QED
    BY <1>6, <2>1, <2>2
<1>8. ASSUME NEW i \in DOMAIN result'
      PROVE  /\ result'[i][1] \in DOMAIN dialogs /\ result'[i][1] < dialog + 1
             /\ List!Listed(result'[i][1])
             /\ List!Ascending(result'[i][2])
             /\ Range(result'[i][2]) = List!TopicsOf(result'[i][1])
  <2>1. CASE i \in DOMAIN result
    <3>1. /\ result'[i] = result[i] /\ result[i][1] \in DOMAIN dialogs /\ result[i][1] < dialog
          /\ List!Listed(result[i][1])
          /\ List!Ascending(result[i][2])
          /\ Range(result[i][2]) = List!TopicsOf(result[i][1])
      BY <1>3, <1>6, <2>1 DEF ListedTo
    <3>2. result[i][1] < dialog + 1
      BY <1>1, <3>1
    <3>. QED
      BY <3>1, <3>2
  <2>2. CASE i = n + 1
    BY <1>1, <1>5, <1>6, <2>2
  <2>. QED
    BY <1>6, <2>1, <2>2
<1>9. ASSUME NEW l \in DOMAIN dialogs, l < dialog + 1, List!Listed(l)
      PROVE  \E i \in DOMAIN result' : result'[i][1] = l
  <2>1. l < dialog \/ l = dialog
    BY <1>1, <1>9
  <2>2. CASE l < dialog
    BY <1>3, <1>6, <1>9, <2>2 DEF ListedTo
  <2>3. CASE l = dialog
    BY <1>5, <1>6, <2>3
  <2>. QED
    BY <2>1, <2>2, <2>3
<1>. QED
  BY <1>2, <1>6, <1>7, <1>8, <1>9 DEF ListedTo

(* What the loop takes of an ascending list ascends (ls.go:232-241).        *)
LEMMA FilteredAscends ==
    ASSUME NEW s \in Seq(Nat), NEW S, List!Ascending(s)
    PROVE  List!Ascending(Filtered(s, S))
<1> DEFINE t == Filtered(s, S)
<1> HIDE DEF t
<1>1. PICK from \in [DOMAIN t -> DOMAIN s] :
        /\ \A i, j \in DOMAIN from : i < j => from[i] < from[j]
        /\ \A i \in DOMAIN from : t[i] = s[from[i]]
  BY FilteredIs DEF t
<1> SUFFICES ASSUME NEW i \in DOMAIN t, NEW j \in DOMAIN t, i < j PROVE t[i] < t[j]
  BY DEF List!Ascending, t
<1>2. from[i] < from[j] /\ t[i] = s[from[i]] /\ t[j] = s[from[j]]
  BY <1>1
<1>. QED
  BY <1>1, <1>2 DEF List!Ascending

(* A page: the topics after the offset, as many as there are or as it       *)
(* holds; those of them that are not deleted, in order (ls.go:218-241).     *)
LEMMA PageTaken ==
    ASSUME List!ListAssumption, ListInv, where = "topics"
    PROVE  /\ List!Page \in Seq(Nat) /\ Len(List!Page) \in Nat
           /\ offset + Len(List!Page) <= Len(dialogs[dialog].forum)
           /\ List!LastPage => offset + Len(List!Page) = Len(dialogs[dialog].forum)
           /\ ~List!LastPage => Len(List!Page) = PageSize
           /\ List!Topics(List!Page) \in Seq(Nat)
           /\ List!Ascending(List!Topics(List!Page))
           /\ Range(List!Topics(List!Page)) =
                 {k \in List!TopicsOf(dialog) : offset < k /\ k <= offset + Len(List!Page)}
<1> DEFINE F == Len(dialogs[dialog].forum)
           left == F - offset
           n == IF left < PageSize THEN left ELSE PageSize
           page == [k \in 1 .. n |-> offset + k]
           T == List!TopicsOf(dialog)
           t == Filtered(page, T)
<1>1. dialog \in DOMAIN dialogs /\ offset \in 0 .. F
  BY DEF ListInv, TopicsTo
<1>2. F \in Nat /\ T \subseteq 1 .. F
  BY <1>1, ForumTyped
<1>3. PageSize \in Nat /\ PageSize # 0
  BY DEF List!ListAssumption
<1>4. List!Page = page
  BY DEF List!Page, List!Dialog
<1>5. List!Topics(List!Page) = t
  BY <1>4 DEF List!Topics, List!Filtered, Filtered
<1> HIDE DEF F, T
<1>6. n \in Nat /\ n <= left /\ n <= PageSize
      /\ (n < PageSize => n = left) /\ (~(n < PageSize) => n = PageSize)
  BY <1>1, <1>2, <1>3
<1> HIDE DEF n
<1>7. page \in [1 .. n -> Nat] /\ DOMAIN page = 1 .. n
      /\ \A k \in 1 .. n : page[k] = offset + k
  BY <1>1, <1>2, <1>6
<1> HIDE DEF page
<1>8. page \in Seq(Nat) /\ Len(page) = n
  BY <1>6, <1>7
<1> HIDE DEF t
<1>9. t \in Seq(Nat) /\ Range(t) = Range(page) \cap T
  BY <1>8, FilteredIs DEF t
<1>10. List!Ascending(t)
  <2>1. List!Ascending(page)
    BY <1>1, <1>2, <1>7 DEF List!Ascending
  <2>. QED
    BY <1>8, <2>1, FilteredAscends DEF t
<1>11. ASSUME NEW x
       PROVE  x \in Range(t) <=> x \in T /\ offset < x /\ x <= offset + n
  <2>1. x \in Range(page) <=> \E k \in 1 .. n : x = offset + k
    BY <1>7 DEF Range
  <2>2. ASSUME x \in T PROVE x \in Range(page) <=> offset < x /\ x <= offset + n
    <3>1. x \in Nat
      BY <1>2, <2>2
    <3>2. offset < x /\ x <= offset + n => x - offset \in 1 .. n /\ x = offset + (x - offset)
      BY <1>1, <1>2, <1>6, <3>1
    <3>3. \A k \in 1 .. n : x = offset + k => offset < x /\ x <= offset + n
      BY <1>1, <1>2, <1>6, <3>1
    <3>. QED
      BY <2>1, <3>2, <3>3
  <2>. QED
    BY <1>9, <2>2
<1>12. Range(t) = {k \in T : offset < k /\ k <= offset + n}
  BY <1>11
<1>13. offset + n <= F /\ (n < PageSize => offset + n = F)
       /\ (~(n < PageSize) => n = PageSize)
  BY <1>1, <1>2, <1>6 DEF left
<1>14. List!LastPage <=> n < PageSize
  BY <1>4, <1>8 DEF List!LastPage
<1>. QED
  BY <1>4, <1>5, <1>6, <1>8, <1>9, <1>10, <1>12, <1>13, <1>14 DEF F, T

(* One ascending list after another whose elements are greater.             *)
LEMMA AscendingConcat ==
    ASSUME NEW s \in Seq(Nat), NEW t \in Seq(Nat), List!Ascending(s), List!Ascending(t),
           \A x \in Range(s), y \in Range(t) : x < y
    PROVE  /\ s \o t \in Seq(Nat) /\ List!Ascending(s \o t)
           /\ Range(s \o t) = Range(s) \cup Range(t)
<1> DEFINE u == s \o t
<1>1. /\ Len(s) \in Nat /\ DOMAIN s = 1 .. Len(s) /\ Len(t) \in Nat /\ DOMAIN t = 1 .. Len(t)
  OBVIOUS
<1>2. /\ u \in Seq(Nat) /\ DOMAIN u = 1 .. Len(s) + Len(t)
      /\ \A i \in 1 .. Len(s) : u[i] = s[i]
      /\ \A i \in 1 .. Len(t) : u[Len(s) + i] = t[i]
  OBVIOUS
<1> HIDE DEF u
<1>3. ASSUME NEW i \in DOMAIN u
      PROVE  \/ i \in DOMAIN s /\ u[i] = s[i]
             \/ /\ i \notin DOMAIN s /\ i - Len(s) \in DOMAIN t
                /\ u[i] = t[i - Len(s)]
  <2>1. i \in 1 .. Len(s) \/ (i \notin 1 .. Len(s) /\ i - Len(s) \in 1 .. Len(t))
    BY <1>1, <1>2
  <2>2. i = Len(s) + (i - Len(s))
    BY <1>1, <1>2
  <2>. QED
    BY <1>1, <1>2, <2>1, <2>2
<1>4. ASSUME NEW i \in DOMAIN u, NEW j \in DOMAIN u, i < j PROVE u[i] < u[j]
  <2>1. i \in Nat /\ j \in Nat
    BY <1>1, <1>2
  <2>2. CASE j \in DOMAIN s
    <3>1. i \in DOMAIN s
      BY <1>1, <1>2, <1>4, <2>1, <2>2
    <3>. QED
      BY <1>3, <1>4, <2>2, <3>1 DEF List!Ascending
  <2>3. CASE j \notin DOMAIN s /\ i \in DOMAIN s
    BY <1>3, <2>3 DEF Range
  <2>4. CASE j \notin DOMAIN s /\ i \notin DOMAIN s
    <3>1. i - Len(s) < j - Len(s)
      BY <1>1, <1>4, <2>1
    <3>. QED
      BY <1>3, <2>4, <3>1 DEF List!Ascending
  <2>. QED
    BY <2>2, <2>3, <2>4
<1>5. ASSUME NEW x PROVE x \in Range(u) <=> x \in Range(s) \/ x \in Range(t)
  <2>1. x \in Range(u) => x \in Range(s) \/ x \in Range(t)
    BY <1>3 DEF Range
  <2>2. ASSUME NEW i \in DOMAIN s PROVE s[i] \in Range(u)
    BY <1>1, <1>2 DEF Range
  <2>3. ASSUME NEW i \in DOMAIN t PROVE t[i] \in Range(u)
    <3>1. Len(s) + i \in DOMAIN u /\ u[Len(s) + i] = t[i]
      BY <1>1, <1>2
    <3>. QED
      BY <3>1 DEF Range
  <2>. QED
    BY <2>1, <2>2, <2>3 DEF Range
<1>. QED
  BY <1>2, <1>4, <1>5 DEF List!Ascending, u

(* A page of a forum: its topics are taken, and after the last page the     *)
(* dialog is listed with all of its own (ls.go:218-254,121-131).            *)
LEMMA PageStep == ASSUME List!ListAssumption, ListInv, List!TopicsPage PROVE ListInv'
<1> DEFINE page == List!Page
           t == List!Topics(page)
           F == Len(dialogs[dialog].forum)
           T == List!TopicsOf(dialog)
<1>1. /\ where = "topics" /\ UNCHANGED dialogs /\ res' = res \o t
      /\ offset' = IF t = <<>> THEN offset ELSE t[Len(t)]
      /\ IF List!LastPage
         THEN /\ where' = "dialog" /\ dialog' = dialog + 1
              /\ result' = Append(result, <<dialog, res'>>)
         ELSE where' = where /\ dialog' = dialog /\ result' = result
  BY DEF List!TopicsPage
<1>2. /\ dialog \in DOMAIN dialogs /\ List!Listed(dialog) /\ offset \in 0 .. F
      /\ List!Ascending(res) /\ Range(res) = {k \in T : k <= offset}
      /\ res \in Seq(Nat) /\ ListedTo(dialog) /\ result \in Seq(Nat \X Seq(Nat))
  BY <1>1 DEF ListInv, TopicsTo
<1>3. F \in Nat /\ T \subseteq 1 .. F
  BY <1>2, ForumTyped
<1>4. /\ Len(page) \in Nat /\ offset + Len(page) <= F
      /\ (List!LastPage => offset + Len(page) = F)
      /\ t \in Seq(Nat) /\ List!Ascending(t)
      /\ Range(t) = {k \in T : offset < k /\ k <= offset + Len(page)}
  BY <1>1, PageTaken
<1> HIDE DEF page, t, F, T
<1> DEFINE m == offset + Len(page)
<1>5. m \in Nat /\ m <= F /\ offset <= m /\ offset \in Nat
  BY <1>2, <1>3, <1>4
<1>6. /\ res' \in Seq(Nat) /\ List!Ascending(res')
      /\ Range(res') = {k \in T : k <= m}
  <2>1. \A x \in Range(res), y \in Range(t) : x < y
    <3> SUFFICES ASSUME NEW x \in Range(res), NEW y \in Range(t) PROVE x < y
      OBVIOUS
    <3>1. x \in T /\ x <= offset /\ y \in T /\ offset < y
      BY <1>2, <1>4
    <3>. QED
      BY <1>3, <1>5, <3>1
  <2>2. ASSUME NEW k \in T
        PROVE  k <= m <=> k <= offset \/ (offset < k /\ k <= m)
    BY <1>3, <1>5
  <2>3. {k \in T : k <= offset} \cup {k \in T : offset < k /\ k <= m} = {k \in T : k <= m}
    BY <2>2
  <2>. QED
    BY <1>1, <1>2, <1>4, <2>1, <2>3, AscendingConcat
<1>7. ASSUME List!LastPage PROVE ListInv'
  <2>1. where' = "dialog" /\ dialog' = dialog + 1 /\ result' = Append(result, <<dialog, res'>>)
    BY <1>1, <1>7
  <2>2. Range(res') = T
    <3>1. \A k \in T : k <= m
      BY <1>3, <1>4, <1>7
    <3>. QED
      BY <1>6, <3>1
  <2>3. result' \in Seq(Nat \X Seq(Nat)) /\ ListedTo(dialog)'
    BY <1>1, <1>2, <1>6, <2>1, <2>2, DialogListed DEF T
  <2>4. \E n \in Nat : dialogs' \in [1 .. n -> List!Dialogs] /\ dialog' \in 1 .. n + 1
    BY <1>1, <1>2, <2>1, DialogAdvances
  <2>5. \E n \in Nat : dialogs' \in [1 .. n -> List!Dialogs'] /\ dialog' \in 1 .. n + 1
    BY <2>4 DEF List!Dialogs, List!Forums
  <2>. QED
    BY <1>6, <2>1, <2>3, <2>5 DEF ListInv, TopicsTo
<1>8. ASSUME ~List!LastPage PROVE ListInv'
  <2>1. UNCHANGED <<dialogs, where, dialog, result>>
    BY <1>1, <1>8
  <2>2. /\ \A k : List!Listed(k)' = List!Listed(k) /\ List!TopicsOf(k)' = List!TopicsOf(k)
        /\ \A s : List!Ascending(s)' = List!Ascending(s)
        /\ dialogs[dialog]'.forum = dialogs[dialog].forum
    BY <2>1 DEF List!Listed, List!TopicsOf, List!Ascending
  <2>3. offset' \in 0 .. F /\ {k \in T : k <= offset'} = {k \in T : k <= m}
    <3>1. CASE t = <<>>
      <4>1. offset' = offset
        BY <1>1, <3>1
      <4>2. \A k \in T : ~(offset < k /\ k <= m)
        BY <1>4, <3>1 DEF Range
      <4>3. \A k \in T : k <= offset <=> k <= m
        BY <1>3, <1>5, <4>2
      <4>. QED
        BY <1>2, <4>1, <4>3
    <3>2. CASE t # <<>>
      <4>1. Len(t) \in DOMAIN t /\ \A i \in DOMAIN t : i \in Nat /\ (i = Len(t) \/ i < Len(t))
        BY <1>4, <3>2
      <4>2. offset' = t[Len(t)] /\ offset' \in Range(t)
        BY <1>1, <3>2, <4>1 DEF Range
      <4>3. \A i \in DOMAIN t : t[i] <= offset'
        <5>1. \A i \in DOMAIN t : t[i] \in Nat
          BY <1>4
        <5>. QED
          BY <1>4, <4>1, <4>2, <5>1 DEF List!Ascending
      <4>4. \A k \in Range(t) : k <= offset'
        BY <4>3 DEF Range
      <4>5. offset' \in T /\ offset < offset' /\ offset' <= m
        BY <1>4, <4>2
      <4>6. offset' \in Nat
        BY <1>3, <4>5
      <4>7. ASSUME NEW k \in T PROVE k <= offset' <=> k <= m
        <5>1. k \in Nat
          BY <1>3
        <5>2. offset < k /\ k <= m => k <= offset'
          BY <1>4, <4>4
        <5>. QED
          BY <1>5, <4>5, <4>6, <5>1, <5>2
      <4>8. offset' \in 0 .. F
        BY <1>3, <1>5, <4>5, <4>6
      <4>9. {k \in T : k <= offset'} = {k \in T : k <= m}
        BY <4>7
      <4>. QED
        BY <4>8, <4>9
    <3>. QED
      BY <3>1, <3>2
  <2>4. ListedTo(dialog)'
    BY <1>2, <2>1, <2>2 DEF ListedTo
  <2>5. TopicsTo'
    BY <1>2, <1>6, <2>1, <2>2, <2>3 DEF TopicsTo, F, T
  <2>6. \E n \in Nat : dialogs' \in [1 .. n -> List!Dialogs'] /\ dialog' \in 1 .. n + 1
    BY <2>1 DEF ListInv, List!Dialogs, List!Forums
  <2>. QED
    BY <1>1, <1>2, <1>6, <2>1, <2>4, <2>5, <2>6 DEF ListInv
<1>. QED
  BY <1>7, <1>8

(* The other steps: a dialog passed over, one without topics added, or none *)
(* (ls.go:73-134,197-230).                                                  *)
LEMMA DialogStep ==
    ASSUME ListInv,
           \/ List!Collect \/ List!Blocked \/ List!Simple \/ List!Unknown \/ List!Forum
           \/ List!TopicsFail \/ List!Return \/ UNCHANGED List!vars
    PROVE  ListInv'
<1>0. /\ \E n \in Nat : dialogs \in [1 .. n -> List!Dialogs] /\ dialog \in 1 .. n + 1
      /\ res \in Seq(Nat) /\ result \in Seq(Nat \X Seq(Nat)) /\ ListedTo(dialog)
      /\ where \in {"collect", "dialog", "topics", "done", "error", "panic"}
  BY DEF ListInv
<1>1. UNCHANGED dialogs
  BY DEF List!Collect, List!Blocked, List!Simple, List!Unknown, List!Forum, List!TopicsFail,
         List!Return, List!vars
<1>2. /\ \A k : List!Listed(k)' = List!Listed(k) /\ List!TopicsOf(k)' = List!TopicsOf(k)
      /\ \A s : List!Ascending(s)' = List!Ascending(s)
      /\ List!Dialogs' = List!Dialogs
  BY <1>1 DEF List!Listed, List!TopicsOf, List!Ascending, List!Dialogs, List!Forums
<1>3. ASSUME dialog \in DOMAIN dialogs
      PROVE  \E n \in Nat : dialogs \in [1 .. n -> List!Dialogs] /\ dialog + 1 \in 1 .. n + 1
  BY <1>3, DialogAdvances
<1>4. CASE List!Blocked \/ (List!Unknown /\ dialog' = dialog + 1)
  <2>1. /\ where = "dialog" /\ dialog \in DOMAIN dialogs /\ ~List!Listed(dialog)
        /\ where' = where /\ res' = res /\ result' = result /\ dialog' = dialog + 1
    <3>1. dialog + 1 # dialog
      BY <1>0
    <3>2. CASE List!Blocked
      BY <3>2 DEF List!Blocked, List!AtDialog, List!Dialog, List!Listed
    <3>3. CASE List!Unknown /\ dialog' = dialog + 1
      <4>1. dialogs[dialog].kind = "chat"
        BY <3>1, <3>3 DEF List!Unknown, List!Dialog
      <4>. QED
        BY <3>3, <4>1 DEF List!Unknown, List!AtDialog, List!Dialog, List!Listed
    <3>. QED
      BY <1>4, <3>2, <3>3
  <2>2. ListedTo(dialog)'
    BY <1>1, <2>1, DialogPassed
  <2>. QED
    BY <1>0, <1>1, <1>2, <1>3, <2>1, <2>2 DEF ListInv, TopicsTo
<1>5. CASE List!Simple
  <2>1. /\ where = "dialog" /\ dialog \in DOMAIN dialogs /\ List!Listed(dialog)
        /\ dialogs[dialog].forum = <<>>
        /\ where' = where /\ res' = res /\ dialog' = dialog + 1
        /\ result' = Append(result, <<dialog, <<>>>>)
    BY <1>5 DEF List!Simple, List!AtDialog, List!Dialog, List!Listed
  <2>2. <<>> \in Seq(Nat) /\ List!Ascending(<<>>) /\ Range(<<>>) = List!TopicsOf(dialog)
    BY <2>1 DEF List!Ascending, List!TopicsOf, Range
  <2>3. result' \in Seq(Nat \X Seq(Nat)) /\ ListedTo(dialog)'
    BY <1>1, <2>1, <2>2, DialogListed
  <2>. QED
    BY <1>0, <1>1, <1>2, <1>3, <2>1, <2>3 DEF ListInv, TopicsTo
<1>6. CASE List!Forum
  <2>1. /\ where = "dialog" /\ dialog \in DOMAIN dialogs /\ List!Listed(dialog)
        /\ where' = "topics" /\ offset' = 0 /\ res' = <<>>
        /\ UNCHANGED <<dialog, result>>
    BY <1>6 DEF List!Forum, List!AtDialog, List!Dialog, List!Listed
  <2>2. Len(dialogs[dialog].forum) \in Nat
        /\ List!TopicsOf(dialog) \subseteq 1 .. Len(dialogs[dialog].forum)
    BY <2>1, ForumTyped
  <2>3. {k \in List!TopicsOf(dialog) : k <= 0} = {}
    BY <2>2
  <2>4. <<>> \in Seq(Nat) /\ List!Ascending(<<>>) /\ Range(<<>>) = {}
    BY DEF List!Ascending, Range
  <2>5. TopicsTo'
    BY <1>1, <1>2, <2>1, <2>2, <2>3, <2>4 DEF TopicsTo
  <2>6. ListedTo(dialog)'
    BY <1>0, <1>1, <1>2, <2>1 DEF ListedTo
  <2>. QED
    BY <1>0, <1>1, <1>2, <2>1, <2>4, <2>5, <2>6 DEF ListInv
<1>7. CASE \/ List!Collect \/ (List!Unknown /\ dialog' = dialog) \/ List!TopicsFail
           \/ List!Return \/ UNCHANGED List!vars
  <2>1. UNCHANGED <<dialog, offset, res, result>>
    BY <1>7 DEF List!Collect, List!Unknown, List!TopicsFail, List!Return, List!vars
  <2>2. /\ where' \in {"collect", "dialog", "topics", "done", "error", "panic"}
        /\ where' = "topics" => where = "topics"
        /\ where' = "done" => where = "done" \/ dialog \notin DOMAIN dialogs
    BY <1>0, <1>7 DEF List!Collect, List!Unknown, List!AtDialog, List!TopicsFail, List!Return,
                      List!vars
  <2>3. ListedTo(dialog)' /\ TopicsTo'
    BY <1>0, <1>1, <1>2, <2>1, <2>2 DEF ListInv, ListedTo, TopicsTo
  <2>. QED
    BY <1>0, <1>1, <1>2, <2>1, <2>2, <2>3 DEF ListInv
<1>8. List!Unknown => dialog' = dialog + 1 \/ dialog' = dialog
  BY DEF List!Unknown
<1>. QED
  BY <1>4, <1>5, <1>6, <1>7, <1>8

(* List starts with none.                                                   *)
LEMMA ListStarts == List!Init => ListInv
<1> SUFFICES ASSUME List!Init PROVE ListInv
  OBVIOUS
<1>1. /\ where = "collect" /\ dialog = 1 /\ res = <<>> /\ result = <<>>
      /\ dialogs \in UNION {[1 .. n -> List!Dialogs] : n \in 0 .. MaxDialogs}
  BY DEF List!Init
<1>2. \E n \in Nat : dialogs \in [1 .. n -> List!Dialogs] /\ dialog \in 1 .. n + 1
  BY <1>1
<1>3. \A k \in DOMAIN dialogs : ~(k < 1)
  BY <1>2
<1>4. ListedTo(dialog) /\ TopicsTo
  BY <1>1, <1>3 DEF ListedTo, TopicsTo
<1>. QED
  BY <1>1, <1>2, <1>4 DEF ListInv

(* What List returns is complete: of the dialogs it should list, each once, *)
(* in order, with all topics of its forum, for pages of every size, however *)
(* deleted topics are spread over them (ls.go:91-133,196-254).              *)
THEOREM ListCorrect == List!ListAssumption => (List!Spec => []List!ListIsComplete)
<1> SUFFICES ASSUME List!ListAssumption PROVE List!Spec => []List!ListIsComplete
  OBVIOUS
<1>1. ListInv /\ [List!Next]_List!vars => ListInv'
  BY PageStep, DialogStep DEF List!Next, List!Step
<1>2. ListInv => List!ListIsComplete
  <2> SUFFICES ASSUME ListInv, where = "done" PROVE List!ListIsComplete
    BY DEF List!ListIsComplete
  <2>1. ListedTo(dialog) /\ result \in Seq(Nat \X Seq(Nat))
        /\ \A k \in DOMAIN dialogs : k < dialog
    <3>1. PICK n \in Nat : dialogs \in [1 .. n -> List!Dialogs] /\ dialog \in 1 .. n + 1
      BY DEF ListInv
    <3>2. dialog = n + 1
      BY <3>1 DEF ListInv
    <3>. QED
      BY <3>1, <3>2 DEF ListInv
  <2>2. {result[i][1] : i \in DOMAIN result} = {k \in DOMAIN dialogs : List!Listed(k)}
    BY <2>1 DEF ListedTo
  <2>3. List!Ascending([i \in DOMAIN result |-> result[i][1]])
    BY <2>1 DEF ListedTo, List!Ascending
  <2>4. \A i \in DOMAIN result : /\ List!Ascending(result[i][2])
                                 /\ Range(result[i][2]) = List!TopicsOf(result[i][1])
    BY <2>1 DEF ListedTo
  <2>. QED
    BY <2>2, <2>3, <2>4 DEF List!ListIsComplete, List!Range, Range
<1>. QED
  BY <1>1, <1>2, ListStarts, PTL DEF List!Spec

(* Within a forum, every further page moves the offset, unless a page's     *)
(* worth of its topics in a row is deleted (ls.go:218-249): the step that   *)
(* keeps the paging of ListEnds from going round.                           *)
PagingMoves ==
    where = "topics" /\ where' = "topics" => offset' > offset \/ List!DeletedPage(dialog)

THEOREM PagingAdvances == List!ListAssumption => (List!Spec => [][PagingMoves]_List!vars)
<1> SUFFICES ASSUME List!ListAssumption PROVE List!Spec => [][PagingMoves]_List!vars
  OBVIOUS
<1>1. ListInv /\ [List!Next]_List!vars => ListInv'
  BY PageStep, DialogStep DEF List!Next, List!Step
<1>2. ListInv /\ List!Next => PagingMoves
  <2> SUFFICES ASSUME ListInv, List!Next, where = "topics", where' = "topics",
                      ~(offset' > offset)
               PROVE  List!DeletedPage(dialog)
    BY DEF PagingMoves
  <2> DEFINE page == List!Page
             t == List!Topics(page)
             F == Len(dialogs[dialog].forum)
             T == List!TopicsOf(dialog)
  <2>1. /\ ~List!LastPage
        /\ offset' = IF t = <<>> THEN offset ELSE t[Len(t)]
    BY DEF List!Next, List!Step, List!Collect, List!Blocked, List!Simple, List!Unknown,
           List!Forum, List!Return, List!TopicsFail, List!TopicsPage, List!AtDialog
  <2>2. /\ dialog \in DOMAIN dialogs /\ offset \in 0 .. F
        /\ F \in Nat /\ DOMAIN dialogs[dialog].forum = 1 .. F
        /\ dialogs[dialog].forum \in Seq({"topic", "deleted"})
        /\ PageSize \in Nat
    BY ForumTyped DEF ListInv, TopicsTo, List!ListAssumption
  <2>3. /\ offset + PageSize <= F
        /\ t \in Seq(Nat)
        /\ Range(t) = {k \in T : offset < k /\ k <= offset + PageSize}
    BY <2>1, PageTaken
  <2>4. T = {k \in 1 .. F : dialogs[dialog].forum[k] = "topic"}
    BY <2>2 DEF List!TopicsOf
  <2> HIDE DEF page, t, F, T
  <2>5. t = <<>>
    <3> SUFFICES ASSUME t # <<>> PROVE FALSE
      OBVIOUS
    <3>1. Len(t) \in DOMAIN t
      BY <2>3
    <3>2. offset' \in Range(t)
      BY <2>1, <3>1 DEF Range
    <3>3. offset' \in 1 .. F /\ offset < offset'
      BY <2>3, <2>4, <3>2
    <3>. QED
      BY <2>2, <3>3
  <2>6. ASSUME NEW k \in offset + 1 .. offset + PageSize
        PROVE  dialogs[dialog].forum[k] = "deleted"
    <3>1. k \in 1 .. F /\ offset < k /\ k <= offset + PageSize
      BY <2>2, <2>3
    <3>2. k \notin Range(t)
      BY <2>5 DEF Range
    <3>3. dialogs[dialog].forum[k] # "topic"
      BY <2>3, <2>4, <3>1, <3>2
    <3>4. dialogs[dialog].forum[k] \in {"topic", "deleted"}
      BY <2>2, <3>1
    <3>. QED
      BY <3>3, <3>4
  <2>7. offset \in 0 .. F - PageSize
    BY <2>2, <2>3
  <2>. QED
    BY <2>6, <2>7 DEF List!DeletedPage, F
<1>. QED
  BY <1>1, <1>2, ListStarts, PTL DEF List!Spec
=============================================================================
