------------------------- MODULE RedditSourceProofs -------------------------
(***************************************************************************)
(* For any listing, limit, page size, number of retries, galleries and     *)
(* channel capacity: what a call that is done has got is what was asked    *)
(* for, up to the stated price of retries and errors, and what the feeder  *)
(* has read when the channel is closed is exactly the wanted files of the  *)
(* posts got, each once and in order.                                      *)
(*                                                                         *)
(* The loop over a gallery is a recursive function; its values are found   *)
(* by induction, which rests on the least element of a set of numbers.     *)
(***************************************************************************)
EXTENDS RedditSource, SequenceTheorems, WellFoundedInduction, TLAPS

(* Every set of numbers that has an element has a least one.                *)
LEMMA LeastNat ==
    ASSUME NEW S \in SUBSET Nat, S # {}
    PROVE  \E m \in S : \A n \in S : m <= n
<1> DEFINE R == OpToRel(<, Nat)
<1>1. IsWellFoundedOn(R, Nat)
  BY NatLessThanWellFounded, Zenon
<1>2. \A m, n \in Nat : m < n => <<m, n>> \in R
  BY DEF OpToRel
<1> HIDE DEF R
<1>3. \E x \in S : \A y \in S : ~ (<<y, x>> \in R)
  BY <1>1, WFMin
<1>4. PICK x \in S : \A y \in S : ~ (<<y, x>> \in R)
  BY <1>3
<1>5. ASSUME NEW n \in S PROVE x <= n
  <2>1. ~ (n < x)
    BY <1>2, <1>4
  <2>. QED
    BY <2>1
<1>. QED
  BY <1>5

(* Induction: a set of numbers with 0, and with n + 1 for each n in it, has *)
(* all of them.                                                             *)
LEMMA NatInd ==
    ASSUME NEW S \in SUBSET Nat, 0 \in S, \A n \in S : n + 1 \in S
    PROVE  S = Nat
<1> SUFFICES ASSUME Nat \ S # {} PROVE FALSE
  OBVIOUS
<1>1. PICK m \in Nat \ S : \A n \in Nat \ S : m <= n
  BY LeastNat
<1>2. m # 0 /\ m - 1 \in Nat /\ m - 1 \in S
  BY <1>1
<1>. QED
  BY <1>1, <1>2

(* One turn of the loop over a gallery, and the images after each of m      *)
(* turns (sources/reddit.go:70-89).                                         *)
Turn(images, n, k) ==
    IF rposts[n].gallery[k] # "img" \/ Enough(images) THEN images
    ELSE Append(images, Image(n, k))

Turns(f, n, m) ==
    f = [k \in 0 .. m |-> IF k = 0 THEN <<>> ELSE Turn(f[k - 1], n, k)]

(* The loop over a gallery has a result after any number of turns           *)
(* (sources/reddit.go:70-89).                                               *)
LEMMA TurnsEnd ==
    ASSUME NEW n, NEW m \in Nat
    PROVE  \E f : Turns(f, n, m)
<1> DEFINE S == {k \in Nat : \E f : Turns(f, n, k)}
<1>1. 0 \in S
  <2>1. Turns([k \in 0 .. 0 |-> <<>>], n, 0)
    BY DEF Turns
  <2>. QED
    BY <2>1
<1>2. ASSUME NEW k \in S PROVE k + 1 \in S
  <2>1. PICK f : Turns(f, n, k)
    OBVIOUS
  <2> DEFINE g == [l \in 0 .. k + 1 |-> IF l <= k THEN f[l] ELSE Turn(f[k], n, l)]
  <2>2. ASSUME NEW l \in 0 .. k + 1
        PROVE  g[l] = IF l = 0 THEN <<>> ELSE Turn(g[l - 1], n, l)
    <3>1. CASE l <= k
      BY <2>1, <3>1 DEF Turns
    <3>2. CASE l = k + 1
      BY <2>1, <3>2 DEF Turns
    <3>. QED
      BY <3>1, <3>2
  <2>3. Turns(g, n, k + 1)
    <3> HIDE DEF g
    <3>1. g = [l \in 0 .. k + 1 |-> g[l]]
      BY DEF g
    <3>. QED
      BY <2>2, <3>1 DEF Turns
  <2>. QED
    BY <2>3
<1> HIDE DEF S
<1>3. S = Nat
  <2>1. S \in SUBSET Nat
    BY DEF S
  <2>. QED
    BY <1>1, <1>2, <2>1, NatInd
<1>. QED
  BY <1>3 DEF S

(* The images of a gallery are those after the last turn of its loop        *)
(* (sources/reddit.go:67-91).                                               *)
LEMMA GalleryTurns ==
    ASSUME NEW n, NEW m \in Nat, m = Len(rposts[n].gallery)
    PROVE  \E f : Turns(f, n, m) /\ Gallery(n) = f[m]
<1>1. \E f : Turns(f, n, m)
  BY TurnsEnd
<1>2. Gallery(n) = (CHOOSE f : Turns(f, n, m))[m]
  BY DEF Gallery, Turns, Turn
<1>. QED
  BY <1>1, <1>2

-----------------------------------------------------------------------------
(* What has come is the beginning of the listing, and while the call goes   *)
(* on the token stands at its end.                                          *)
Prefix ==
    /\ total = Len(rposts)
    /\ Len(got) <= total
    /\ \A k \in 1 .. Len(got) : got[k] = k
    /\ pc \in {"idle", "head", "asked"} => nextToken = Len(got)
    /\ pc = "idle" => got = <<>> /\ retries = 0

(* What is left of the limit, with the page under way.                      *)
Left == IF pc = "asked" THEN page + limit ELSE limit

(* GetPosts: what has come and what is left are at most what was asked for, *)
(* and short of it by a page for each 429; a page without a limit is the    *)
(* last.                                                                    *)
PostsBudget ==
    op = "GetPosts" /\ pc \in {"head", "asked"} =>
        /\ Len(got) + Left <= asked
        /\ asked <= Len(got) + Left + retries * PageSize
        /\ Len(got) < asked
        /\ pc = "asked" /\ page = 0 => limit = 0

(* SearchSubreddits has no retries: nothing is lost, and no page is asked   *)
(* for without a limit unless none was given.                               *)
SearchBudget ==
    op = "SearchSubreddits" /\ pc \in {"head", "asked"} =>
        /\ Len(got) + Left = asked
        /\ IF asked = 0 THEN Left = 0 ELSE IF pc = "head" THEN limit > 0 ELSE page > 0

PageInv == ListingTypeOK /\ Prefix /\ PostsBudget /\ SearchBudget /\ LimitNearlyKept

(* A page appended to the beginning of the listing is a longer beginning,   *)
(* which ends at LastPost (reddit.go:124-127).                              *)
LEMMA AnswerIsPrefix ==
    ASSUME PageInv, Answer
    PROVE  /\ got' \in Seq(Nat) /\ Len(got') = LastPost
           /\ LastPost \in Nat /\ LastPost <= total /\ nextToken <= LastPost
           /\ LastPost <= nextToken + Served
           /\ \A k \in 1 .. Len(got') : got'[k] = k
           /\ LastPost = total \/ LastPost = nextToken + Served
<1> DEFINE more == [k \in 1 .. LastPost - nextToken |-> nextToken + k]
<1>1. LastPost \in Nat /\ LastPost <= total /\ nextToken <= LastPost
      /\ LastPost <= nextToken + Served
      /\ (LastPost = total \/ LastPost = nextToken + Served) /\ nextToken = Len(got)
      /\ nextToken \in Nat
  BY ListingAssumption DEF PageInv, ListingTypeOK, Prefix, Answer, LastPost, Served, Least
<1>2. more \in Seq(Nat) /\ Len(more) = LastPost - nextToken
      /\ \A k \in 1 .. LastPost - nextToken : more[k] = nextToken + k
  <2>1. \A k \in 1 .. LastPost - nextToken : nextToken + k \in Nat
    BY <1>1
  <2>2. LastPost - nextToken \in Nat
    BY <1>1
  <2>. QED
    BY <2>1, <2>2, IsASeq
<1>3. got \in Seq(Nat) /\ got' = got \o more
  BY DEF PageInv, ListingTypeOK, Answer
<1> HIDE DEF more
<1>4. got' \in Seq(Nat) /\ Len(got') = Len(got) + Len(more)
      /\ \A i \in 1 .. Len(got) + Len(more) :
            got'[i] = IF i <= Len(got) THEN got[i] ELSE more[i - Len(got)]
  BY <1>2, <1>3, ConcatProperties
<1>5. ASSUME NEW k \in 1 .. Len(got') PROVE got'[k] = k
  <2>1. CASE k <= Len(got)
    BY <1>1, <1>3, <1>4, <2>1 DEF PageInv, Prefix
  <2>2. CASE k > Len(got)
    <3>1. k - Len(got) \in 1 .. LastPost - nextToken
      BY <1>1, <1>2, <1>3, <1>4, <2>2
    <3>. QED
      BY <1>1, <1>2, <1>3, <1>4, <2>2, <3>1
  <2>. QED
    BY <1>3, <2>1, <2>2
<1>. QED
  BY <1>1, <1>2, <1>3, <1>4, <1>5

(* A page keeps the budget; when the loop ends with it, the limit is kept   *)
(* up to the pages that 429 answers took (reddit.go:124-133).               *)
LEMMA AnswerStep == PageInv /\ Answer => PageInv' \/ total' # Len(rposts)'
<1> SUFFICES ASSUME PageInv, Answer, total' = Len(rposts)'
             PROVE  PageInv'
  OBVIOUS
<1> USE ListingAssumption
<1>1. /\ got' \in Seq(Nat) /\ Len(got') = LastPost
      /\ LastPost \in Nat /\ LastPost <= total /\ nextToken <= LastPost
      /\ LastPost <= nextToken + Served
      /\ \A k \in 1 .. Len(got') : got'[k] = k
      /\ LastPost = total \/ LastPost = nextToken + Served
  BY AnswerIsPrefix
<1>2. ListingTypeOK'
  BY <1>1 DEF PageInv, ListingTypeOK, Answer, After
<1>3. /\ nextToken = Len(got) /\ nextToken \in Nat /\ total \in Nat /\ page \in Nat
      /\ limit \in Nat /\ asked \in Nat /\ pc = "asked" /\ op \in Ops
      /\ op # "GetSubscribedSubreddits" => page <= PageSize
      /\ retries \in Nat /\ errors \in Nat /\ Left = page + limit
  BY DEF PageInv, Prefix, ListingTypeOK, Answer, Left
<1>4. /\ nextToken' = After /\ pc' = IF LastPage THEN "done" ELSE "head"
      /\ UNCHANGED <<op, asked, limit, page, total, retries, errors>>
  BY DEF Answer
<1>5. After = IF LastPost = total THEN 0 ELSE LastPost
  BY DEF After
<1>6. LastPage <=> After = 0 \/ (op # "GetSubscribedSubreddits" /\ limit = 0)
  BY DEF LastPage
<1>7. Served \in Nat /\ Served > 0 /\ Served = IF page = 0 THEN DefaultSize ELSE page
  BY <1>3 DEF Served
<1>8. Prefix'
  BY <1>1, <1>3, <1>4, <1>5, <1>6 DEF Prefix
<1> DEFINE R == retries * PageSize
<1>9. R \in Nat /\ R' = R /\ (retries = 0 => R = 0)
  BY <1>3, <1>4
<1>10. op = "GetPosts" => /\ Len(got) + page + limit <= asked
                          /\ asked <= Len(got) + page + limit + R
                          /\ Len(got) < asked
                          /\ page = 0 => limit = 0
  BY <1>3 DEF PageInv, PostsBudget
<1>11. op = "SearchSubreddits" => /\ Len(got) + page + limit = asked
                                  /\ IF asked = 0 THEN page + limit = 0 ELSE page > 0
  BY <1>3 DEF PageInv, SearchBudget
<1> HIDE DEF R
<1>12. PostsBudget'
  <2> SUFFICES ASSUME op = "GetPosts", pc' = "head"
               PROVE  /\ Len(got') + limit <= asked
                      /\ asked <= Len(got') + limit + R
                      /\ Len(got') < asked
    BY <1>4, <1>9 DEF PostsBudget, Left, R
  <2>1. limit > 0 /\ LastPost # total
    BY <1>3, <1>4, <1>5, <1>6
  <2>2. Len(got') = Len(got) + page
    BY <1>1, <1>3, <1>7, <1>10, <2>1
  <2>. QED
    BY <1>3, <1>9, <1>10, <2>1, <2>2
<1>13. SearchBudget'
  <2> SUFFICES ASSUME op = "SearchSubreddits", pc' = "head"
               PROVE  /\ Len(got') + limit = asked
                      /\ IF asked = 0 THEN limit = 0 ELSE limit > 0
    BY <1>4 DEF SearchBudget, Left
  <2>1. limit > 0 /\ LastPost # total
    BY <1>3, <1>4, <1>5, <1>6
  <2>2. Len(got') = Len(got) + page
    BY <1>1, <1>3, <1>7, <1>11, <2>1
  <2>. QED
    BY <1>3, <1>11, <2>1, <2>2
<1>14. pc' = "done" => LastPost = total \/ (op # "GetSubscribedSubreddits" /\ limit = 0)
  BY <1>1, <1>3, <1>4, <1>5, <1>6, <1>7
<1>15. LimitNearlyKept'
  <2>1. ASSUME op = "GetPosts", pc' = "done"
        PROVE  /\ retries = 0 => Len(got') = Least(asked, total)
               /\ Len(got') < asked + DefaultSize
               /\ Len(got') >= Least(asked, total) \/ asked - Len(got') <= R
    <3>1. LastPost = total \/ limit = 0
      BY <1>14, <2>1
    <3>2. retries = 0 => Len(got') = Least(asked, total)
      BY <1>1, <1>3, <1>7, <1>9, <1>10, <2>1, <3>1 DEF Least
    <3>3. Len(got') < asked + DefaultSize
      BY <1>1, <1>3, <1>7, <1>10, <2>1
    <3>4. Len(got') >= Least(asked, total) \/ asked - Len(got') <= R
      BY <1>1, <1>3, <1>7, <1>9, <1>10, <2>1, <3>1 DEF Least
    <3>. QED
      BY <3>2, <3>3, <3>4
  <2>2. ASSUME op # "GetPosts", pc' = "done"
        PROVE  \/ Len(got') = total \/ errors > 0
               \/ /\ op = "SearchSubreddits"
                  /\ Len(got') = IF asked > 0 THEN asked ELSE DefaultSize
    BY <1>1, <1>3, <1>7, <1>11, <1>14, <2>2 DEF Ops
  <2>. QED
    BY <1>1, <1>4, <2>1, <2>2 DEF LimitNearlyKept, R
<1>. QED
  BY <1>2, <1>8, <1>12, <1>13, <1>15 DEF PageInv

(* Asking, answers, 429 answers and errors preserve the invariant of the    *)
(* loop (reddit.go:89-131).                                                 *)
LEMMA PagingStep == PageInv /\ Paging /\ UNCHANGED input => PageInv'
<1> SUFFICES ASSUME PageInv, Paging, UNCHANGED input PROVE PageInv'
  OBVIOUS
<1> USE ListingAssumption
<1>0. rposts' = rposts
  BY DEF input, rposts
<1>1. CASE Ask
  <2>1. ListingTypeOK'
    BY <1>1 DEF PageInv, ListingTypeOK, Ask, PageLimit, Least
  <2>2. Prefix'
    BY <1>0, <1>1 DEF PageInv, Prefix, Ask
  <2>3. PostsBudget'
    BY <1>1 DEF PageInv, ListingTypeOK, PostsBudget, Left, Ask, PageLimit, Least
  <2>4. SearchBudget'
    BY <1>1 DEF PageInv, ListingTypeOK, SearchBudget, Left, Ask, PageLimit, Least
  <2>5. LimitNearlyKept'
    BY <1>1 DEF PageInv, LimitNearlyKept, Ask
  <2>. QED
    BY <2>1, <2>2, <2>3, <2>4, <2>5 DEF PageInv
<1>2. CASE Answer
  <2>1. total' = Len(rposts)'
    BY <1>0, <1>2 DEF PageInv, Prefix, Answer
  <2>. QED
    BY <1>2, <2>1, AnswerStep
<1>3. CASE RateLimited
  <2>1. ListingTypeOK'
    BY <1>3 DEF PageInv, ListingTypeOK, RateLimited, SamePageAgain
  <2>2. Prefix'
    BY <1>0, <1>3 DEF PageInv, Prefix, RateLimited, SamePageAgain
  <2>3. PostsBudget'
    <3> DEFINE R == retries * PageSize
    <3>1. retries \in Nat /\ R \in Nat /\ (retries + 1) * PageSize = R + PageSize
      BY <1>3 DEF PageInv, ListingTypeOK
    <3>2. /\ Len(got) + page + limit <= asked
          /\ asked <= Len(got) + page + limit + R
          /\ Len(got) < asked
          /\ page <= PageSize
          /\ got \in Seq(Nat) /\ page \in Nat /\ limit \in Nat /\ asked \in Nat
      BY <1>3 DEF PageInv, ListingTypeOK, PostsBudget, Left, RateLimited
    <3> HIDE DEF R
    <3>3. /\ Len(got) + limit <= asked
          /\ asked <= Len(got) + limit + (R + PageSize)
      BY <3>1, <3>2
    <3>. QED
      BY <1>3, <3>1, <3>2, <3>3 DEF PostsBudget, Left, RateLimited
  <2>4. SearchBudget'
    BY <1>3 DEF SearchBudget, RateLimited
  <2>5. LimitNearlyKept'
    BY <1>3 DEF PageInv, LimitNearlyKept, RateLimited
  <2>. QED
    BY <2>1, <2>2, <2>3, <2>4, <2>5 DEF PageInv
<1>4. CASE Fails
  <2>1. ListingTypeOK'
    <3>0. <<>> \in Seq(Nat) /\ got \in Seq(Nat)
      BY DEF PageInv, ListingTypeOK
    <3>1. got' \in Seq(Nat)
      BY <1>4, <3>0 DEF Fails
    <3>2. pc' \in {"done", "error", "panic"}
      BY <1>4 DEF Fails
    <3>3. errors' \in Nat
      BY <1>4 DEF PageInv, ListingTypeOK, Fails
    <3>4. UNCHANGED <<op, asked, limit, page, nextToken, total, retries>>
      BY <1>4 DEF Fails
    <3>. QED
      BY <3>1, <3>2, <3>3, <3>4 DEF PageInv, ListingTypeOK
  <2>2. Prefix'
    BY <1>0, <1>4 DEF PageInv, Prefix, ListingTypeOK, Fails
  <2>3. PostsBudget' /\ SearchBudget'
    BY <1>4 DEF PostsBudget, SearchBudget, Fails
  <2>4. LimitNearlyKept'
    BY <1>4 DEF PageInv, Prefix, ListingTypeOK, LimitNearlyKept, Fails
  <2>. QED
    BY <2>1, <2>2, <2>3, <2>4 DEF PageInv
<1>. QED
  BY <1>1, <1>2, <1>3, <1>4 DEF Paging

(* A call starts with all of its budget (reddit.go:81-88,183-193).          *)
LEMMA CallStep ==
    ASSUME PageInv, NEW n \in Nat, Call(n), UNCHANGED input
    PROVE  PageInv'
<1> USE ListingAssumption
<1>0. rposts' = rposts
  BY DEF input, rposts
<1>1. ListingTypeOK'
  BY DEF PageInv, ListingTypeOK, Call, sanitize
<1>2. Prefix'
  BY <1>0 DEF PageInv, Prefix, Call
<1>3. got = <<>> /\ retries = 0
  BY DEF PageInv, Prefix, Call
<1>4. PostsBudget'
  BY <1>3 DEF PostsBudget, Left, Call, sanitize
<1>5. SearchBudget'
  BY <1>3 DEF SearchBudget, Left, Call, sanitize
<1>6. LimitNearlyKept'
  BY DEF PageInv, LimitNearlyKept, Call
<1>. QED
  BY <1>1, <1>2, <1>4, <1>5, <1>6 DEF PageInv

(* Converting and feeding do not touch the listing.                         *)
LEMMA PageSame == PageInv /\ UNCHANGED <<listing, input>> => PageInv'
BY DEF PageInv, ListingTypeOK, Prefix, PostsBudget, SearchBudget, Left, LimitNearlyKept,
   listing, input, rposts

(* Before a call nothing has been got.                                      *)
LEMMA PageInit == Init => PageInv
<1> SUFFICES ASSUME Init PROVE PageInv
  OBVIOUS
<1>1. call \in Seq(RedditPosts) \X Nat
  BY SourceAssumption DEF Init
<1>2. Len(rposts) \in Nat
  BY <1>1 DEF rposts
<1>. QED
  BY <1>2, ListingAssumption DEF Init, ListingInit, PageInv, ListingTypeOK, Prefix, PostsBudget,
     SearchBudget, LimitNearlyKept

-----------------------------------------------------------------------------
(* A post that is one file, not a gallery.                                  *)
IsSingle(n) ==
    \/ rposts[n].url = "img"
    \/ rposts[n].url = "other" /\ rposts[n].video /\ ~SkipVideos

(* The wanted files of post n, and of the first d posts.                    *)
FilesOf(n) ==
    {x \in {n} \X (0 .. MaxFiles) : IF x[2] = 0 THEN IsSingle(n) ELSE Due(n, x[2])}

FilesTo(d) == UNION {FilesOf(n) : n \in 1 .. d}

(* A converted post is a video just when its URL leads to no image.         *)
TypeFits(x) == x.type = "vids" <=> rposts[x.from[1]].url = "other"

(* The converted posts s are those of the files F, each once and in order.  *)
Comes(s, F) ==
    /\ s \in Seq(Posts)
    /\ \A i \in DOMAIN s : s[i].from \in F /\ TypeFits(s[i])
    /\ \A x \in F : \E i \in DOMAIN s : s[i].from = x
    /\ \A i, j \in DOMAIN s : i < j => Before(s[i].from, s[j].from)

(* No posts are those of no files.                                          *)
LEMMA ComesNone == Comes(<<>>, {})
<1>1. <<>> \in Seq(Posts) /\ DOMAIN <<>> = {}
  OBVIOUS
<1>. QED
  BY <1>1 DEF Comes

(* One converted post is that of its file.                                  *)
LEMMA ComesOne ==
    ASSUME NEW e \in Posts, TypeFits(e)
    PROVE  Comes(<<e>>, {e.from})
<1>1. <<e>> \in Seq(Posts) /\ DOMAIN <<e>> = {1} /\ <<e>>[1] = e
  OBVIOUS
<1>2. \A i, j \in {1} : ~ (i < j)
  OBVIOUS
<1>. QED
  BY <1>1, <1>2 DEF Comes

(* The posts of some files, followed by those of later files, are the posts *)
(* of both.                                                                 *)
LEMMA ComesConcat ==
    ASSUME NEW s, NEW t, NEW F, NEW G, Comes(s, F), Comes(t, G),
           \A x \in F, y \in G : Before(x, y)
    PROVE  Comes(s \o t, F \cup G)
<1> DEFINE u == s \o t
<1>1. s \in Seq(Posts) /\ t \in Seq(Posts)
  BY DEF Comes
<1>2. /\ u \in Seq(Posts) /\ Len(u) = Len(s) + Len(t) /\ DOMAIN u = 1 .. Len(s) + Len(t)
      /\ Len(s) \in Nat /\ Len(t) \in Nat /\ DOMAIN s = 1 .. Len(s) /\ DOMAIN t = 1 .. Len(t)
      /\ \A i \in 1 .. Len(s) + Len(t) : u[i] = IF i <= Len(s) THEN s[i] ELSE t[i - Len(s)]
  BY <1>1, ConcatProperties, LenProperties
<1> HIDE DEF u
<1>3. ASSUME NEW i \in DOMAIN u
      PROVE  \/ i \in DOMAIN s /\ u[i] = s[i]
             \/ i > Len(s) /\ i - Len(s) \in DOMAIN t /\ u[i] = t[i - Len(s)]
  BY <1>2
<1>4. \A i \in DOMAIN u : u[i].from \in F \cup G /\ TypeFits(u[i])
  BY <1>3 DEF Comes
<1>5. ASSUME NEW x \in F \cup G PROVE \E i \in DOMAIN u : u[i].from = x
  <2>1. CASE x \in F
    <3>1. PICK i \in DOMAIN s : s[i].from = x
      BY <2>1 DEF Comes
    <3>. QED
      BY <1>2, <3>1
  <2>2. CASE x \in G
    <3>1. PICK i \in DOMAIN t : t[i].from = x
      BY <2>2 DEF Comes
    <3>2. i + Len(s) \in DOMAIN u /\ u[i + Len(s)] = t[i]
      BY <1>2
    <3>. QED
      BY <3>1, <3>2
  <2>. QED
    BY <2>1, <2>2
<1>6. ASSUME NEW i \in DOMAIN u, NEW j \in DOMAIN u, i < j
      PROVE  Before(u[i].from, u[j].from)
  <2>1. CASE i \in DOMAIN s /\ j \in DOMAIN s
    <3>1. u[i] = s[i] /\ u[j] = s[j]
      BY <1>2, <2>1
    <3>. QED
      BY <1>6, <2>1, <3>1 DEF Comes
  <2>2. CASE i \in DOMAIN s /\ j > Len(s)
    <3>1. u[i] = s[i] /\ j - Len(s) \in DOMAIN t /\ u[j] = t[j - Len(s)]
      BY <1>2, <2>2
    <3>2. s[i].from \in F /\ t[j - Len(s)].from \in G
      BY <2>2, <3>1 DEF Comes
    <3>. QED
      BY <3>1, <3>2
  <2>3. CASE i > Len(s)
    <3>1. /\ i - Len(s) \in DOMAIN t /\ u[i] = t[i - Len(s)]
          /\ j - Len(s) \in DOMAIN t /\ u[j] = t[j - Len(s)]
          /\ i - Len(s) < j - Len(s)
      BY <1>2, <1>6, <2>3
    <3>. QED
      BY <3>1 DEF Comes
  <2>. QED
    BY <1>2, <2>1, <2>2, <2>3
<1>. QED
  BY <1>2, <1>4, <1>5, <1>6 DEF Comes, u

(* What is known of a post of the listing (pkg/reddit/post.go:9-55).        *)
LEMMA PostIsRecord ==
    ASSUME call \in Calls, NEW n \in DOMAIN rposts
    PROVE  /\ n \in Nat /\ rposts[n] \in RedditPosts
           /\ rposts[n].url \in {"gallery", "img", "other"}
           /\ Len(rposts[n].gallery) \in 0 .. MaxFiles
           /\ DOMAIN rposts[n].gallery = 1 .. Len(rposts[n].gallery)
           /\ \A k \in DOMAIN rposts[n].gallery : rposts[n].gallery[k] \in {"img", "other"}
           /\ rposts[n].url # "gallery" => rposts[n].gallery = <<>>
<1>1. rposts \in Seq(RedditPosts)
  BY SourceAssumption DEF rposts
<1>2. n \in Nat /\ rposts[n] \in RedditPosts
  BY <1>1
<1>3. PICK k \in 0 .. MaxFiles : rposts[n].gallery \in [1 .. k -> {"img", "other"}]
  BY <1>2 DEF RedditPosts, Galleries
<1>4. rposts[n].gallery \in Seq({"img", "other"}) /\ Len(rposts[n].gallery) = k
  <2> DEFINE g == rposts[n].gallery
  <2>1. k \in Nat /\ g \in [1 .. k -> {"img", "other"}]
    BY <1>3, SourceAssumption
  <2> HIDE DEF g
  <2>2. g = [l \in 1 .. k |-> g[l]] /\ \A l \in 1 .. k : g[l] \in {"img", "other"}
    BY <2>1
  <2>3. g \in Seq({"img", "other"}) /\ Len(g) = k
    BY <2>1, <2>2, IsASeq
  <2>. QED
    BY <2>3 DEF g
<1>. QED
  BY <1>2, <1>3, <1>4 DEF RedditPosts

(* The loop over a gallery finds its images in their order, and stops after *)
(* the first one with SkipCollection (sources/reddit.go:67-91).             *)
LEMMA GalleryComes ==
    ASSUME call \in Calls, NEW n \in DOMAIN rposts, rposts[n].url = "gallery"
    PROVE  Comes(Gallery(n), FilesOf(n))
<1> DEFINE N == Len(rposts[n].gallery)
           D(m) == {<<n, k>> : k \in {k \in 1 .. m : Due(n, k)}}
<1>1. /\ n \in Nat /\ N \in Nat /\ N <= MaxFiles /\ MaxFiles \in Nat
      /\ DOMAIN rposts[n].gallery = 1 .. N
  BY PostIsRecord, SourceAssumption
<1>2. PICK f : Turns(f, n, N) /\ Gallery(n) = f[N]
  BY <1>1, GalleryTurns
<1>3. /\ f[0] = <<>>
      /\ \A k \in 1 .. N : f[k] = Turn(f[k - 1], n, k)
  <2> DEFINE body(k) == IF k = 0 THEN <<>> ELSE Turn(f[k - 1], n, k)
  <2>1. \A k \in 0 .. N : f[k] = body(k)
    BY <1>2 DEF Turns
  <2>. QED
    BY <1>1, <2>1
<1> DEFINE NoneYet(m) == \A l \in 1 .. m : rposts[n].gallery[l] # "img"
           S == {m \in Nat : m <= N => Comes(f[m], D(m)) /\ (f[m] = <<>> <=> NoneYet(m))}
<1> HIDE DEF N
<1>4. 0 \in S
  <2>1. D(0) = {} /\ NoneYet(0)
    OBVIOUS
  <2>. QED
    BY <1>3, <2>1, ComesNone
<1>5. ASSUME NEW m \in S PROVE m + 1 \in S
  <2> SUFFICES ASSUME m + 1 <= N
               PROVE  Comes(f[m + 1], D(m + 1)) /\ (f[m + 1] = <<>> <=> NoneYet(m + 1))
    OBVIOUS
  <2> DEFINE k == m + 1
  <2>1. /\ m \in Nat /\ k \in 1 .. N /\ k - 1 = m /\ k \in Nat
        /\ Comes(f[m], D(m)) /\ (f[m] = <<>> <=> NoneYet(m))
    BY <1>1
  <2>2. f[k] = IF rposts[n].gallery[k] # "img" \/ Enough(f[m]) THEN f[m]
               ELSE Append(f[m], Image(n, k))
    BY <1>3, <2>1 DEF Turn
  <2>3. \A l : l \in 1 .. k <=> l \in 1 .. m \/ l = k
    BY <2>1
  <2>4. Due(n, k) <=> rposts[n].gallery[k] = "img" /\ ~Enough(f[m])
    BY <1>1, <2>1 DEF Due, Enough
  <2>5. NoneYet(k) <=> NoneYet(m) /\ rposts[n].gallery[k] # "img"
    BY <2>3
  <2> HIDE DEF k
  <2>6. CASE ~Due(n, k)
    <3>1. f[k] = f[m]
      BY <2>2, <2>4, <2>6
    <3>2. D(k) = D(m)
      BY <2>3, <2>6
    <3>3. NoneYet(k) <=> NoneYet(m)
      <4>1. CASE rposts[n].gallery[k] # "img"
        BY <2>5, <4>1
      <4>2. CASE Enough(f[m])
        BY <2>1, <2>5, <4>2 DEF Enough
      <4>. QED
        BY <2>4, <2>6, <4>1, <4>2
    <3>. QED
      BY <2>1, <3>1, <3>2, <3>3 DEF k
  <2>7. CASE Due(n, k)
    <3> DEFINE e == Image(n, k)
    <3>1. e \in Posts /\ TypeFits(e) /\ e.from = <<n, k>>
      BY <1>1, <2>1 DEF Image, Posts, TypeFits
    <3> HIDE DEF e
    <3>2. f[m] \in Seq(Posts)
      BY <2>1 DEF Comes
    <3>3. f[k] = f[m] \o <<e>>
      BY <2>2, <2>4, <2>7, <3>1, <3>2, AppendIsConcat DEF e
    <3>4. D(k) = D(m) \cup {<<n, k>>}
      BY <2>3, <2>7
    <3>5. ASSUME NEW x \in D(m), NEW y \in {<<n, k>>} PROVE Before(x, y)
      <4>1. PICK l \in 1 .. m : x = <<n, l>>
        OBVIOUS
      <4>2. l < k
        BY <2>1 DEF k
      <4>. QED
        BY <4>1, <4>2 DEF Before
    <3>6. Comes(<<e>>, {<<n, k>>})
      BY <3>1, ComesOne
    <3> HIDE DEF D
    <3>7. Comes(f[m] \o <<e>>, D(m) \cup {<<n, k>>})
      BY <2>1, <3>5, <3>6, ComesConcat
    <3>8. f[k] # <<>>
      BY <3>1, <3>2, <3>3
    <3>9. ~NoneYet(k)
      BY <2>4, <2>5, <2>7
    <3>. QED
      BY <3>3, <3>4, <3>7, <3>8, <3>9 DEF k
  <2>. QED
    BY <2>6, <2>7
<1>6. N \in S
  <2> HIDE DEF S
  <2>1. S \in SUBSET Nat
    BY DEF S
  <2>. QED
    BY <1>1, <1>4, <1>5, <2>1, NatInd
<1>7. FilesOf(n) = D(N)
  <2>1. ~IsSingle(n)
    BY DEF IsSingle
  <2>2. ASSUME NEW x \in FilesOf(n) PROVE x \in D(N)
    BY <1>1, <2>1 DEF FilesOf, Due
  <2>3. ASSUME NEW x \in D(N) PROVE x \in FilesOf(n)
    BY <1>1 DEF FilesOf
  <2>. QED
    BY <2>2, <2>3
<1>. QED
  BY <1>1, <1>2, <1>6, <1>7

(* A post is converted to its wanted files (sources/reddit.go:65-119).      *)
LEMMA PostsOfComes ==
    ASSUME call \in Calls, NEW n \in DOMAIN rposts
    PROVE  Comes(PostsOf(n), FilesOf(n))
<1>1. /\ n \in Nat /\ MaxFiles \in Nat /\ rposts[n].url \in {"gallery", "img", "other"}
      /\ rposts[n].url # "gallery" => rposts[n].gallery = <<>>
  BY PostIsRecord, SourceAssumption
<1>2. CASE rposts[n].url = "gallery"
  <2>1. PostsOf(n) = Gallery(n)
    BY <1>2 DEF PostsOf
  <2>. QED
    BY <1>2, <2>1, GalleryComes
<1>3. CASE rposts[n].url # "gallery"
  <2>1. FilesOf(n) = IF IsSingle(n) THEN {<<n, 0>>} ELSE {}
    BY <1>1, <1>3 DEF FilesOf, Due
  <2>2. CASE IsSingle(n)
    <3> DEFINE e == IF rposts[n].url = "img" THEN Image(n, 0) ELSE Video(n)
    <3>1. PostsOf(n) = <<e>>
      BY <1>1, <1>3, <2>2 DEF PostsOf, IsSingle
    <3>2. e \in Posts /\ e.from = <<n, 0>> /\ TypeFits(e)
      BY <1>1, <1>3, <2>2 DEF Image, Video, Posts, TypeFits, IsSingle
    <3> HIDE DEF e
    <3>. QED
      BY <2>1, <2>2, <3>1, <3>2, ComesOne
  <2>3. CASE ~IsSingle(n)
    <3>1. PostsOf(n) = <<>>
      BY <1>1, <1>3, <2>3 DEF PostsOf, IsSingle
    <3>. QED
      BY <2>1, <2>3, <3>1, ComesNone
  <2>. QED
    BY <2>2, <2>3
<1>. QED
  BY <1>2, <1>3

-----------------------------------------------------------------------------
(* What was read, what is in the channel and what waits to be sent are the  *)
(* files of the posts converted so far.                                     *)
FilesCome == Comes(fed \o (p \o converted), FilesTo(Len(got) - Len(posts)))

(* The goroutine of ScrapePosts: what is left to convert is the end of what *)
(* was got, and no file is lost or doubled between loop, channel and        *)
(* feeder.                                                                  *)
FeedInv ==
    /\ conv \in {"scrape", "convert", "send", "closed"}
    /\ SkipCollection \in BOOLEAN /\ SkipVideos \in BOOLEAN /\ call \in Calls
    /\ posts \in Seq(Nat) /\ Len(posts) <= Len(got)
    /\ \A i \in 1 .. Len(posts) : posts[i] = Len(got) - Len(posts) + i
    /\ conv = "scrape" => posts = <<>> /\ converted = <<>> /\ p = <<>> /\ fed = <<>>
    /\ conv # "scrape" => op = "GetPosts" /\ pc \in {"done", "error"}
    /\ conv \in {"send", "closed"} => posts = <<>>
    /\ conv = "closed" => converted = <<>>
    /\ converted \in Seq(Posts) /\ fed \in Seq(Posts)
    /\ p \in Seq(Posts) /\ Len(p) <= BufferSize
    /\ conv # "scrape" => FilesCome

(* Once the channel is closed and empty, the feeder has read all that was   *)
(* wanted of the posts got, each once and in order                          *)
(* (sources/reddit.go:47-119).                                              *)
FedWhenClosed == conv = "closed" /\ p = <<>> => FedWanted

(* The files of one more post.                                              *)
LEMMA FilesToNext ==
    ASSUME NEW d \in Nat
    PROVE  FilesTo(d + 1) = FilesTo(d) \cup FilesOf(d + 1)
<1>1. \A n : n \in 1 .. d + 1 <=> n \in 1 .. d \/ n = d + 1
  OBVIOUS
<1>. QED
  BY <1>1 DEF FilesTo

(* Nothing is converted before the listing.                                 *)
LEMMA FeedInit == Init => FeedInv
<1> SUFFICES ASSUME Init PROVE FeedInv
  OBVIOUS
<1>1. <<>> \in Seq(Nat) /\ <<>> \in Seq(Posts) /\ Len(<<>>) = 0
  OBVIOUS
<1>. QED
  BY <1>1, SourceAssumption DEF Init, ListingInit, FeedInv

(* While pages are asked for, nothing is converted (sources/reddit.go:47).  *)
LEMMA ListStep == PageInv /\ FeedInv /\ List => PageInv' /\ FeedInv'
<1> SUFFICES ASSUME PageInv, FeedInv, List PROVE PageInv' /\ FeedInv'
  OBVIOUS
<1>1. UNCHANGED <<source, input>>
  BY DEF List
<1>2. PageInv'
  <2>1. CASE Call(call[2])
    <3>1. call[2] \in Nat
      BY SourceAssumption DEF FeedInv
    <3>. QED
      BY <1>1, <2>1, <3>1, CallStep
  <2>2. CASE Paging
    BY <1>1, <2>2, PagingStep
  <2>. QED
    BY <2>1, <2>2 DEF List
<1>3. pc \in {"idle", "head", "asked"}
  BY DEF List, Call, Paging, Ask, Answer, RateLimited, Fails
<1>4. conv = "scrape" /\ posts = <<>>
  BY <1>3 DEF FeedInv
<1>5. got' \in Seq(Nat) /\ Len(got') \in Nat /\ Len(<<>>) = 0
  BY <1>2 DEF PageInv, ListingTypeOK
<1>6. FeedInv'
  BY <1>1, <1>4, <1>5 DEF FeedInv, source, input
<1>. QED
  BY <1>2, <1>6

(* A step that keeps the row of converted posts and the number of posts     *)
(* converted keeps them in agreement.                                       *)
LEMMA FilesComeNext ==
    ASSUME UNCHANGED input, NEW s, NEW d, Comes(s, FilesTo(d)),
           fed' \o (p' \o converted') = s, Len(got') - Len(posts') = d
    PROVE  FilesCome'
<1>1. UNCHANGED <<SkipCollection, SkipVideos, rposts>>
  BY DEF input, rposts
<1>2. FilesTo(d)' = FilesTo(d)
  BY <1>1 DEF FilesTo, FilesOf, IsSingle, Due
<1>3. Comes(s, FilesTo(d))'
  BY <1>1, <1>2 DEF Comes, TypeFits
<1>. QED
  BY <1>3 DEF FilesCome

(* The goroutine starts with all posts to convert                           *)
(* (sources/reddit.go:47-51).                                               *)
LEMMA ScrapeStep == PageInv /\ FeedInv /\ Scrape => FeedInv'
<1> SUFFICES ASSUME PageInv, FeedInv, Scrape PROVE FeedInv'
  OBVIOUS
<1>1. /\ op = "GetPosts" /\ pc \in {"done", "error"} /\ conv = "scrape"
      /\ posts' = got /\ conv' = "convert"
      /\ UNCHANGED <<listing, input, converted, p, fed>>
      /\ UNCHANGED <<pc, op, got, SkipCollection, SkipVideos, call>>
  BY DEF Scrape, listing, input
<1>2. converted = <<>> /\ p = <<>> /\ fed = <<>>
  BY <1>1 DEF FeedInv
<1>3. got \in Seq(Nat) /\ Len(got) \in Nat /\ \A k \in 1 .. Len(got) : got[k] = k
  BY DEF PageInv, Prefix, ListingTypeOK
<1>4. FilesCome'
  <2>1. FilesTo(0) = {}
    BY DEF FilesTo
  <2>2. fed' \o (p' \o converted') = <<>>
    BY <1>1, <1>2
  <2>3. Len(got') - Len(posts') = 0
    BY <1>1, <1>3
  <2>. QED
    BY <1>1, <2>1, <2>2, <2>3, ComesNone, FilesComeNext
<1>. QED
  BY <1>1, <1>3, <1>4 DEF FeedInv

(* Concatenation is associative, for the row of what is fed, sent and       *)
(* converted.                                                               *)
LEMMA ConcatFour ==
    ASSUME NEW a \in Seq(Posts), NEW b \in Seq(Posts),
           NEW c \in Seq(Posts), NEW e \in Seq(Posts)
    PROVE  a \o (b \o (c \o e)) = (a \o (b \o c)) \o e
<1>1. b \o c \in Seq(Posts) /\ c \o e \in Seq(Posts)
  OBVIOUS
<1>2. b \o (c \o e) = (b \o c) \o e
  BY ConcatAssociative, SMTT(30)
<1>3. a \o ((b \o c) \o e) = (a \o (b \o c)) \o e
  <2> DEFINE bc == b \o c
  <2> HIDE DEF bc
  <2>1. bc \in Seq(Posts)
    BY <1>1 DEF bc
  <2>2. a \o (bc \o e) = (a \o bc) \o e
    BY <2>1, ConcatAssociative, SMTT(30)
  <2>. QED
    BY <2>2 DEF bc
<1>. QED
  BY <1>2, <1>3

(* Converting a post adds its files at the end of the row                   *)
(* (sources/reddit.go:56,64-119).                                           *)
LEMMA ConvertStep == PageInv /\ FeedInv /\ Convert => FeedInv'
<1> SUFFICES ASSUME PageInv, FeedInv, Convert PROVE FeedInv'
  OBVIOUS
<1>1. /\ conv = "convert" /\ UNCHANGED <<input, p, fed>>
      /\ UNCHANGED <<pc, op, got, SkipCollection, SkipVideos, call>>
  BY DEF Convert, listing, input
<1>2. /\ got \in Seq(Nat) /\ Len(got) \in Nat /\ total = Len(rposts) /\ Len(got) <= total
  BY DEF PageInv, Prefix, ListingTypeOK
<1>3. CASE posts # <<>> /\ converted' = converted \o PostsOf(Head(posts))
           /\ posts' = Tail(posts) /\ UNCHANGED conv
  <2> DEFINE d == Len(got) - Len(posts)
             n == Head(posts)
             ps == PostsOf(n)
             s == fed \o (p \o converted)
  <2>1. /\ posts \in Seq(Nat) /\ Len(posts) \in Nat /\ Len(posts) > 0 /\ Len(posts) <= Len(got)
        /\ \A i \in 1 .. Len(posts) : posts[i] = d + i
        /\ d \in Nat
    BY <1>2, <1>3 DEF FeedInv
  <2>2. n = d + 1 /\ n \in DOMAIN rposts
    <3>1. n = posts[1] /\ 1 \in 1 .. Len(posts)
      BY <2>1
    <3>2. rposts \in Seq(RedditPosts)
      BY SourceAssumption DEF FeedInv, rposts
    <3>3. n = d + 1
      BY <2>1, <3>1
    <3>4. d + 1 <= Len(rposts) /\ d + 1 \in Nat /\ d + 1 >= 1
      BY <1>2, <2>1
    <3>. QED
      BY <3>2, <3>3, <3>4
  <2>3. /\ posts' \in Seq(Nat) /\ Len(posts') = Len(posts) - 1
        /\ \A i \in 1 .. Len(posts') : posts'[i] = posts[i + 1]
    BY <1>3, <2>1
  <2>4. \A i \in 1 .. Len(posts') : posts'[i] = Len(got) - Len(posts') + i
    BY <1>2, <2>1, <2>3, SMTT(30)
  <2>5. Comes(ps, FilesOf(d + 1)) /\ ps \in Seq(Posts)
    <3>1. Comes(ps, FilesOf(n))
      BY <2>2, PostsOfComes DEF FeedInv
    <3>. QED
      BY <2>2, <3>1 DEF Comes
  <2>6. converted' = converted \o ps
    BY <1>3
  <2> HIDE DEF ps, n
  <2>7. converted \in Seq(Posts) /\ p \in Seq(Posts) /\ fed \in Seq(Posts)
        /\ Comes(s, FilesTo(d))
    BY <1>1 DEF FeedInv, FilesCome
  <2>8. converted' \in Seq(Posts)
    BY <2>5, <2>6, <2>7
  <2>9. fed' \o (p' \o converted') = s \o ps
    <3>1. ps \in Seq(Posts)
          /\ fed \in Seq(Posts) /\ p \in Seq(Posts) /\ converted \in Seq(Posts)
      BY <2>5, <2>7
    <3>2. fed \o (p \o (converted \o ps)) = (fed \o (p \o converted)) \o ps
      BY <3>1, ConcatFour, SMTT(30)
    <3>. QED
      BY <1>1, <2>6, <3>2
  <2>10. \A x \in FilesTo(d), y \in FilesOf(d + 1) : Before(x, y)
    <3>1. \A x \in FilesTo(d) : x[1] \in 1 .. d
      BY DEF FilesTo, FilesOf
    <3>2. \A y \in FilesOf(d + 1) : y[1] = d + 1
      BY DEF FilesOf
    <3>. QED
      BY <2>1, <3>1, <3>2 DEF Before
  <2> HIDE DEF s
  <2>11. Comes(s \o ps, FilesTo(d + 1))
    <3>1. FilesTo(d + 1) = FilesTo(d) \cup FilesOf(d + 1)
      BY <2>1, FilesToNext
    <3>. QED
      BY <2>5, <2>7, <2>10, <3>1, ComesConcat
  <2>12. Len(got') - Len(posts') = d + 1
    BY <1>1, <1>2, <2>1, <2>3
  <2> HIDE DEF d
  <2>13. FilesCome'
    <3> DEFINE u == s \o ps
               c == d + 1
    <3>1. Comes(u, FilesTo(c)) /\ fed' \o (p' \o converted') = u
          /\ Len(got') - Len(posts') = c
      BY <2>9, <2>11, <2>12
    <3> HIDE DEF u, c
    <3>. QED
      BY <1>1, <3>1, FilesComeNext
  <2>. QED
    BY <1>1, <1>3, <2>3, <2>4, <2>7, <2>8, <2>12, <2>13 DEF FeedInv
<1>4. CASE posts = <<>> /\ conv' = "send" /\ UNCHANGED <<posts, converted>>
  <2>1. FilesCome'
    <3> DEFINE u == fed \o (p \o converted)
               c == Len(got) - Len(posts)
    <3>1. Comes(u, FilesTo(c)) /\ fed' \o (p' \o converted') = u
          /\ Len(got') - Len(posts') = c
      BY <1>1, <1>4 DEF FeedInv, FilesCome
    <3> HIDE DEF u, c
    <3>. QED
      BY <1>1, <3>1, FilesComeNext
  <2>. QED
    BY <1>1, <1>4, <2>1 DEF FeedInv
<1>. QED
  BY <1>3, <1>4 DEF Convert

(* The first post of the last row goes to the end of the one before it.     *)
LEMMA ConcatOneOn ==
    ASSUME NEW a \in Seq(Posts), NEW b \in Seq(Posts),
           NEW c \in Seq(Posts), c # <<>>
    PROVE  a \o (Append(b, Head(c)) \o Tail(c)) = a \o (b \o c)
<1> DEFINE h == <<Head(c)>>
           r == Tail(c)
<1>1. h \in Seq(Posts) /\ r \in Seq(Posts) /\ Head(c) \in Posts /\ h \o r = c
  OBVIOUS
<1>4. h \in Seq(Posts) /\ r \in Seq(Posts)
  BY <1>1
<1>2. Append(b, Head(c)) = b \o h
  BY <1>1, AppendIsConcat
<1> HIDE DEF h, r
<1>3. (b \o h) \o r = b \o (h \o r)
  BY <1>4
<1>. QED
  BY <1>1, <1>2, <1>3 DEF r

(* Sending a post leaves the row as it is (sources/reddit.go:57-60).        *)
LEMMA SendStep == PageInv /\ FeedInv /\ Send => FeedInv'
<1> SUFFICES ASSUME PageInv, FeedInv, Send PROVE FeedInv'
  OBVIOUS
<1>1. /\ conv = "send" /\ converted # <<>> /\ Len(p) < BufferSize
      /\ p' = Append(p, Head(converted)) /\ converted' = Tail(converted)
      /\ UNCHANGED <<input, conv, posts, fed>>
      /\ UNCHANGED <<pc, op, got, SkipCollection, SkipVideos, call>>
  BY DEF Send, listing, input
<1>2. converted \in Seq(Posts) /\ p \in Seq(Posts) /\ fed \in Seq(Posts)
  BY DEF FeedInv
<1>3. /\ p' \in Seq(Posts) /\ converted' \in Seq(Posts)
      /\ Len(p') = Len(p) + 1 /\ Len(p') <= BufferSize
  BY <1>1, <1>2, SourceAssumption
<1>4. fed' \o (p' \o converted') = fed \o (p \o converted)
  BY <1>1, <1>2, ConcatOneOn
<1>5. FilesCome'
  <2> DEFINE u == fed \o (p \o converted)
             c == Len(got) - Len(posts)
  <2>1. Comes(u, FilesTo(c)) /\ fed' \o (p' \o converted') = u
        /\ Len(got') - Len(posts') = c
    BY <1>1, <1>4 DEF FeedInv, FilesCome
  <2> HIDE DEF u, c
  <2>. QED
    BY <1>1, <2>1, FilesComeNext
<1>. QED
  BY <1>1, <1>2, <1>3, <1>5 DEF FeedInv

(* Reading a post leaves the row as it is (scrapperV1.go:171).              *)
LEMMA ReceiveStep == PageInv /\ FeedInv /\ Receive => FeedInv'
<1> SUFFICES ASSUME PageInv, FeedInv, Receive PROVE FeedInv'
  OBVIOUS
<1>1. /\ p # <<>> /\ fed' = Append(fed, Head(p)) /\ p' = Tail(p)
      /\ UNCHANGED <<input, conv, posts, converted>>
      /\ UNCHANGED <<pc, op, got, SkipCollection, SkipVideos, call>>
  BY DEF Receive, listing, input
<1>2. converted \in Seq(Posts) /\ p \in Seq(Posts) /\ fed \in Seq(Posts)
  BY DEF FeedInv
<1>3. /\ p' \in Seq(Posts) /\ fed' \in Seq(Posts) /\ Len(p') <= Len(p) /\ Len(p) <= BufferSize
  BY <1>1, <1>2 DEF FeedInv
<1>4. fed' \o (p' \o converted') = fed \o (p \o converted)
  <2> DEFINE h == <<Head(p)>>
             r == Tail(p)
  <2>1. h \in Seq(Posts) /\ r \in Seq(Posts) /\ Head(p) \in Posts /\ h \o r = p
    BY <1>1, <1>2
  <2>5. h \in Seq(Posts) /\ r \in Seq(Posts)
    BY <2>1
  <2>2. fed' = fed \o h
    BY <1>1, <1>2, <2>1, AppendIsConcat
  <2> HIDE DEF h, r
  <2>3. fed \o (h \o (r \o converted)) = (fed \o h) \o (r \o converted)
    <3> DEFINE t == r \o converted
    <3>1. t \in Seq(Posts)
      BY <1>2, <2>1
    <3> HIDE DEF t
    <3>2. fed \o (h \o t) = (fed \o h) \o t
      BY <1>2, <2>5, <3>1
    <3>. QED
      BY <3>2 DEF t
  <2>4. h \o (r \o converted) = (h \o r) \o converted
    BY <1>2, <2>5
  <2>. QED
    BY <1>1, <2>1, <2>2, <2>3, <2>4 DEF r
<1>5. FilesCome' \/ conv = "scrape"
  <2> DEFINE u == fed \o (p \o converted)
             c == Len(got) - Len(posts)
  <2> SUFFICES ASSUME conv # "scrape" PROVE FilesCome'
    OBVIOUS
  <2>1. Comes(u, FilesTo(c)) /\ fed' \o (p' \o converted') = u
        /\ Len(got') - Len(posts') = c
    BY <1>1, <1>4 DEF FeedInv, FilesCome
  <2> HIDE DEF u, c
  <2>. QED
    BY <1>1, <2>1, FilesComeNext
<1>6. conv # "scrape"
  BY <1>1 DEF FeedInv
<1>7. Len(p') <= BufferSize
  BY <1>2, <1>3, SourceAssumption
<1>. QED
  BY <1>1, <1>2, <1>3, <1>5, <1>6, <1>7 DEF FeedInv

(* Closing the channel changes nothing else (sources/reddit.go:52-55).      *)
LEMMA CloseStep == PageInv /\ FeedInv /\ Close => FeedInv'
<1> SUFFICES ASSUME PageInv, FeedInv, Close PROVE FeedInv'
  OBVIOUS
<1>1. /\ conv = "send" /\ converted = <<>> /\ conv' = "closed"
      /\ UNCHANGED <<input, posts, converted, p, fed>>
      /\ UNCHANGED <<pc, op, got, SkipCollection, SkipVideos, call>>
  BY DEF Close, listing, input
<1>2. FilesCome'
  <2> DEFINE u == fed \o (p \o converted)
             c == Len(got) - Len(posts)
  <2>1. Comes(u, FilesTo(c)) /\ fed' \o (p' \o converted') = u
        /\ Len(got') - Len(posts') = c
    BY <1>1 DEF FeedInv, FilesCome
  <2> HIDE DEF u, c
  <2>. QED
    BY <1>1, <2>1, FilesComeNext
<1>. QED
  BY <1>1, <1>2 DEF FeedInv

(* A stutter changes nothing.                                               *)
LEMMA FeedSame == FeedInv /\ UNCHANGED vars => FeedInv'
<1> SUFFICES ASSUME FeedInv, UNCHANGED vars PROVE FeedInv'
  OBVIOUS
<1>1. UNCHANGED <<input, conv, posts, converted, p, fed>>
      /\ UNCHANGED <<pc, op, got, SkipCollection, SkipVideos, call>>
  BY DEF vars, listing, source, input
<1>2. conv # "scrape" => FilesCome'
  <2> DEFINE u == fed \o (p \o converted)
             c == Len(got) - Len(posts)
  <2> SUFFICES ASSUME conv # "scrape" PROVE FilesCome'
    OBVIOUS
  <2>1. Comes(u, FilesTo(c)) /\ fed' \o (p' \o converted') = u
        /\ Len(got') - Len(posts') = c
    BY <1>1 DEF FeedInv, FilesCome
  <2> HIDE DEF u, c
  <2>. QED
    BY <1>1, <2>1, FilesComeNext
<1>. QED
  BY <1>1, <1>2 DEF FeedInv

(* The invariants of listing and goroutine hold together.                   *)
THEOREM SourceInductive == Spec => [](PageInv /\ FeedInv)
<1>1. Init => PageInv /\ FeedInv
  BY PageInit, FeedInit
<1>2. PageInv /\ FeedInv /\ [Next]_vars => PageInv' /\ FeedInv'
  <2> SUFFICES ASSUME PageInv, FeedInv, [Next]_vars PROVE PageInv' /\ FeedInv'
    OBVIOUS
  <2>1. CASE List
    BY <2>1, ListStep
  <2>2. CASE Scrape
    <3>1. UNCHANGED <<listing, input>>
      BY <2>2 DEF Scrape
    <3>. QED
      BY <2>2, <3>1, ScrapeStep, PageSame
  <2>3. CASE Convert
    <3>1. UNCHANGED <<listing, input>>
      BY <2>3 DEF Convert
    <3>. QED
      BY <2>3, <3>1, ConvertStep, PageSame
  <2>4. CASE Send
    <3>1. UNCHANGED <<listing, input>>
      BY <2>4 DEF Send
    <3>. QED
      BY <2>4, <3>1, SendStep, PageSame
  <2>5. CASE Close
    <3>1. UNCHANGED <<listing, input>>
      BY <2>5 DEF Close
    <3>. QED
      BY <2>5, <3>1, CloseStep, PageSame
  <2>6. CASE Receive
    <3>1. UNCHANGED <<listing, input>>
      BY <2>6 DEF Receive
    <3>. QED
      BY <2>6, <3>1, ReceiveStep, PageSame
  <2>7. CASE UNCHANGED vars
    BY <2>7, FeedSame, PageSame DEF vars
  <2>. QED
    BY <2>1, <2>2, <2>3, <2>4, <2>5, <2>6, <2>7 DEF Next
<1>. QED
  BY <1>1, <1>2, PTL DEF Spec

(* Types: counters and tokens stay in their ranges, indexes are those of    *)
(* posts of the listing, and the channel never holds more than its          *)
(* capacity.                                                                *)
THEOREM TypeCorrect == Spec => []TypeOK
<1>1. PageInv /\ FeedInv => TypeOK
  <2> SUFFICES ASSUME PageInv, FeedInv PROVE TypeOK
    OBVIOUS
  <2>1. posts \in Seq(DOMAIN rposts)
    <3>1. rposts \in Seq(RedditPosts)
      BY SourceAssumption DEF FeedInv, rposts
    <3>2. /\ posts \in Seq(Nat) /\ Len(posts) \in Nat /\ Len(posts) <= Len(got)
          /\ Len(got) \in Nat /\ Len(got) <= Len(rposts) /\ DOMAIN rposts = 1 .. Len(rposts)
          /\ Len(rposts) \in Nat
      BY <3>1 DEF PageInv, Prefix, ListingTypeOK, FeedInv
    <3>3. \A i \in 1 .. Len(posts) : posts[i] = Len(got) - Len(posts) + i
      BY DEF FeedInv
    <3>4. \A i \in 1 .. Len(posts) : posts[i] \in DOMAIN rposts
      BY <3>2, <3>3
    <3>. QED
      BY <3>2, <3>4
  <2>. QED
    BY <2>1 DEF PageInv, FeedInv, TypeOK
<1>. QED
  BY <1>1, SourceInductive, PTL

(* LimitNearlyKept: posts come once and in order, as many as asked for      *)
(* unless a 429 or an error intervenes (reddit.go:89-131,146-181).          *)
THEOREM LimitCorrect == Spec => []LimitNearlyKept
<1>1. PageInv => LimitNearlyKept
  BY DEF PageInv
<1>. QED
  BY <1>1, SourceInductive, PTL

(* FedWhenClosed: what a feeder has read from a closed channel is all that  *)
(* was wanted of the posts got, each file once, in the order of listing and *)
(* galleries, images as images and videos as videos                         *)
(* (sources/reddit.go:47-119).                                              *)
THEOREM FedCorrect == Spec => []FedWhenClosed
<1>1. PageInv /\ FeedInv => FedWhenClosed
  <2> SUFFICES ASSUME PageInv, FeedInv, conv = "closed", p = <<>> PROVE FedWanted
    BY DEF FedWhenClosed
  <2>1. fed \in Seq(Posts) /\ p = <<>> /\ converted = <<>> /\ posts = <<>> /\ call \in Calls
    BY DEF FeedInv
  <2>2. fed \o (p \o converted) = fed
    BY <2>1
  <2>3. got \in Seq(Nat) /\ Len(got) \in Nat /\ Len(got) <= Len(rposts)
        /\ Len(got) - Len(posts) = Len(got)
        /\ DOMAIN got = 1 .. Len(got)
    BY <2>1 DEF PageInv, Prefix, ListingTypeOK
  <2>4. Comes(fed, FilesTo(Len(got)))
    BY <2>2, <2>3 DEF FeedInv, FilesCome
  <2>5. FilesTo(Len(got)) = Wanted
    <3>1. MaxFiles \in Nat
      BY SourceAssumption
    <3>2. ASSUME NEW x \in FilesTo(Len(got)) PROVE x \in Wanted
      BY <2>3, <3>1 DEF FilesTo, FilesOf, IsSingle, Wanted
    <3>3. ASSUME NEW x \in Wanted PROVE x \in FilesTo(Len(got))
      BY <2>3, <3>1 DEF FilesTo, FilesOf, IsSingle, Wanted
    <3>. QED
      BY <3>2, <3>3
  <2> HIDE DEF Wanted
  <2>6. DOMAIN Froms = DOMAIN fed /\ \A i \in DOMAIN fed : Froms[i] = fed[i].from
    BY DEF Froms
  <2>7. Range(Froms) = Wanted
    BY <2>4, <2>5, <2>6 DEF Range, Comes
  <2>8. \A i, j \in DOMAIN fed : i < j => Before(Froms[i], Froms[j])
    BY <2>4, <2>6 DEF Comes
  <2>9. \A i \in DOMAIN fed : fed[i].type = "vids" <=> rposts[Froms[i][1]].url = "other"
    BY <2>4, <2>6 DEF Comes, TypeFits
  <2>. QED
    BY <2>7, <2>8, <2>9 DEF FedWanted
<1>. QED
  BY <1>1, SourceInductive, PTL
=============================================================================
