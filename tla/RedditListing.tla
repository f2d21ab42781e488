--------------------------- MODULE RedditListing ----------------------------
(***************************************************************************)
(* Paging through a reddit listing (pkg/reddit/reddit.go): GetPosts, which *)
(* retries when it is rate limited, and the two listings of subreddits,    *)
(* which log an error and carry on.                                        *)
(*                                                                         *)
(* The listing is the posts 1 .. total; a token is the number of posts     *)
(* before the page it stands for, and the empty token is Start.  Reddit    *)
(* (external) serves DefaultSize posts when a request names no limit,      *)
(* which is what a limit of 0 comes to.  RedditSource takes what GetPosts  *)
(* returns.                                                                *)
(***************************************************************************)
EXTENDS Naturals, Sequences

CONSTANTS PageSize,      \* 25: the most that is asked for at once
          DefaultSize,   \* 25: what reddit serves when no limit is given
          DefaultLimit,  \* DEFAULT_LIMIT
          MaxRetries     \* rate limit answers considered

ASSUME ListingAssumption ==
    /\ PageSize \in Nat \ {0} /\ DefaultSize \in Nat \ {0}
    /\ DefaultLimit \in Nat \ {0}
    /\ MaxRetries \in Nat

VARIABLES
    pc,         \* "idle", "head" of the loop, "asked", or how the call ended
    op,         \* the method called
    asked,      \* the limit it was called with, after sanitize
    limit,      \* what is left of it: opts.Limit, limit
    page,       \* the limit of the request under way
    nextToken,
    got,        \* final_posts, results
    total,      \* the posts the listing has
    retries,    \* 429 answers so far
    errors      \* other errors, logged and forgotten

listing == <<pc, op, asked, limit, page, nextToken, got, total, retries, errors>>

Ops == {"GetPosts", "SearchSubreddits", "GetSubscribedSubreddits"}

Least(m, n) == IF m < n THEN m ELSE n

ListingInit(posts) ==
    /\ pc = "idle" /\ op \in Ops
    /\ asked = 0 /\ limit = 0 /\ page = 0 /\ nextToken = 0
    /\ got = <<>>
    /\ total = posts
    /\ retries = 0 /\ errors = 0

-----------------------------------------------------------------------------
(* ListOptions.sanitize, which only GetPosts has.                          *)
sanitize(n) == IF op = "GetPosts" /\ n = 0 THEN DefaultLimit ELSE n

Call(n) ==
    /\ pc = "idle"
    /\ asked' = sanitize(n) /\ limit' = sanitize(n)
    /\ pc' = "head"
    /\ UNCHANGED <<op, page, nextToken, got, total, retries, errors>>

(* All that is left, and a page of it.                                     *)
AllLeft   == limit
PageLimit == Least(limit, PageSize)

(* One budget for all pages, and what a page takes from it is taken before *)
(* the request is made; GetSubscribedSubreddits has a page size only.      *)
Ask ==
    /\ pc = "head"
    /\ IF op = "GetSubscribedSubreddits"
       THEN page' = limit /\ UNCHANGED limit
       ELSE page' = PageLimit /\ limit' = limit - page'
    /\ pc' = "asked"
    /\ UNCHANGED <<op, asked, nextToken, got, total, retries, errors>>

(* Reddit's answer: the posts after the token, and the next token, empty   *)
(* at the end of the listing.                                              *)
Served   == IF page = 0 THEN DefaultSize ELSE page
LastPost == Least(nextToken + Served, total)
After    == IF LastPost = total THEN 0 ELSE LastPost

(* The test of the loop; the listing of subscriptions has no budget.       *)
LastPage == After = 0 \/ (op # "GetSubscribedSubreddits" /\ limit = 0)

(* The answer: its posts, its token, and the test of the loop.             *)
Answer ==
    /\ pc = "asked"
    /\ got' = got \o [k \in 1 .. LastPost - nextToken |-> nextToken + k]
    /\ nextToken' = After
    /\ pc' = IF LastPage THEN "done" ELSE "head"
    /\ UNCHANGED <<op, asked, limit, page, total, retries, errors>>

(* The loop going on at the next page, and at the same one.                *)
NextPageAgain == LastPost
SamePageAgain == nextToken

(* A 429 answer to GetPosts: after two seconds the loop starts over, with  *)
(* the token it had but without the budget the page has taken.             *)
RateLimited ==
    /\ pc = "asked" /\ op = "GetPosts"
    /\ retries < MaxRetries
    /\ retries' = retries + 1
    /\ nextToken' = SamePageAgain
    /\ pc' = "head"
    /\ UNCHANGED <<op, asked, limit, page, got, total, errors>>

(* Any other error.  GetPosts drops what it has.  The other two log it; a  *)
(* response without a token ends their loop, and when there is none at all *)
(* - no connection - resp.After panics.                                    *)
Fails ==
    /\ pc = "asked"
    /\ errors' = errors + 1
    /\ \/ op = "GetPosts" /\ pc' = "error" /\ got' = <<>>
       \/ op # "GetPosts" /\ pc' \in {"done", "panic"} /\ UNCHANGED got
    /\ UNCHANGED <<op, asked, limit, page, nextToken, total, retries>>

Paging == Ask \/ Answer \/ RateLimited \/ Fails

-----------------------------------------------------------------------------
ListingTypeOK ==
    /\ pc \in {"idle", "head", "asked", "done", "error", "panic"}
    /\ op \in Ops
    /\ asked \in Nat /\ limit \in 0 .. asked
    /\ page \in Nat /\ (op # "GetSubscribedSubreddits" => page <= PageSize)
    /\ nextToken \in 0 .. total
    /\ got \in Seq(Nat)
    /\ total \in Nat /\ retries \in Nat /\ errors \in Nat

(* Whatever pages are retried, the posts are the first ones of the listing *)
(* at any time, each once and in order.  What a call that is done has:     *)
(* GetPosts, min(limit, total) posts if there was no 429; each 429 costs   *)
(* at most a page of them, and a page asked for with a budget of 0 brings  *)
(* at most one page too many (reddit.go:90-91,114-128).  A listing of      *)
(* subreddits is short of its limit and of its end only because of an      *)
(* error its caller is never told of (reddit.go:146-155,171-180: what is   *)
(* returned is the outer err, nil).                                        *)
LimitNearlyKept ==
    /\ Len(got) <= total
    /\ \A k \in 1 .. Len(got) : got[k] = k
    /\ pc = "done" =>
        IF op = "GetPosts"
        THEN /\ retries = 0 => Len(got) = Least(asked, total)
             /\ Len(got) < asked + DefaultSize
             /\ Len(got) >= Least(asked, total) \/ asked - Len(got) <= retries * PageSize
        ELSE \/ Len(got) = total \/ errors > 0
             \/ op = "SearchSubreddits" /\ Len(got) = IF asked > 0 THEN asked ELSE DefaultSize
=============================================================================
