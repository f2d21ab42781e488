---------------------------- MODULE RedditSource ----------------------------
(***************************************************************************)
(* From a reddit listing to the channel the feeder reads                   *)
(* (sources/reddit.go): ScrapePosts, which calls GetPosts of RedditListing *)
(* and starts a goroutine that converts the posts it has got and sends     *)
(* them, and convertToPosts.  The two listings of subreddits are called by *)
(* commands of their own and end here.                                     *)
(*                                                                         *)
(* A reddit post is a record: what its URL leads to, the files of its      *)
(* gallery in order, each "img" or "other" by the suffix of its link, and  *)
(* whether it has a video.  A converted post names where it comes from:    *)
(* <<n, k>> is file k of the gallery of post n, <<n, 0>> the post itself.  *)
(***************************************************************************)
EXTENDS RedditListing, FiniteSets, SequencesExt

CONSTANTS Calls,          \* <<posts, limit>>: listings and limits considered
          MaxFiles,       \* files of the galleries considered
          BufferSize      \* capacity of the channel, 5 in the code

VARIABLES
    SkipCollection, SkipVideos,  \* ScrapeOpts
    call,       \* the listing reddit has and the limit asked for
    conv,       \* "scrape", "convert", "send", "closed"
    posts,      \* rposts: what is left to convert
    converted,  \* what convertToPosts returns
    p,          \* the channel
    fed         \* what the feeder has read

source == <<conv, posts, converted, p, fed>>
input  == <<SkipCollection, SkipVideos, call>>
vars   == <<listing, source, input>>

Galleries == UNION {[1 .. k -> {"img", "other"}] : k \in 0 .. MaxFiles}

RedditPosts ==
    {r \in [url : {"gallery", "img", "other"}, gallery : Galleries, video : BOOLEAN] :
        r.url # "gallery" => r.gallery = <<>>}

ASSUME SourceAssumption ==
    /\ Calls \subseteq Seq(RedditPosts) \X Nat
    /\ MaxFiles \in Nat /\ BufferSize \in Nat \ {0}

rposts == call[1]

Init ==
    /\ call \in Calls
    /\ ListingInit(Len(rposts))
    /\ SkipCollection \in BOOLEAN /\ SkipVideos \in BOOLEAN
    /\ conv = "scrape"
    /\ posts = <<>> /\ converted = <<>> /\ p = <<>> /\ fed = <<>>

-----------------------------------------------------------------------------
(* convertToPosts.                                                         *)

Image(n, k)  == [from |-> <<n, k>>, type |-> "imgs"]
Video(n)     == [from |-> <<n, 0>>, type |-> "vids"]

(* The break outside and inside "if opts.SkipCollection".                  *)
AfterFirst(images) == images # <<>>
Enough(images)     == SkipCollection /\ images # <<>>

(* The images of a gallery; with SkipCollection, the first of them.        *)
Gallery(n) ==
    LET gallery == rposts[n].gallery
        images[k \in 0 .. Len(gallery)] ==
            IF k = 0 THEN <<>>
            ELSE IF gallery[k] # "img" \/ Enough(images[k - 1]) THEN images[k - 1]
            ELSE Append(images[k - 1], Image(n, k))
    IN  images[Len(gallery)]

(* What reddit post n becomes: the images of a gallery and nothing else of *)
(* it; or an image; or, unless SkipVideos, a video.                        *)
PostsOf(n) ==
    CASE rposts[n].url = "gallery" -> Gallery(n)
      [] rposts[n].url = "img" -> <<Image(n, 0)>>
      [] rposts[n].url = "other" /\ rposts[n].video /\ ~SkipVideos -> <<Video(n)>>
      [] OTHER -> <<>>

-----------------------------------------------------------------------------
(* The call of GetPosts, or of a listing of subreddits, and its pages.     *)
List ==
    /\ Call(call[2]) \/ Paging
    /\ UNCHANGED <<source, input>>

(* An error of GetPosts is logged: the goroutine then runs on no posts.    *)
Scrape ==
    /\ op = "GetPosts" /\ pc \in {"done", "error"}
    /\ conv = "scrape"
    /\ posts' = got
    /\ conv' = "convert"
    /\ UNCHANGED <<listing, input, converted, p, fed>>

(* One turn of convertToPosts' loop, or its end.                           *)
Convert ==
    /\ conv = "convert"
    /\ \/ /\ posts # <<>>
          /\ converted' = converted \o PostsOf(Head(posts))
          /\ posts' = Tail(posts)
          /\ UNCHANGED conv
       \/ posts = <<>> /\ conv' = "send" /\ UNCHANGED <<posts, converted>>
    /\ UNCHANGED <<listing, input, p, fed>>

(* p <- post: waits for a place in the buffer.                             *)
Send ==
    /\ conv = "send" /\ converted # <<>>
    /\ Len(p) < BufferSize
    /\ p' = Append(p, Head(converted))
    /\ converted' = Tail(converted)
    /\ UNCHANGED <<listing, input, conv, posts, fed>>

Close ==
    /\ conv = "send" /\ converted = <<>>
    /\ conv' = "closed"
    /\ UNCHANGED <<listing, input, posts, converted, p, fed>>

(* The feeder's range over the channel.                                    *)
Receive ==
    /\ p # <<>>
    /\ fed' = Append(fed, Head(p))
    /\ p' = Tail(p)
    /\ UNCHANGED <<listing, input, conv, posts, converted>>

-----------------------------------------------------------------------------
Next == List \/ Scrape \/ Convert \/ Send \/ Close \/ Receive

Spec == Init /\ [][Next]_vars

(* Requests are answered; a 429 may come MaxRetries times, not for ever,   *)
(* and no error need come.  The goroutine goes on, and so does the feeder. *)
FairSpec ==
    /\ Spec
    /\ WF_vars(List)
    /\ WF_vars(Scrape \/ Convert \/ Send \/ Close)
    /\ WF_vars(Receive)

-----------------------------------------------------------------------------
Posts == [from : Nat \X (0 .. MaxFiles), type : {"imgs", "vids"}]

TypeOK ==
    /\ ListingTypeOK
    /\ SkipCollection \in BOOLEAN /\ SkipVideos \in BOOLEAN
    /\ call \in Calls
    /\ conv \in {"scrape", "convert", "send", "closed"}
    /\ posts \in Seq(DOMAIN rposts)
    /\ converted \in Seq(Posts) /\ fed \in Seq(Posts)
    /\ p \in Seq(Posts) /\ Len(p) <= BufferSize

(* Lexicographic order of <<n, k>>.                                        *)
Before(x, y) == x[1] < y[1] \/ (x[1] = y[1] /\ x[2] < y[2])

(* What the posts got should come to, said file by file.                   *)
Due(n, k) ==
    /\ k \in DOMAIN rposts[n].gallery /\ rposts[n].gallery[k] = "img"
    /\ SkipCollection => \A l \in 1 .. k - 1 : rposts[n].gallery[l] # "img"

Wanted ==
    {x \in (DOMAIN got) \X (1 .. MaxFiles) : Due(x[1], x[2])}
    \cup
    {<<n, 0>> : n \in {n \in DOMAIN got :
        \/ rposts[n].url = "img"
        \/ rposts[n].url = "other" /\ rposts[n].video /\ ~SkipVideos}}

Froms == [i \in DOMAIN fed |-> fed[i].from]

FedWanted ==
    /\ Range(Froms) = Wanted
    /\ \A i, j \in DOMAIN fed : i < j => Before(Froms[i], Froms[j])
    /\ \A i \in DOMAIN fed : fed[i].type = "vids" <=> rposts[Froms[i][1]].url = "other"

(* Every listing ends, each page advancing the token or the budget.  And   *)
(* through pages, loop, buffer and feeder, the channel is closed and read  *)
(* to its end, error or not, so that the feeder never waits for ever; what *)
(* it has read by then is all that was wanted of the posts got, each once  *)
(* and in the order of the listing and its galleries, and nothing when the *)
(* listing failed.  A post with an image URL and a video is the image      *)
(* (sources/reddit.go:47-119, reddit.go:89-131).                           *)
FedIsWanted ==
    <>[](/\ pc \in {"done", "error", "panic"}
         /\ op = "GetPosts" => conv = "closed" /\ p = <<>> /\ FedWanted)
=============================================================================
