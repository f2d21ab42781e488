--------------------------- MODULE MCRedditSource ---------------------------
(* All listings of up to two posts of every form, asked for one or all of  *)
(* them; and listings of up to eight images, asked for with every limit up *)
(* to seven: ends before, at and after the boundaries of pages of three.   *)
EXTENDS RedditSource

Plain == [url |-> "img", gallery |-> <<>>, video |-> FALSE]

AllForms == UNION {[1 .. n -> RedditPosts] : n \in 0 .. 2}
Images   == UNION {[1 .. n -> {Plain}] : n \in 0 .. 8}

AllCalls == (AllForms \X {1, 3}) \cup (Images \X (0 .. 7))
=============================================================================
