---------------------------- MODULE MCScrapperV1 ----------------------------
(* Two jobs, and which posts they yield, of what type.                     *)
EXTENDS ScrapperV1, TLC

CONSTANTS t1, t2, i1, i2, i3, w1, w2, w3

TwoJobs == <<t1, t2>>

TwoAndOne == (i1 :> t1) @@ (i2 :> t1) @@ (i3 :> t2)
OneEach   == (i1 :> t1) @@ (i2 :> t2)

TwoImages  == (i1 :> "imgs") @@ (i2 :> "imgs") @@ (i3 :> "vids")
Images     == (i1 :> "imgs") @@ (i2 :> "imgs")

ThreeQueues == (w1 :> "imgs") @@ (w2 :> "vids") @@ (w3 :> "msg")
=============================================================================
