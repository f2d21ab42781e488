--------------------------- MODULE MCDownloadIter ---------------------------
(* Four messages, two or four of them in albums of two, and what can be    *)
(* odd about them: a dialog without messages, files that are filtered, a   *)
(* message without media, an album with nothing to download.               *)
EXTENDS DownloadIter, TLC

CONSTANTS m1, m2, m3, m4

TwoDialogs   == << <<m1, m2, m3>>, <<m4>> >>
EmptyBetween == << <<m1>>, <<>>, <<m4>> >>
HalfAnAlbum  == << <<m1, m2>>, <<m4>> >>

AllMedia    == [m \in Msgs |-> "media"]
Mixed       == [AllMedia EXCEPT ![m1] = "filtered"]
TextInAlbum == [AllMedia EXCEPT ![m3] = "text"]
EmptyAlbum  == [AllMedia EXCEPT ![m2] = "filtered", ![m3] = "filtered"]

Pair  == (m1 :> <<>>) @@ (m2 :> <<m2, m3>>) @@ (m3 :> <<m2, m3>>) @@ (m4 :> <<>>)
Pairs == (m1 :> <<m1, m2>>) @@ (m2 :> <<m1, m2>>) @@ (m3 :> <<m3, m4>>) @@ (m4 :> <<m3, m4>>)

Asked(dialogs, classes) ==
    [dialogs : dialogs, class : classes, album : {Pair, Pairs}, group : BOOLEAN]

AllRequests ==
         Asked({EmptyBetween, HalfAnAlbum}, {AllMedia, Mixed, TextInAlbum, EmptyAlbum})
    \cup Asked({TwoDialogs}, {TextInAlbum, EmptyAlbum})
=============================================================================
