------------------------------- MODULE Filter -------------------------------
(***************************************************************************)
(* The loop "for each element, append it to the result if ...", which      *)
(* processGrouped goes through with an album (pkg/telegram/iter.go) and    *)
(* fetchTopics with a page of topics (pkg/telegram/ls.go).                 *)
(***************************************************************************)
EXTENDS Naturals, Sequences

(* The elements of s that are in S, in their order.                        *)
Filtered(s, S) ==
    LET taken[k \in 0 .. Len(s)] ==
            IF k = 0 THEN <<>>
            ELSE IF s[k] \in S THEN Append(taken[k - 1], s[k]) ELSE taken[k - 1]
    IN  taken[Len(s)]
=============================================================================
