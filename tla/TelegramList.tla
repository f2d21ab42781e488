---------------------------- MODULE TelegramList ----------------------------
(***************************************************************************)
(* Listing the dialogs of an account (pkg/telegram/ls.go): List, which     *)
(* goes through them one by one, and fetchTopics, which pages through the  *)
(* topics of a channel that is a forum.                                    *)
(*                                                                         *)
(* A dialog is a record: the kind of its peer, whether its entity came     *)
(* with it, whether it is blocked, and the topics of its forum, some of    *)
(* them deleted, <<>> if it is none.  Telegram (external) serves the next  *)
(* PageSize topics after the one an offset names.                          *)
(***************************************************************************)
EXTENDS Naturals, Sequences, Functions, Filter

CONSTANTS PageSize,      \* limit in fetchTopics: 100
          MaxDialogs,    \* dialogs considered
          MaxTopics,     \* topics of a forum considered
          MaxFaults      \* requests that fail

ASSUME ListAssumption ==
    /\ PageSize \in Nat \ {0}
    /\ MaxDialogs \in Nat /\ MaxTopics \in Nat /\ MaxFaults \in Nat

VARIABLES
    dialogs,     \* what GetDialogs collects
    pc,          \* "collect", "dialog", "topics", or how List ended
    d,           \* the dialog List is at
    offset,      \* offsetTopic: the index of the last topic taken, 0 for none
    res,         \* the topics taken so far, by index
    result,      \* <<dialog, topics>> in order
    faults

vars == <<dialogs, pc, d, offset, res, result, faults>>

Forums == UNION {[1 .. n -> {"topic", "deleted"}] : n \in 0 .. MaxTopics}

Dialogs ==
    {r \in [kind : {"user", "channel", "chat"}, known : BOOLEAN, blocked : BOOLEAN, forum : Forums] :
        r.kind # "channel" \/ ~r.known => r.forum = <<>>}

Init ==
    /\ dialogs \in UNION {[1 .. n -> Dialogs] : n \in 0 .. MaxDialogs}
    /\ pc = "collect" /\ d = 1
    /\ offset = 0 /\ res = <<>> /\ result = <<>>
    /\ faults = 0

Dialog == dialogs[d]
AtDialog == pc = "dialog" /\ d \in DOMAIN dialogs
Fault == faults < MaxFaults /\ faults' = faults + 1

-----------------------------------------------------------------------------
(* GetDialogs and GetBlockedDialogs; without both there is no list.  The   *)
(* filter is "true" for the only caller, ListChats.                        *)
Collect ==
    /\ pc = "collect"
    /\ \/ pc' = "dialog" /\ UNCHANGED faults
       \/ Fault /\ pc' = "error"
    /\ UNCHANGED <<dialogs, d, offset, res, result>>

(* List, one dialog: peers are applied, which may fail and changes         *)
(* nothing here; then the blocked are left out.                            *)
Blocked ==
    /\ AtDialog /\ Dialog.blocked
    /\ d' = d + 1
    /\ UNCHANGED <<dialogs, pc, offset, res, result, faults>>

(* A user or chat, or a channel that is no forum.                          *)
Simple ==
    /\ AtDialog /\ ~Dialog.blocked /\ Dialog.known /\ Dialog.forum = <<>>
    /\ result' = Append(result, <<d, <<>>>>)
    /\ d' = d + 1
    /\ UNCHANGED <<dialogs, pc, offset, res, faults>>

(* No entity: a chat is skipped; of a user or channel the access hash is   *)
(* set before r is looked at, and r is nil.                                *)
Unknown ==
    /\ AtDialog /\ ~Dialog.blocked /\ ~Dialog.known
    /\ IF Dialog.kind = "chat" THEN d' = d + 1 /\ UNCHANGED pc
                               ELSE pc' = "panic" /\ UNCHANGED d
    /\ UNCHANGED <<dialogs, offset, res, result, faults>>

-----------------------------------------------------------------------------
(* fetchTopics.                                                            *)

Forum ==
    /\ AtDialog /\ ~Dialog.blocked /\ Dialog.known /\ Dialog.forum # <<>>
    /\ pc' = "topics"
    /\ offset' = 0 /\ res' = <<>>
    /\ UNCHANGED <<dialogs, d, result, faults>>

(* The topics of a page, by index.                                         *)
Page ==
    LET left == Len(Dialog.forum) - offset
    IN  [k \in 1 .. (IF left < PageSize THEN left ELSE PageSize) |-> offset + k]

(* The topics of a dialog's forum that have not been deleted.              *)
TopicsOf(k)  == {n \in DOMAIN dialogs[k].forum : dialogs[k].forum[n] = "topic"}
Topics(page) == Filtered(page, TopicsOf(d))

(* The last page: one with a deleted topic; one not full nor empty; one    *)
(* that is not full.                                                       *)
LastPageByTopics == Len(Topics(Page)) < PageSize
LastPagePartial  == Len(Page) \in 1 .. PageSize - 1
LastPage         == Len(Page) < PageSize

(* A page: its topics are taken, and the last of them is the next offset.  *)
(* After the last page the dialog is listed.                               *)
TopicsPage ==
    /\ pc = "topics"
    /\ res' = res \o Topics(Page)
    /\ offset' = IF Topics(Page) = <<>> THEN offset ELSE Topics(Page)[Len(Topics(Page))]
    /\ IF LastPage
       THEN pc' = "dialog" /\ d' = d + 1 /\ result' = Append(result, <<d, res'>>)
       ELSE UNCHANGED <<pc, d, result>>
    /\ UNCHANGED <<dialogs, faults>>

(* A failed request: processChannel logs it and returns nil, as for an     *)
(* entity that is missing.                                                 *)
TopicsFail ==
    /\ pc = "topics" /\ Fault
    /\ pc' = "panic"
    /\ UNCHANGED <<dialogs, d, offset, res, result>>

Return ==
    /\ pc = "dialog" /\ d \notin DOMAIN dialogs
    /\ pc' = "done"
    /\ UNCHANGED <<dialogs, d, offset, res, result, faults>>

-----------------------------------------------------------------------------
Step == Collect \/ Blocked \/ Simple \/ Unknown \/ Forum \/ TopicsPage \/ Return

Next == Step \/ TopicsFail

Spec == Init /\ [][Next]_vars

(* List goes on, and its requests are answered; none need fail.            *)
FairSpec == Spec /\ WF_vars(Step)

-----------------------------------------------------------------------------
(* The dialogs that List should return.                                    *)
Listed(k) == ~dialogs[k].blocked /\ dialogs[k].known

Ascending(s) == \A i, j \in DOMAIN s : i < j => s[i] < s[j]

(* What List returns: of the dialogs that are not blocked and have their   *)
(* entity, each once, in order and with all topics of its forum, in order, *)
(* deleted ones left out, over pages of every shape; a forum whose topics  *)
(* cannot be had leads to no list rather than to one with less in it       *)
(* (ls.go:91-133,196-254).                                                 *)
ListIsComplete ==
    pc = "done" =>
        /\ Ascending([i \in DOMAIN result |-> result[i][1]])
        /\ {result[i][1] : i \in DOMAIN result} = {k \in DOMAIN dialogs : Listed(k)}
        /\ \A i \in DOMAIN result : /\ Ascending(result[i][2])
                                    /\ Range(result[i][2]) = TopicsOf(result[i][1])

(* A page's worth of deleted topics in a row.                              *)
DeletedPage(k) ==
    \E n \in 0 .. Len(dialogs[k].forum) - PageSize :
        \A i \in n + 1 .. n + PageSize : dialogs[k].forum[i] = "deleted"

(* List comes to an end unless a forum has a page's worth of deleted       *)
(* topics in a row: a full page always moves the offset, except one        *)
(* without a topic (ls.go:212-249).                                        *)
ListEnds ==
    <>(pc \in {"done", "error", "panic"} \/ \E k \in DOMAIN dialogs : DeletedPage(k))
=============================================================================
