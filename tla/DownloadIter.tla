---------------------------- MODULE DownloadIter ----------------------------
(***************************************************************************)
(* Downloading the files of telegram messages (pkg/telegram/iter.go,       *)
(* dl.go): the iterator over the messages of the dialogs, the loop of the  *)
(* downloader that drives it (external: at most Limit downloads at a time, *)
(* each in a goroutine), the temporary file of each message, which         *)
(* os.Create truncates when the message is come to again, and the progress *)
(* kept for resuming.                                                      *)
(*                                                                         *)
(* A request is a record: the dialogs, sequences of messages, flattened    *)
(* and sorted as newIter leaves them; the class of a message, "media",     *)
(* "filtered" (out by its extension, or there already) or "text"; its      *)
(* album, itself included, <<>> if it is in none; and opts.Group, with     *)
(* which a message of an album stands for the whole album.                 *)
(***************************************************************************)
EXTENDS Naturals, Sequences, FiniteSets, Functions, Filter

CONSTANTS Msgs,        \* messages
          Requests,    \* the requests considered
          Limit,       \* downloads at a time
          MaxRuns,     \* calls of Run
          MaxFaults    \* failed requests

ASSUME IterAssumption ==
    /\ \A r \in Requests :
         /\ r.dialogs \in Seq(Seq(Msgs)) /\ r.group \in BOOLEAN
         /\ r.class \in [Msgs -> {"media", "filtered", "text"}]
         /\ r.album \in [Msgs -> Seq(Msgs)]
         /\ \A m \in Msgs : /\ Len(r.album[m]) <= 10    \* the capacity of i.elem
                            /\ \A k, l \in DOMAIN r.album[m] :
                                  r.album[m][k] = r.album[m][l] => k = l
    /\ Limit \in Nat \ {0}
    /\ MaxRuns \in Nat /\ MaxFaults \in Nat

VARIABLES
    request,
    pc,        \* of the downloader's loop: "idle", "next", "process", "value", "ended"
    at,        \* i.i and i.j, counted from 1
    err,       \* i.err is set
    elem,      \* the channel i.elem
    active,    \* downloads of this run under way
    late,      \* downloads of earlier runs still under way
    started,   \* started[m]: downloads of m begun in this run
    failed,    \* downloads of this run that have ended with an error
    whole,     \* messages whose temporary file is complete
    finished,  \* i.finished
    key,       \* what is stored under the resume key: {} or {finished}
    rerr,      \* the error of Run, or what it returned
    canceled,  \* ctx.Done()
    swallowed, \* positions whose album was asked for in vain (history)
    faults, runs

iter == <<at, err, elem, finished, swallowed>>
jobs == <<active, late, started, failed>>
call == <<key, rerr, canceled, runs>>
vars == <<request, pc, iter, jobs, whole, call, faults>>

Dialogs == request.dialogs
Class   == request.class
Album   == request.album

Positions == UNION {{d} \X DOMAIN Dialogs[d] : d \in DOMAIN Dialogs}

Init ==
    /\ request \in Requests
    /\ pc = "idle"
    /\ at = <<1, 1>> /\ err = FALSE /\ elem = <<>> /\ finished = {}
    /\ swallowed = {}
    /\ active = {} /\ late = {} /\ started = [m \in Msgs |-> 0] /\ failed = {}
    /\ whole = {}
    /\ key = {} /\ rerr = "none"
    /\ canceled = FALSE /\ faults = 0 /\ runs = 0

-----------------------------------------------------------------------------
(* The progress an interrupted run has stored: resume, saveProgress.       *)
Resumed == UNION key
Saved   == {finished}

(* Run: a new iterator, and what is left of an earlier run: its downloads  *)
(* that have outlived it, if it was in this process.                       *)
Run ==
    /\ pc = "idle" /\ runs < MaxRuns
    /\ runs' = runs + 1
    /\ pc' = "next"
    /\ at' = <<1, 1>> /\ err' = FALSE /\ elem' = <<>>
    /\ finished' = Resumed /\ swallowed' = {}
    /\ late' \in {{}, late \cup {<<a[1], a[2], runs>> : a \in active}}
    /\ active' = {} /\ started' = [m \in Msgs |-> 0] /\ failed' = {}
    /\ rerr' = "none" /\ canceled' = FALSE
    /\ UNCHANGED <<request, whole, key, faults>>

(* The dialogs cannot be read, or the key: nothing is stored then.         *)
RunFails ==
    /\ pc = "idle" /\ runs < MaxRuns /\ faults < MaxFaults
    /\ runs' = runs + 1 /\ faults' = faults + 1
    /\ rerr' = "error"
    /\ UNCHANGED <<request, pc, iter, jobs, whole, key, canceled>>

(* The next dialog entered where the last one ended.                       *)
AdvancedNoReset ==
    IF at[1] <= Len(Dialogs) /\ at[2] + 1 > Len(Dialogs[at[1]])
    THEN <<at[1] + 1, at[2] + 1>> ELSE <<at[1], at[2] + 1>>

(* The deferred step of process: the next message, or the next dialog.     *)
Advanced ==
    IF at[1] <= Len(Dialogs) /\ at[2] + 1 > Len(Dialogs[at[1]])
    THEN <<at[1] + 1, 1>> ELSE <<at[1], at[2] + 1>>

(* A dialog too far, and its last message left out.                        *)
AtEndOffByOne == at[1] \in DOMAIN Dialogs => at[2] >= Len(Dialogs[at[1]])

(* The iterator is at its end, or at a dialog without messages.            *)
AtEnd == at[1] \in DOMAIN Dialogs => at[2] > Len(Dialogs[at[1]])

Msg     == Dialogs[at[1]][at[2]]
Grouped == request.group /\ Album[Msg] # <<>>

(* Next at its beginning, the one place where it looks at the context:     *)
(* canceled; something left of an album; or the loop over process.         *)
NextEarly ==
    /\ pc = "next"
    /\ \/ canceled /\ err' = TRUE /\ pc' = "ended"
       \/ ~canceled /\ elem # <<>> /\ pc' = "value" /\ UNCHANGED err
       \/ ~canceled /\ elem = <<>> /\ pc' = "process" /\ UNCHANGED err
    /\ UNCHANGED <<request, at, elem, finished, swallowed, jobs, whole, call, faults>>

Processing == pc = "process" /\ elem = <<>>

(* A request has failed, or was canceled on its way.                       *)
Failing == \/ faults < MaxFaults /\ faults' = faults + 1
           \/ canceled /\ UNCHANGED faults

NextEnd ==
    /\ Processing
    /\ AtEnd \/ err
    /\ pc' = "ended"
    /\ at' = Advanced
    /\ UNCHANGED <<request, err, elem, finished, swallowed, jobs, whole, call, faults>>

(* A finished message, or one that the filters or SkipSame leave out.      *)
NextSkip ==
    /\ Processing /\ ~AtEnd /\ ~err
    /\ at \in finished \/ (~Grouped /\ Class[Msg] = "filtered")
    /\ at' = Advanced
    /\ UNCHANGED <<request, pc, err, elem, finished, swallowed, jobs, whole, call, faults>>

(* The peer or the message cannot be had, or the file of a message that is *)
(* not in an album cannot be created.                                      *)
NextFails ==
    /\ Processing /\ ~AtEnd /\ ~err /\ at \notin finished
    /\ Failing
    /\ err' = TRUE
    /\ pc' = "ended"
    /\ at' = Advanced
    /\ UNCHANGED <<request, elem, finished, swallowed, jobs, whole, call>>

(* A file is created, or truncated, before its element is put on i.elem.   *)
NextSingle ==
    /\ Processing /\ ~AtEnd /\ ~err /\ at \notin finished
    /\ ~Grouped
    /\ \/ /\ Class[Msg] = "media"
          /\ whole' = whole \ {Msg}
          /\ elem' = Append(elem, Msg)
          /\ pc' = "value"
          /\ UNCHANGED err
       \/ /\ Class[Msg] = "text"
          /\ err' = TRUE
          /\ pc' = "ended"
          /\ UNCHANGED <<elem, whole>>
    /\ at' = Advanced
    /\ UNCHANGED <<request, finished, swallowed, jobs, call, faults>>

(* The messages of an album with a file that passes the filters, but for   *)
(* those whose file could not be created.                                  *)
FilesOf(album, lost) ==
    Filtered(album, {m \in Range(album) : Class[m] = "media" /\ m \notin lost})

(* The album without its first message; its files.                         *)
AlbumRest(lost)  == FilesOf(Tail(Album[Msg]), lost)
AlbumFiles(lost) == FilesOf(Album[Msg], lost)

(* A file that is filtered taken for an error; a message without media.    *)
AlbumErrorFiltered == \E m \in Range(Album[Msg]) : Class[m] # "media"
AlbumError         == \E m \in Range(Album[Msg]) : Class[m] = "text"

(* processGrouped: every message of the album with a file is put on        *)
(* i.elem.  It reports success whether there was one or not; a message     *)
(* without media, or a file that cannot be created, leaves i.err set.      *)
(* When the history of the chat cannot be had, GetGroupedMessages, which   *)
(* does not ask its iterator for an error, returns an empty album and nil: *)
(* success again, without an element and without i.err.                    *)
NextGrouped ==
    /\ Processing /\ ~AtEnd /\ ~err /\ at \notin finished
    /\ Grouped
    /\ \/ /\ \E lost \in SUBSET Range(Album[Msg]) :
              /\ \/ lost = {} /\ err' = AlbumError /\ UNCHANGED faults
                 \/ /\ lost # {} /\ \A m \in lost : Class[m] = "media"
                    /\ faults < MaxFaults /\ faults' = faults + 1
                    /\ err' = TRUE
              /\ whole' = whole \ Range(AlbumFiles(lost))
              /\ elem' = elem \o AlbumFiles(lost)
          /\ UNCHANGED swallowed
       \/ /\ Failing
          /\ swallowed' = swallowed \cup {at}
          /\ UNCHANGED <<err, whole, elem>>
    /\ pc' = "value"
    /\ at' = Advanced
    /\ UNCHANGED <<request, finished, jobs, call>>

-----------------------------------------------------------------------------
(* Value, which waits for an element, and wg.Go, which waits for a slot.   *)
Value ==
    /\ pc = "value"
    /\ elem # <<>>
    /\ Cardinality(active) < Limit
    /\ elem' = Tail(elem)
    /\ active' = active \cup {<<Head(elem), started[Head(elem)]>>}
    /\ started' = [started EXCEPT ![Head(elem)] = @ + 1]
    /\ pc' = "next"
    /\ UNCHANGED <<request, at, err, finished, swallowed, late, failed, whole, call, faults>>

(* Has nobody created the file of a again since?                           *)
Newest(a) == a[2] + 1 = started[a[1]] /\ a[1] \notin Range(elem)

(* A download ends: with all of the file, or with what an os.Create in     *)
(* between has left of it; with an error that is only logged; or canceled, *)
(* which is the error wg.Wait returns.  ProgressTracker's OnDone does      *)
(* nothing.                                                                *)
OnDone(a) ==
    /\ a \in active
    /\ active' = active \ {a}
    /\ \/ /\ whole' \in {whole \cup {a[1]}} \cup (IF Newest(a) THEN {} ELSE {whole})
          /\ UNCHANGED <<failed, rerr, faults>>
       \/ /\ faults < MaxFaults /\ faults' = faults + 1
          /\ failed' = failed \cup {a}
          /\ UNCHANGED <<whole, rerr>>
       \/ canceled /\ rerr' = "error" /\ UNCHANGED <<failed, whole, faults>>
    /\ UNCHANGED <<request, pc, iter, late, started, key, canceled, runs>>

(* One of an earlier run ends, well or not, unheard; its file may be whole *)
(* then, unless it has been truncated since.                               *)
OnDoneLate(a) ==
    /\ a \in late
    /\ late' = late \ {a}
    /\ whole' \in {whole, whole \cup {a[1]}}
    /\ UNCHANGED <<request, pc, iter, active, started, failed, call, faults>>

Cancel ==
    /\ pc # "idle" /\ ~canceled
    /\ canceled' = TRUE
    /\ UNCHANGED <<request, pc, iter, jobs, whole, key, rerr, runs, faults>>

(* The loop is over: with i.err set Download returns at once, its          *)
(* downloads still going; without, when they are over.  Run stores         *)
(* i.finished if there was an error, and deletes the key if not; an error  *)
(* of that is one of Run.                                                  *)
Return ==
    /\ pc = "ended"
    /\ err \/ active = {}
    /\ \/ /\ rerr' = IF err \/ rerr = "error" THEN "error" ELSE "nil"
          /\ key' = IF rerr' = "error" THEN Saved ELSE {}
          /\ UNCHANGED faults
       \/ /\ faults < MaxFaults /\ faults' = faults + 1
          /\ rerr' = "error"
          /\ UNCHANGED key
    /\ pc' = "idle"
    /\ UNCHANGED <<request, iter, jobs, whole, canceled, runs>>

-----------------------------------------------------------------------------
NextStep == NextEarly \/ NextEnd \/ NextSkip \/ NextSingle \/ NextGrouped

Next ==
    \/ Run \/ RunFails
    \/ NextStep \/ NextFails
    \/ Value
    \/ \E a \in active : OnDone(a)
    \/ \E a \in late : OnDoneLate(a)
    \/ Cancel
    \/ Return

Spec == Init /\ [][Next]_vars

(* The loop goes on and downloads end; no request need fail, and nobody    *)
(* need cancel or run again.                                               *)
FairSpec ==
    /\ Spec
    /\ WF_vars(NextStep \/ Value \/ Return)
    /\ WF_vars(\E a \in active : OnDone(a))

-----------------------------------------------------------------------------
TypeOK ==
    /\ pc \in {"idle", "next", "process", "value", "ended"}
    /\ at \in (1 .. Len(Dialogs) + 1) \X (Nat \ {0})
    /\ at[1] <= Len(Dialogs) => at[2] = 1 \/ at[2] <= Len(Dialogs[at[1]])
    /\ err \in BOOLEAN
    /\ elem \in Seq(Msgs) /\ Len(elem) <= 10
    /\ active \in SUBSET (Msgs \X Nat) /\ Cardinality(active) <= Limit
    /\ late \in SUBSET (Msgs \X Nat \X Nat) /\ swallowed \in SUBSET Positions
    /\ started \in [Msgs -> Nat] /\ failed \in SUBSET (Msgs \X Nat)
    /\ whole \in SUBSET Msgs
    /\ finished \in SUBSET Positions
    /\ key \in SUBSET (SUBSET Positions)
    /\ rerr \in {"none", "nil", "error"}
    /\ canceled \in BOOLEAN /\ faults \in Nat /\ runs \in Nat

(* Where the iteration goes: the positions before the first dialog without *)
(* messages, which process takes for the end of all of them.               *)
Reached == {p \in Positions : \A d \in 1 .. p[1] : Dialogs[d] # <<>>}

Passed(p) == p[1] < at[1] \/ (p[1] = at[1] /\ p[2] < at[2])

(* The messages at a position: one, or its album.                          *)
MsgsAt(p) ==
    LET n == Dialogs[p[1]][p[2]] IN
    IF request.group /\ Album[n] # <<>> THEN Range(Album[n]) ELSE {n}

(* How often message m is due: once for each time it is listed, or, in an  *)
(* album, once for each listed message of the album.                       *)
Due(m) == Cardinality({p \in Reached : m \in MsgsAt(p)})

(* No message is started more often than it is due, over all dialogs,      *)
(* left-overs of albums and skips.  When Run returns nil, be it after a    *)
(* run that was interrupted and has stored its progress, every message     *)
(* with a file has been started as often as it was due, its downloads are  *)
(* over, and its file is whole unless one of them has failed, though two   *)
(* of them may have written it at once, or the later has truncated what    *)
(* the earlier had written (iter.go:108-172,214-260, dl.go:80-121).        *)
NilMeansAll ==
    /\ \A m \in Msgs : started[m] <= Due(m)
    /\ pc = "idle" /\ rerr = "nil" =>
         /\ active = {}
         /\ \A m \in Msgs : Class[m] = "media" /\ Due(m) > 0 =>
               /\ started[m] = Due(m)
               /\ m \in whole \/ \E a \in failed : a[1] = m

(* Value waits for an element that never comes: an album the iteration has *)
(* come to could not be had, it has no file that passes the filters, or    *)
(* none of its files could be created.                                     *)
StuckAtEmptyAlbum ==
    /\ pc = "value" /\ elem = <<>>
    /\ \E p \in Reached :
         LET album == Album[Dialogs[p[1]][p[2]]] IN
         /\ Passed(p) /\ album # <<>>
         /\ \/ p \in swallowed
            \/ \A m \in Range(album) : Class[m] # "media"
            \/ err /\ faults > 0

(* Run comes back, whatever is filtered, fails or is canceled; only at an  *)
(* album of which it has nothing to download, or that it could not have,   *)
(* does it wait for ever, canceled or not (iter.go:108-172,244-260,        *)
(* dl.go:55-122).                                                          *)
RunReturns == pc = "next" ~> pc = "idle" \/ StuckAtEmptyAlbum

(* The messages without media at a position, its album's included.         *)
Texts(p) == {m \in MsgsAt(p) : Class[m] = "text"}

(* The iterator fails only for a reason: a request failed, the context was *)
(* canceled, or a message it has come to has no media, one of an album     *)
(* included, whose errors are said to be ignored (iter.go:174-179,         *)
(* 244-256).  Filtered and finished messages are no reason, and no message *)
(* without media is passed over, but in an album that could not be had.    *)
ErrorHasReason ==
    /\ err => faults > 0 \/ canceled \/ \E p \in Reached : Passed(p) /\ Texts(p) # {}
    /\ \A p \in Reached : Passed(p) /\ Texts(p) # {} => err \/ p \in swallowed
=============================================================================
