--------------------------- MODULE TelegramScrape ---------------------------
(***************************************************************************)
(* Forwarding the new messages of a chat round after round                 *)
(* (cmd/telegram/scrape.go, sources/telegram.go, GetChatHistory of         *)
(* pkg/telegram/telegram.go): the window of a round is the last Limit      *)
(* messages of the chat that are newer than lastFrom, and the cache on     *)
(* disk is what keeps a message of two windows from being sent twice.      *)
(*                                                                         *)
(* Message n is the n-th of the chat.  Its FileName, which the cache knows *)
(* it by, is the name of its document, and two messages may have the same: *)
(* only where there is no such name does the message's id stand for it.    *)
(*                                                                         *)
(* Between feeder and worker there are queues (ScrapperV1); here a worker  *)
(* takes the next post of any feeder.  A job that nothing waits for is not *)
(* kept.                                                                   *)
(***************************************************************************)
EXTENDS Naturals, Sequences, FiniteSets

CONSTANTS MaxMsgs,     \* messages of the chat
          MaxClock,    \* minutes
          Limit,       \* the flags "limit"
          Delta,       \* and "last"
          Names,       \* names of the files of messages
          Feeders,     \* goroutines feeding a round's posts
          Workers,     \* workers of msgq
          MaxFaults,   \* requests that fail
          MaxCrashes   \* ends of the program

ASSUME WindowAssumption ==
    /\ MaxMsgs \in Nat /\ MaxClock \in Nat /\ Delta \in Nat
    /\ Limit \in Nat \ {0}
    /\ IsFiniteSet(Feeders) /\ IsFiniteSet(Workers)
    /\ MaxFaults \in Nat /\ MaxCrashes \in Nat

VARIABLES
    clock,
    chat,       \* chat[n]: Date, FileName, and whether it is a tg.Message
    running,    \* the program runs
    lastFrom,   \* scrapeOpts.LastFrom
    posts,      \* posts[f]: the messages feeder f has left, newest first
    work,       \* work[w]: a worker and its message
    cache,      \* the FileNames cache.Kvd has a key of
    sent,       \* sent[n]: how often message n has been forwarded
    faults, crashes

vars == <<clock, chat, running, lastFrom, posts, work, cache, sent, faults, crashes>>

Idle == [pc |-> "idle", n |-> 0]

Init ==
    /\ clock = 0 /\ chat = <<>>
    /\ running = FALSE /\ lastFrom = 0
    /\ posts = [f \in Feeders |-> {}]
    /\ work = [w \in Workers |-> Idle]
    /\ cache = {} /\ sent = [n \in 1 .. MaxMsgs |-> 0]
    /\ faults = 0 /\ crashes = 0

Fault == faults < MaxFaults /\ faults' = faults + 1

-----------------------------------------------------------------------------
(* The chat: messages arrive, service messages among them.                 *)
Arrive ==
    /\ Len(chat) < MaxMsgs
    /\ \E m \in BOOLEAN, k \in Names :
           chat' = Append(chat, [date |-> clock, message |-> m, name |-> k])
    /\ UNCHANGED <<clock, running, lastFrom, posts, work, cache, sent, faults, crashes>>

Tick ==
    /\ clock < MaxClock
    /\ clock' = clock + 1
    /\ UNCHANGED <<chat, running, lastFrom, posts, work, cache, sent, faults, crashes>>

(* Messages are looked for from Delta minutes before now on.               *)
FromNow == IF clock > Delta THEN clock - Delta ELSE 0

(* The command: LastFrom is computed once, before the first round.         *)
Start ==
    /\ ~running
    /\ running' = TRUE
    /\ lastFrom' = FromNow
    /\ UNCHANGED <<clock, chat, posts, work, cache, sent, faults, crashes>>

-----------------------------------------------------------------------------
(* The oldest message asked for: of the whole history, of the last Limit.  *)
OldestOfAll == 1
Oldest      == IF Len(chat) > Limit THEN Len(chat) - Limit + 1 ELSE 1

(* GetChatHistory: those of them that are tg.Messages.  A response of      *)
(* another type ends the program, which Crash stands for.                  *)
GetChatHistory == {i \in Oldest .. Len(chat) : chat[i].message}

From == lastFrom

(* Those of them newer than LastFrom.                                      *)
scrape == {i \in GetChatHistory : chat[i].date > From}

(* A round: SubmitJob, whose task a topic worker scrapes and a goroutine   *)
(* feeds.  An error of the scrape is logged, and the round has no posts.   *)
Round(f) ==
    /\ running /\ posts[f] = {}
    /\ \/ posts' = [posts EXCEPT ![f] = scrape] /\ UNCHANGED faults
       \/ Fault /\ UNCHANGED posts
    /\ UNCHANGED <<clock, chat, running, lastFrom, work, cache, sent, crashes>>

(* A worker, and whether the cache has the FileName of its message, of     *)
(* this one or of another.                                                 *)
Receive(w, f) ==
    /\ work[w] = Idle
    /\ \E n \in posts[f] :
        /\ \A m \in posts[f] : m <= n
        /\ work' = [work EXCEPT ![w] =
                       IF chat[n].name \in cache THEN Idle ELSE [pc |-> "forward", n |-> n]]
        /\ posts' = [posts EXCEPT ![f] = @ \ {n}]
    /\ UNCHANGED <<clock, chat, running, lastFrom, cache, sent, faults, crashes>>

(* ForwardMsg; after an error the message is not marked, also when it has  *)
(* been forwarded and only the answer was lost.                            *)
ForwardMsg(w) ==
    /\ work[w].pc = "forward"
    /\ \/ /\ sent' = [sent EXCEPT ![work[w].n] = @ + 1]
          /\ work' = [work EXCEPT ![w].pc = "mark"]
          /\ UNCHANGED faults
       \/ /\ Fault
          /\ work' = [work EXCEPT ![w] = Idle]
          /\ sent' \in {sent, [sent EXCEPT ![work[w].n] = @ + 1]}
    /\ UNCHANGED <<clock, chat, running, lastFrom, posts, cache, crashes>>

(* The cache without and with the key of a message.                        *)
MarkedNot(n) == cache
Marked(n)    == cache \cup {chat[n].name}

(* The mark, whose error nobody looks at.                                  *)
CacheSet(w) ==
    /\ work[w].pc = "mark"
    /\ \/ cache' = Marked(work[w].n) /\ UNCHANGED faults
       \/ Fault /\ UNCHANGED cache
    /\ work' = [work EXCEPT ![w] = Idle]
    /\ UNCHANGED <<clock, chat, running, lastFrom, posts, sent, crashes>>

(* The program ends and is started again; chat and cache outlive it.       *)
Crash ==
    /\ running
    /\ crashes < MaxCrashes /\ crashes' = crashes + 1
    /\ running' = FALSE
    /\ posts' = [f \in Feeders |-> {}]
    /\ work' = [w \in Workers |-> Idle]
    /\ UNCHANGED <<clock, chat, lastFrom, cache, sent, faults>>

-----------------------------------------------------------------------------
Working == \E w \in Workers :
               (\E f \in Feeders : Receive(w, f)) \/ ForwardMsg(w) \/ CacheSet(w)

Next ==
    \/ Arrive \/ Tick \/ Start \/ Crash
    \/ \E f \in Feeders : Round(f)
    \/ Working

Spec == Init /\ [][Next]_vars

(* Rounds follow each other while the program runs, and the workers work.  *)
(* Feeders waiting to send are served in turn, as a channel does.          *)
FairSpec ==
    /\ Spec
    /\ WF_vars(Start)
    /\ WF_vars(\E f \in Feeders : Round(f))
    /\ \A f \in Feeders : SF_vars(\E w \in Workers : Receive(w, f))
    /\ \A w \in Workers : WF_vars(ForwardMsg(w) \/ CacheSet(w))

-----------------------------------------------------------------------------
Indexes == 1 .. MaxMsgs

TypeOK ==
    /\ clock \in 0 .. MaxClock
    /\ chat \in Seq([date : 0 .. MaxClock, message : BOOLEAN, name : Names])
    /\ running \in BOOLEAN /\ lastFrom \in 0 .. clock
    /\ posts \in [Feeders -> SUBSET DOMAIN chat]
    /\ \A f \in Feeders : Cardinality(posts[f]) <= Limit
    /\ work \in [Workers -> [pc : {"idle", "forward", "mark"}, n : {0} \cup DOMAIN chat]]
    /\ cache \subseteq Names
    /\ sent \in [Indexes -> Nat]
    /\ faults \in Nat /\ crashes \in Nat

(* A message the windows of many rounds contain is forwarded once by each  *)
(* worker, which may look for its key before another stores it; then once  *)
(* more by each for an end of the program between ForwardMsg and the key,  *)
(* and for each answer lost and each key that fails.  And a key in the     *)
(* cache, which keeps every message of that FileName from being forwarded, *)
(* is there because one of them has been (scrapperV1.go:134-149).          *)
SentOnce ==
    /\ \A n \in Indexes : sent[n] <= Cardinality(Workers) * (1 + crashes) + faults
    /\ \A k \in cache : \E n \in DOMAIN chat : chat[n].name = k /\ sent[n] > 0

(* In the window of the rounds to come; gone from it.                      *)
InWindow(n) ==
    /\ n \in DOMAIN chat /\ chat[n].message /\ chat[n].date > lastFrom
    /\ running
Missed(n) ==
    \/ Len(chat) >= n + Limit
    \/ n \in DOMAIN chat /\ chat[n].date <= lastFrom

(* Another message of the same FileName has been forwarded: the key that   *)
(* worker stores is this message's too (telegram.go:300-311,               *)
(* scrapperV1.go:137).                                                     *)
Doubled(n) == \E m \in DOMAIN chat \ {n} :
                  /\ n \in DOMAIN chat /\ chat[m].name = chat[n].name
                  /\ sent[m] > 0

(* A message in the window is forwarded in the end, failed requests and    *)
(* restarts notwithstanding, unless Limit later ones have come, a restart  *)
(* has moved the window past it, or one of the same FileName has been      *)
(* forwarded before it (cmd/telegram/scrape.go:44-63,                      *)
(* sources/telegram.go:67-91).                                             *)
EventuallyForwarded ==
    \A n \in Indexes : InWindow(n) ~> sent[n] > 0 \/ Missed(n) \/ Doubled(n)
=============================================================================
