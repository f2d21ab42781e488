--------------------------- MODULE TelegramClient ---------------------------
(***************************************************************************)
(* The connection to telegram and its heartbeat (pkg/telegram/telegram.go):*)
(* every five seconds a goroutine pings the client and, when that fails,   *)
(* puts another in its place, while the workers call the methods of the    *)
(* same Telegram.  Nothing is locked, and a ping may outlast the tick.     *)
(*                                                                         *)
(* Clients are numbered as they are connected.  Clients and peer managers  *)
(* are external; a method call on a nil client panics.                     *)
(***************************************************************************)
EXTENDS Naturals, FiniteSets

CONSTANTS Beats,       \* heartbeat goroutines at the same time
          Callers,     \* goroutines that call GetChatHistory, ForwardMsg, ...
          MaxDrops,    \* connections lost for good
          MaxFaults    \* requests and reconnects that fail

ASSUME ClientAssumption ==
    /\ IsFiniteSet(Beats) /\ IsFiniteSet(Callers)
    /\ MaxDrops \in Nat /\ MaxFaults \in Nat

Nil == 0

VARIABLES
    c,          \* t.c, and t.close with it
    manager,    \* t.manager, by the client it was built on
    clients,    \* the clients connected so far; none is ever closed
    up,         \* those of them that still have a connection
    beat,       \* beat[b]: the goroutine of a tick
    caller,     \* caller[u]: what a call does
    crashed,    \* a panic nobody recovers
    failed,     \* reconnects that have failed
    drops, faults

vars == <<c, manager, clients, up, beat, caller, crashed, failed, drops, faults>>

Idle      == [pc |-> "idle", c |-> Nil]
At(b, where) == beat[b].pc = where
Fault     == faults < MaxFaults /\ faults' = faults + 1

(* NewTelegram, its client connected and the heartbeat begun.              *)
Init ==
    /\ c = 1 /\ manager = 1 /\ clients = 1 /\ up = {1}
    /\ beat = [b \in Beats |-> Idle]
    /\ caller = [u \in Callers |-> "idle"]
    /\ crashed = FALSE /\ failed = 0
    /\ drops = 0 /\ faults = 0

-----------------------------------------------------------------------------
(* A tick: a new goroutine, whatever the older ones are at.                *)
Tick(b) ==
    /\ At(b, "idle")
    /\ beat' = [beat EXCEPT ![b].pc = "tick"]
    /\ UNCHANGED <<c, manager, clients, up, caller, crashed, failed, drops, faults>>

(* t.c.Ping: on nil it panics, which is recovered, and the goroutine ends. *)
Ping(b) ==
    /\ At(b, "tick")
    /\ beat' = [beat EXCEPT ![b] = IF c = Nil THEN Idle ELSE [pc |-> "ping", c |-> c]]
    /\ UNCHANGED <<c, manager, clients, up, caller, crashed, failed, drops, faults>>

(* A failed ping only logged; a lost client put aside at once.             *)
AfterFailLogged == "idle"
AfterFail       == "connect"
MeanwhileNil    == Nil
Meanwhile       == c

(* The ping's answer: a client without connection cannot give one, another *)
(* may fail to.                                                            *)
PingAnswer(b) ==
    /\ At(b, "ping")
    /\ \/ beat[b].c \in up /\ beat' = [beat EXCEPT ![b] = Idle] /\ UNCHANGED <<c, faults>>
       \/ /\ IF beat[b].c \in up THEN Fault ELSE UNCHANGED faults
          /\ beat' = [beat EXCEPT ![b].pc = AfterFail]
          /\ c' = Meanwhile
    /\ UNCHANGED <<manager, clients, up, caller, crashed, failed, drops>>

(* GetClientWithStore: a connected client, or nil and an error, which is   *)
(* logged and then forgotten.                                              *)
GetClientWithStore(b) ==
    /\ At(b, "connect")
    /\ \/ /\ clients' = clients + 1
          /\ up' = up \cup {clients'}
          /\ beat' = [beat EXCEPT ![b] = [pc |-> "client", c |-> clients']]
          /\ UNCHANGED <<failed, faults>>
       \/ /\ Fault /\ failed' = failed + 1
          /\ beat' = [beat EXCEPT ![b] = [pc |-> "client", c |-> Nil]]
          /\ UNCHANGED <<clients, up>>
    /\ UNCHANGED <<c, manager, caller, crashed, drops>>

(* The new client bound to a variable of the block alone.                  *)
ConnectedShadowed(b) == c
Connected(b)         == beat[b].c

(* t.c = c; t.close = stop                                                 *)
SetClient(b) ==
    /\ At(b, "client")
    /\ c' = Connected(b)
    /\ beat' = [beat EXCEPT ![b].pc = "manager"]
    /\ UNCHANGED <<manager, clients, up, caller, crashed, failed, drops, faults>>

(* A manager built on whatever the client is.                              *)
BuiltOnNil(b) == beat[b].c
Built(b)      == IF beat[b].c = Nil THEN manager ELSE beat[b].c

(* t.manager built on c.API(), which panics, and is recovered, when c is   *)
(* nil.                                                                    *)
SetManager(b) ==
    /\ At(b, "manager")
    /\ manager' = Built(b)
    /\ beat' = [beat EXCEPT ![b] = Idle]
    /\ UNCHANGED <<c, clients, up, caller, crashed, failed, drops, faults>>

HeartBeat(b) ==
    \/ Ping(b) \/ PingAnswer(b) \/ GetClientWithStore(b) \/ SetClient(b) \/ SetManager(b)

-----------------------------------------------------------------------------
(* GetChatHistory, ClickBtn, SendMsg, ForwardMsg: peers by t.manager, and  *)
(* then, some requests later, t.c.API().                                   *)
Call(u) ==
    /\ caller[u] = "idle"
    /\ caller' = [caller EXCEPT ![u] = "peer"]
    /\ UNCHANGED <<c, manager, clients, up, beat, crashed, failed, drops, faults>>

(* Answered by the storage or by telegram, or not at all.                  *)
GetInputPeer(u) ==
    /\ caller[u] = "peer"
    /\ \E pc \in {"api", "idle"} : caller' = [caller EXCEPT ![u] = pc]
    /\ UNCHANGED <<c, manager, clients, up, beat, crashed, failed, drops, faults>>

API(u) ==
    /\ caller[u] = "api"
    /\ crashed' = (c = Nil)
    /\ caller' = [caller EXCEPT ![u] = "idle"]
    /\ UNCHANGED <<c, manager, clients, up, beat, failed, drops, faults>>

(* A client's connection is lost for good.                                 *)
Drop(n) ==
    /\ n \in up
    /\ drops < MaxDrops /\ drops' = drops + 1
    /\ up' = up \ {n}
    /\ UNCHANGED <<c, manager, clients, beat, caller, crashed, failed, faults>>

-----------------------------------------------------------------------------
Next ==
    /\ ~crashed
    /\ \/ \E b \in Beats : Tick(b) \/ HeartBeat(b)
       \/ \E u \in Callers : Call(u) \/ GetInputPeer(u) \/ API(u)
       \/ \E n \in up : Drop(n)

Spec == Init /\ [][Next]_vars

(* The ticker ticks, and what it has started goes on.                      *)
FairSpec ==
    /\ Spec
    /\ WF_vars(~crashed /\ \E b \in Beats : Tick(b))
    /\ \A b \in Beats : WF_vars(~crashed /\ HeartBeat(b))

-----------------------------------------------------------------------------
TypeOK ==
    /\ clients \in Nat \ {0}
    /\ up \subseteq 1 .. clients
    /\ c \in {Nil} \cup 1 .. clients
    /\ manager \in 1 .. clients
    /\ beat \in [Beats -> [pc : {"idle", "tick", "ping", "connect", "client", "manager"},
                           c : {Nil} \cup 1 .. clients]]
    /\ caller \in [Callers -> {"idle", "peer", "api"}]
    /\ crashed \in BOOLEAN
    /\ failed \in Nat /\ drops \in Nat /\ faults \in Nat

(* A client that has been replaced is not closed, so that connections pile *)
(* up; but no more of them than one for each goroutine and lost connection *)
(* and one for each ping that failed without, however the goroutines       *)
(* overlap (telegram.go:74-92): none reconnects twice for the same client. *)
ClientsBounded == clients <= 1 + Cardinality(Beats) * drops + faults

(* A call brings the program down only after a reconnect has failed, not   *)
(* by meeting one that succeeds half way (telegram.go:79-92,192-200).      *)
CrashNeedsFailure == crashed \/ c = Nil => failed > 0

(* A client whose connection is lost is replaced by one that has a         *)
(* connection, also when goroutines overlap, unless a reconnect fails      *)
(* (telegram.go:69-96).                                                    *)
DeadIsReplaced == c \notin up ~> c \in up \/ failed > 0
=============================================================================
