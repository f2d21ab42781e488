---------------------------- MODULE TelegramLogin ----------------------------
(***************************************************************************)
(* Logging in to telegram takes two calls of the program                   *)
(* (pkg/telegram/login.go, cmd/telegram/login.go): one has telegram send a *)
(* code and stores the code's hash, the other submits the code with the    *)
(* hash it finds.  Other commands of the program, started at any time, use *)
(* the same stores (pkg/telegram/storage.go): bolt files, of which a       *)
(* process has each to itself and waits for it only so long.               *)
(*                                                                         *)
(* All processes are for one phone number.  Codes are numbered as telegram *)
(* sends them; the hash of code n is n.  Telegram is external.             *)
(***************************************************************************)
EXTENDS Naturals, Sequences, FiniteSets, FiniteSetsExt

CONSTANTS Procs,       \* processes at the same time
          NoProc,
          MaxCodes,    \* codes sent
          MaxFaults    \* requests and writes that fail, processes killed

ASSUME LoginAssumption ==
    /\ IsFiniteSet(Procs) /\ NoProc \notin Procs
    /\ MaxCodes \in Nat /\ MaxFaults \in Nat

None == 0

VARIABLES
    password,    \* the account has one, which the program cannot submit
    authorized,  \* the session in the phone's store is logged in
    codes,       \* the codes sent so far
    codeHash,    \* what Kvd holds under that key
    lost,        \* codes whose hash has not been stored
    lock,        \* lock[s]: the process that has store s open
    proc,        \* proc[p]: a process, its command and where it is
    faults

vars == <<password, authorized, codes, codeHash, lost, lock, proc, faults>>

Commands == {"login", "chats", "send", "scrape", "reddit"}
Ended    == {"none", "nil", "error", "panic"}

(* The stores of a command, in the order it opens them.                    *)
StoresOf(cmd) ==
    CASE cmd = "scrape" -> <<"cache", "phone">>
      [] cmd = "reddit" -> <<"cache">>
      [] OTHER          -> <<"phone">>

At(p, where)  == proc[p].pc = where
IsLogin(p)    == proc[p].cmd = "login"
Go(p, where)  == proc' = [proc EXCEPT ![p].pc = where]
Fault         == faults < MaxFaults /\ faults' = faults + 1

(* The process ends, and with it its hold on the stores.                   *)
Exit(p, how) ==
    /\ Go(p, how)
    /\ lock' = [s \in DOMAIN lock |-> IF lock[s] = p THEN NoProc ELSE lock[s]]

Init ==
    /\ password \in BOOLEAN /\ authorized = FALSE
    /\ codes = 0 /\ codeHash = None /\ lost = {}
    /\ lock = [s \in {"cache", "phone"} |-> NoProc]
    /\ proc = [p \in Procs |-> [cmd |-> "login", pc |-> "none", opened |-> 0, otp |-> None, hash |-> None]]
    /\ faults = 0

-----------------------------------------------------------------------------
(* A command is started; a code it is given is one that has been sent.     *)
Start(p, cmd, otp) ==
    /\ proc[p].pc \in Ended
    /\ otp <= codes /\ (cmd = "login" \/ otp = None)
    /\ proc' = [proc EXCEPT ![p] = [cmd |-> cmd, pc |-> "open", opened |-> 0, otp |-> otp, hash |-> None]]
    /\ UNCHANGED <<password, authorized, codes, codeHash, lost, lock, faults>>

Free(s) == lock[s] = NoProc

(* A store closed again once it has been looked at, and one that stays     *)
(* open as long as the process runs.                                       *)
ClosedAgain(p, s) == lock
KeptOpen(p, s)    == [lock EXCEPT ![s] = p]

(* NewStore: a store that stays busy is an error, and so is one that       *)
(* cannot be written.                                                      *)
GetOrCreateStore(p) ==
    LET stores == StoresOf(proc[p].cmd)
        opened == proc[p].opened + 1
        s      == stores[opened]
    IN  /\ At(p, "open")
        /\ \/ /\ Free(s)
              /\ lock' = KeptOpen(p, s)
              /\ proc' = [proc EXCEPT ![p].opened = opened,
                             ![p].pc = IF opened < Len(stores) THEN "open"
                                       ELSE IF s = "cache" THEN "work" ELSE "connect"]
              /\ UNCHANGED faults
           \/ ~Free(s) /\ Exit(p, "error") /\ UNCHANGED faults
           \/ Fault /\ Exit(p, "error")
        /\ UNCHANGED <<password, authorized, codes, codeHash, lost>>

(* NewTelegram: GetClientWithStore.                                        *)
Connect(p) ==
    /\ At(p, "connect")
    /\ \/ Go(p, "status") /\ UNCHANGED <<lock, faults>>
       \/ Fault /\ Exit(p, "error")
    /\ UNCHANGED <<password, authorized, codes, codeHash, lost>>

(* Which of its two parts a login runs.                                    *)
Login(p) == IF proc[p].otp = None THEN "send" ELSE "get"

(* A login, whose user may be logged in already.                           *)
Status(p) ==
    /\ At(p, "status") /\ IsLogin(p)
    /\ \/ ~authorized /\ Go(p, Login(p)) /\ UNCHANGED <<lock, faults>>
       \/ authorized /\ Exit(p, "nil") /\ UNCHANGED faults
       \/ Fault /\ Exit(p, "error")
    /\ UNCHANGED <<password, authorized, codes, codeHash, lost>>

(* The other commands do not go on without.  When the status cannot be had *)
(* they look at it all the same, and it is nil.                            *)
WhoAmI(p) ==
    /\ At(p, "status") /\ ~IsLogin(p)
    /\ \/ authorized /\ Go(p, "work") /\ UNCHANGED <<lock, faults>>
       \/ ~authorized /\ Exit(p, "error") /\ UNCHANGED faults
       \/ Fault /\ Exit(p, "panic")
    /\ UNCHANGED <<password, authorized, codes, codeHash, lost>>

-----------------------------------------------------------------------------
(* Login without a code: a.SendCode.  Of a code whose answer is lost there *)
(* is no hash; an answer of another kind than AuthSentCode is no error.    *)
SendCode(p) ==
    /\ At(p, "send")
    /\ \/ /\ codes < MaxCodes /\ codes' = codes + 1
          /\ proc' = [proc EXCEPT ![p].pc = "set", ![p].hash = codes + 1]
          /\ UNCHANGED <<lost, lock, faults>>
       \/ /\ codes < MaxCodes /\ codes' = codes + 1
          /\ lost' = lost \cup {codes'}
          /\ Fault /\ Exit(p, "error")
       \/ /\ Fault
          /\ \E how \in {"nil", "error"} : Exit(p, how)
          /\ UNCHANGED <<codes, lost>>
    /\ UNCHANGED <<password, authorized, codeHash>>

(* A hash kept from an earlier code.                                       *)
StoredFirst(hash) == IF codeHash = None THEN hash ELSE codeHash
Stored(hash)      == hash

(* Kvd.Set, whose error nobody looks at.                                   *)
SetHash(p) ==
    /\ At(p, "set")
    /\ \/ codeHash' = Stored(proc[p].hash) /\ UNCHANGED <<lost, faults>>
       \/ Fault /\ lost' = lost \cup {proc[p].hash} /\ UNCHANGED codeHash
    /\ Exit(p, "nil")
    /\ UNCHANGED <<password, authorized, codes>>

(* Login with a code: Otp, which needs a hash.                             *)
GetHash(p) ==
    /\ At(p, "get")
    /\ \/ /\ codeHash # None
          /\ proc' = [proc EXCEPT ![p].pc = "signin", ![p].hash = codeHash]
          /\ UNCHANGED <<lock, faults>>
       \/ codeHash = None /\ Exit(p, "error") /\ UNCHANGED faults
       \/ Fault /\ Exit(p, "error")
    /\ UNCHANGED <<password, authorized, codes, codeHash, lost>>

(* Telegram accepts the newest code with its hash, may accept an earlier   *)
(* one with its own, and no other.                                         *)
Fits(p)     == proc[p].otp = proc[p].hash /\ ~password
IsNewest(p) == proc[p].otp = codes

(* a.SignIn, whose answer may be lost.                                     *)
SignIn(p) ==
    /\ At(p, "signin")
    /\ \/ Fits(p) /\ authorized' = TRUE /\ Exit(p, "nil") /\ UNCHANGED faults
       \/ ~(Fits(p) /\ IsNewest(p)) /\ Exit(p, "error") /\ UNCHANGED <<authorized, faults>>
       \/ /\ Fault /\ Exit(p, "error")
          /\ authorized' \in {authorized, Fits(p)}
    /\ UNCHANGED <<password, codes, codeHash, lost>>

-----------------------------------------------------------------------------
(* What the other commands do then; a scrape of telegram never returns.    *)
Work(p) ==
    /\ At(p, "work") /\ proc[p].cmd # "scrape"
    /\ \E how \in {"nil", "error"} : Exit(p, how)
    /\ UNCHANGED <<password, authorized, codes, codeHash, lost, faults>>

(* The user ends the process.                                              *)
Kill(p) ==
    /\ proc[p].pc \notin Ended
    /\ Fault
    /\ lost' = IF At(p, "set") THEN lost \cup {proc[p].hash} ELSE lost
    /\ Exit(p, "none")
    /\ UNCHANGED <<password, authorized, codes, codeHash>>

-----------------------------------------------------------------------------
Next ==
    \E p \in Procs :
        \/ \E cmd \in Commands, otp \in 0 .. MaxCodes : Start(p, cmd, otp)
        \/ GetOrCreateStore(p) \/ Connect(p) \/ Status(p) \/ WhoAmI(p)
        \/ SendCode(p) \/ SetHash(p) \/ GetHash(p) \/ SignIn(p)
        \/ Work(p) \/ Kill(p)

Spec == Init /\ [][Next]_vars

-----------------------------------------------------------------------------
Codes == 0 .. MaxCodes

(* Types; and a process works with no store that is not its own.           *)
TypeOK ==
    /\ password \in BOOLEAN /\ authorized \in BOOLEAN
    /\ codes \in Codes /\ codeHash \in Codes /\ lost \subseteq 1 .. codes
    /\ lock \in [{"cache", "phone"} -> Procs \cup {NoProc}]
    /\ proc \in [Procs -> [cmd : Commands, opened : 0 .. 2, otp : Codes, hash : Codes,
                           pc : Ended \cup {"open", "connect", "status", "send", "set",
                                            "get", "signin", "work"}]]
    /\ faults \in 0 .. MaxFaults
    /\ \A p \in Procs, s \in DOMAIN lock :
          lock[s] = p <=> /\ proc[p].pc \notin Ended
                          /\ \E n \in 1 .. proc[p].opened : StoresOf(proc[p].cmd)[n] = s

(* The hashes that are on their way from telegram to the store.            *)
Sending == {proc[p].hash : p \in {q \in Procs : At(q, "set")}}

(* The hash in the store is that of the newest code that has not been      *)
(* lost, whatever logins overlap: no login that is late overwrites a newer *)
(* hash, because a process keeps the store until it ends                   *)
(* (login.go:38-63, storage.go:48-57).                                     *)
HashIsNewest == codeHash = Max({0} \cup ((1 .. codes) \ (lost \cup Sending)))

(* Submitting a code, not interrupted and not failing otherwise, is        *)
(* refused.                                                                *)
Refused(p) ==
    /\ proc[p].pc \in {"get", "signin"}
    /\ proc'[p].pc = "error"
    /\ faults' = faults

(* The newest code signs its user in, in whichever process it is submitted *)
(* and whatever other commands run: it is refused only if its hash was     *)
(* lost on the way to the store, or the account asks for a password        *)
(* (login.go:67-92).                                                       *)
NewestCodeSignsIn ==
    [][\A p \in Procs : Refused(p) => ~IsNewest(p) \/ proc[p].otp \in lost \/ password]_vars
=============================================================================
