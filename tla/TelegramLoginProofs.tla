------------------------ MODULE TelegramLoginProofs -------------------------
(***************************************************************************)
(* The bolt file keeps the steps of two logins apart: whatever processes   *)
(* run at a time, and however many, the stored hash is that of the newest  *)
(* code, and the newest code is not refused without a reason.              *)
(***************************************************************************)
EXTENDS TelegramLogin, TLAPS

Stores    == {"cache", "phone"}
Places    == {"open", "connect", "status", "send", "set", "get", "signin", "work"}
OfLogin   == {"send", "set", "get", "signin"}
Processes == [cmd : Commands, opened : 0 .. 2, otp : Codes, hash : Codes, pc : Ended \cup Places]

Typed ==
    /\ password \in BOOLEAN /\ authorized \in BOOLEAN
    /\ codes \in Codes /\ codeHash \in Codes /\ lost \subseteq 1 .. codes
    /\ lock \in [Stores -> Procs \cup {NoProc}]
    /\ proc \in [Procs -> Processes]
    /\ faults \in 0 .. MaxFaults

(* A process has the stores it has opened and not ended with.              *)
Has(p, s) == proc[p].pc \notin Ended /\ \E n \in 1 .. proc[p].opened : StoresOf(proc[p].cmd)[n] = s
LockInv   == \A p \in Procs, s \in Stores : lock[s] = p <=> Has(p, s)

(* It is past the opening with all of them, and at the steps of a login    *)
(* only if it is one, with or without a code.                              *)
PlaceInv(p) ==
    /\ proc[p].pc = "open" => proc[p].opened < Len(StoresOf(proc[p].cmd))
    /\ proc[p].pc \in Places \ {"open"} => proc[p].opened = Len(StoresOf(proc[p].cmd))
    /\ proc[p].pc \in OfLogin => proc[p].cmd = "login"
    /\ proc[p].pc \in {"get", "signin"} => proc[p].otp # None

(* A hash on its way to the store is the newest code's, and one read from  *)
(* the store is still the one in it.                                       *)
CarryInv(p) ==
    /\ proc[p].pc = "set" => proc[p].hash = codes /\ codes > 0 /\ codes \notin lost
    /\ proc[p].pc = "signin" => proc[p].hash = codeHash

(* HashIsNewest without the maximum.                                       *)
Live    == (1 .. codes) \ (lost \cup Sending)
HashInv == codeHash \in {None} \cup Live /\ \A n \in Live : n <= codeHash

Inv == /\ Typed /\ LockInv
       /\ \A p \in Procs : PlaceInv(p)
       /\ \A p \in Procs : CarryInv(p)
       /\ HashInv

-----------------------------------------------------------------------------
(* What the stores of a command are.                                       *)
LEMMA StoresFacts ==
    ASSUME NEW cmd \in Commands
    PROVE  /\ Len(StoresOf(cmd)) \in {1, 2}
           /\ \A n \in 1 .. Len(StoresOf(cmd)) : StoresOf(cmd)[n] \in Stores
           /\ cmd = "login" => StoresOf(cmd)[1] = "phone" /\ Len(StoresOf(cmd)) = 1
           /\ Len(StoresOf(cmd)) = 2 => StoresOf(cmd)[1] # StoresOf(cmd)[2]
BY DEF StoresOf, Stores, Commands

(* Only one process at a time is at the steps of a login.                  *)
LEMMA LoginAlone ==
    ASSUME Inv, NEW p \in Procs, NEW r \in Procs,
           proc[p].pc \in OfLogin, proc[r].pc \in OfLogin
    PROVE  p = r
<1>1. ASSUME NEW x \in Procs, proc[x].pc \in OfLogin PROVE lock["phone"] = x
  <2>1. proc[x].cmd = "login" /\ proc[x].opened = Len(StoresOf(proc[x].cmd))
    BY <1>1 DEF Inv, PlaceInv, OfLogin, Places
  <2>2. StoresOf(proc[x].cmd)[1] = "phone" /\ proc[x].opened = 1
    BY <2>1, StoresFacts DEF Commands
  <2>3. proc[x].pc \notin Ended
    BY <1>1 DEF OfLogin, Ended
  <2>4. Has(x, "phone")
    BY <2>2, <2>3 DEF Has
  <2>. QED
    BY <2>4 DEF Inv, LockInv, Stores
<1>. QED
  BY <1>1

(* The maximum of the numbers that count is the one HashInv gives.         *)
LEMMA HashInvMeans == Typed /\ HashInv => HashIsNewest
<1> SUFFICES ASSUME Typed, HashInv PROVE HashIsNewest
  OBVIOUS
<1> DEFINE S == {0} \cup Live
<1>1. codeHash \in S /\ \A n \in S : codeHash >= n
  BY LoginAssumption DEF Typed, HashInv, None, Codes, Live
<1>2. ASSUME NEW m \in S, \A n \in S : m >= n PROVE m = codeHash
  <2>1. m >= codeHash /\ codeHash >= m
    BY <1>1, <1>2
  <2>2. m \in Int /\ codeHash \in Int
    BY LoginAssumption DEF Typed, Codes, Live
  <2>. HIDE DEF S
  <2>. QED
    BY <2>1, <2>2
<1>3. Max(S) = codeHash
  <2>. HIDE DEF S
  <2>. QED
    BY <1>1, <1>2 DEF Max
<1>. QED
  BY <1>3 DEF HashIsNewest, Live

-----------------------------------------------------------------------------
LEMMA InitInv == Init => Inv
<1> SUFFICES ASSUME Init PROVE Inv
  OBVIOUS
<1>1. Typed
  <2>1. 0 \in Codes /\ 0 \in 0 .. MaxFaults
    BY LoginAssumption DEF Codes
  <2>2. proc \in [Procs -> Processes]
    BY <2>1 DEF Init, Processes, Commands, Ended, None
  <2>3. lock \in [Stores -> Procs \cup {NoProc}]
    BY DEF Init, Stores
  <2>. QED
    BY <2>1, <2>2, <2>3 DEF Init, Typed, None
<1>2. \A p \in Procs : proc[p].pc = "none"
  BY DEF Init
<1>3. LockInv
  BY <1>2, LoginAssumption DEF Init, LockInv, Has, Ended, Stores
<1>4. \A p \in Procs : PlaceInv(p) /\ CarryInv(p)
  BY <1>2 DEF PlaceInv, CarryInv, Places, OfLogin
<1>5. HashInv
  BY DEF Init, HashInv, Live, None
<1>. QED
  BY <1>1, <1>3, <1>4, <1>5 DEF Inv
-----------------------------------------------------------------------------
(* What a step of process p that sends no code and stores no hash keeps.   *)
Quiet(p) ==
    /\ UNCHANGED <<codes, codeHash, lost>>
    /\ password' \in BOOLEAN /\ authorized' \in BOOLEAN /\ faults' \in 0 .. MaxFaults
    /\ proc[p].pc # "set"

LEMMA QuietData ==
    ASSUME Inv, NEW p \in Procs, Quiet(p), proc' \in [Procs -> Processes],
           proc'[p].pc # "set", proc'[p].pc = "signin" => proc'[p].hash = codeHash,
           \A x \in Procs \ {p} : proc'[x] = proc[x]
    PROVE  HashInv' /\ \A x \in Procs : CarryInv(x)'
<1>1. \A x \in Procs : (proc'[x].pc = "set" <=> proc[x].pc = "set")
                       /\ (proc[x].pc = "set" => proc'[x] = proc[x])
  BY DEF Quiet
<1>2. Sending' = Sending
  BY <1>1 DEF Sending, At
<1>3. HashInv'
  BY <1>2 DEF HashInv, Live, Quiet, Inv
<1>4. ASSUME NEW x \in Procs PROVE CarryInv(x)'
  BY <1>4 DEF CarryInv, Quiet, Inv
<1>. QED
  BY <1>3, <1>4

(* A process goes on with the stores it has.                               *)
LEMMA QuietMove ==
    ASSUME Inv, NEW p \in Procs, NEW r \in Processes, Quiet(p), lock' = lock,
           proc' = [proc EXCEPT ![p] = r],
           r.cmd = proc[p].cmd, r.opened = proc[p].opened, r.otp = proc[p].otp,
           proc[p].pc \in Places \ {"open"}, r.pc \in Places \ {"open", "set"},
           r.pc \in OfLogin => r.cmd = "login",
           r.pc \in {"get", "signin"} => r.otp # None,
           r.pc = "signin" => r.hash = codeHash
    PROVE  Inv'
<1>1. proc \in [Procs -> Processes]
  BY DEF Inv, Typed
<1>2. proc'[p] = r /\ \A x \in Procs \ {p} : proc'[x] = proc[x]
  BY <1>1
<1>3. proc' \in [Procs -> Processes]
  BY <1>1
<1>4. Typed'
  BY <1>3 DEF Inv, Typed, Quiet
<1>5. LockInv'
  <2>1. \A x \in Procs, s \in Stores : Has(x, s)' <=> Has(x, s)
    BY <1>2 DEF Has, Places, Ended
  <2>. QED
    BY <2>1 DEF LockInv, Inv
<1>6. \A x \in Procs : PlaceInv(x)'
  BY <1>2 DEF PlaceInv, Inv, Places, OfLogin
<1>7. HashInv' /\ \A x \in Procs : CarryInv(x)'
  BY <1>2, <1>3, QuietData
<1>. QED
  BY <1>4, <1>5, <1>6, <1>7 DEF Inv

(* A process ends: it has no store any more, the others have theirs.       *)
LEMMA ExitStep ==
    ASSUME Inv, NEW p \in Procs, NEW how \in Ended, Exit(p, how)
    PROVE  /\ proc' \in [Procs -> Processes]
           /\ proc'[p].pc = how /\ \A x \in Procs \ {p} : proc'[x] = proc[x]
           /\ lock' \in [Stores -> Procs \cup {NoProc}]
           /\ LockInv'
           /\ \A x \in Procs : PlaceInv(x)'
<1>1. proc \in [Procs -> Processes] /\ lock \in [Stores -> Procs \cup {NoProc}]
  BY DEF Inv, Typed
<1>2. proc' = [proc EXCEPT ![p].pc = how]
  BY DEF Exit, Go
<1>3. proc' \in [Procs -> Processes]
  BY <1>1, <1>2 DEF Processes
<1>4. proc'[p].pc = how /\ \A x \in Procs \ {p} : proc'[x] = proc[x]
  BY <1>1, <1>2 DEF Processes
<1>5. lock' = [s \in Stores |-> IF lock[s] = p THEN NoProc ELSE lock[s]]
  BY <1>1 DEF Exit
<1>6. lock' \in [Stores -> Procs \cup {NoProc}]
  BY <1>1, <1>5
<1>7. LockInv'
  <2> SUFFICES ASSUME NEW x \in Procs, NEW s \in Stores
               PROVE  lock'[s] = x <=> Has(x, s)'
    BY DEF LockInv
  <2>1. CASE x = p
    <3>1. lock'[s] # p
      BY <1>5, LoginAssumption
    <3>2. ~Has(p, s)'
      BY <1>4 DEF Has
    <3>. QED
      BY <2>1, <3>1, <3>2
  <2>2. CASE x # p
    <3>1. Has(x, s)' <=> Has(x, s)
      BY <1>4, <2>2 DEF Has
    <3>2. lock'[s] = x <=> lock[s] = x
      BY <1>5, <2>2, LoginAssumption
    <3>. QED
      BY <3>1, <3>2 DEF Inv, LockInv
  <2>. QED
    BY <2>1, <2>2
<1>8. \A x \in Procs : PlaceInv(x)'
  BY <1>4 DEF PlaceInv, Inv, Ended, Places, OfLogin
<1>. QED
  BY <1>3, <1>4, <1>6, <1>7, <1>8

LEMMA QuietExit ==
    ASSUME Inv, NEW p \in Procs, NEW how \in Ended, Exit(p, how), Quiet(p)
    PROVE  Inv'
<1>1. HashInv' /\ \A x \in Procs : CarryInv(x)'
  BY ExitStep, QuietData DEF Ended
<1>2. Typed'
  BY ExitStep DEF Typed, Inv, Quiet
<1>. QED
  BY <1>1, <1>2, ExitStep DEF Inv
-----------------------------------------------------------------------------
LEMMA FaultCounted == ASSUME Inv, Fault PROVE faults' \in 0 .. MaxFaults
BY LoginAssumption DEF Fault, Inv, Typed

LEMMA StartStep ==
    ASSUME Inv, NEW p \in Procs, NEW cmd \in Commands, NEW otp \in 0 .. MaxCodes,
           Start(p, cmd, otp)
    PROVE  Inv'
<1> DEFINE r == [cmd |-> cmd, pc |-> "open", opened |-> 0, otp |-> otp, hash |-> None]
<1>1. r \in Processes
  BY LoginAssumption DEF Processes, Codes, None, Places
<1>2. proc \in [Procs -> Processes] /\ proc[p].pc \in Ended
  BY DEF Inv, Typed, Start
<1>3. proc' = [proc EXCEPT ![p] = r]
  BY DEF Start
<1>4. proc'[p] = r /\ \A x \in Procs \ {p} : proc'[x] = proc[x]
  BY <1>2, <1>3
<1>5. proc' \in [Procs -> Processes]
  BY <1>1, <1>2, <1>3
<1>6. UNCHANGED <<password, authorized, codes, codeHash, lost, lock, faults>>
  BY DEF Start
<1>7. Typed'
  BY <1>5, <1>6 DEF Inv, Typed
<1>8. LockInv'
  <2>1. \A s \in Stores : ~Has(p, s)' /\ ~Has(p, s)
    BY <1>2, <1>4 DEF Has
  <2>2. \A x \in Procs, s \in Stores : Has(x, s)' <=> Has(x, s)
    BY <1>4, <2>1 DEF Has
  <2>. QED
    BY <1>6, <2>2 DEF LockInv, Inv
<1>9. \A x \in Procs : PlaceInv(x)'
  <2>1. 0 < Len(StoresOf(cmd))
    BY StoresFacts
  <2>. QED
    BY <1>4, <2>1 DEF PlaceInv, Inv, Places, OfLogin
<1>10. HashInv' /\ \A x \in Procs : CarryInv(x)'
  BY <1>2, <1>4, <1>5, <1>6, QuietData DEF Quiet, Inv, Typed, Ended
<1>. QED
  BY <1>7, <1>8, <1>9, <1>10 DEF Inv

(* A store that was free is one more that the process has.                 *)
LEMMA OpenStep == ASSUME Inv, NEW p \in Procs, GetOrCreateStore(p) PROVE Inv'
<1> DEFINE stores == StoresOf(proc[p].cmd)
           opened == proc[p].opened + 1
           s      == stores[opened]
           then   == IF opened < Len(stores) THEN "open"
                     ELSE IF s = "cache" THEN "work" ELSE "connect"
<1>1. proc \in [Procs -> Processes] /\ proc[p].pc = "open" /\ proc[p].cmd \in Commands
      /\ proc[p].opened \in 0 .. 2 /\ UNCHANGED <<password, authorized, codes, codeHash, lost>>
  BY DEF Inv, Typed, GetOrCreateStore, At, Processes
<1>2. opened \in 1 .. Len(stores) /\ Len(stores) \in {1, 2} /\ s \in Stores
  BY <1>1, StoresFacts DEF Inv, PlaceInv
<1>3. CASE /\ Free(s) /\ lock' = KeptOpen(p, s)
           /\ proc' = [proc EXCEPT ![p].opened = opened, ![p].pc = then]
           /\ UNCHANGED faults
  <2>1. proc' \in [Procs -> Processes]
    <3>1. opened \in 0 .. 2 /\ then \in Places
      BY <1>1, <1>2 DEF Places
    <3> HIDE DEF opened, then
    <3>. QED
      BY <1>1, <1>3, <3>1 DEF Processes
  <2>2. proc'[p] = [proc[p] EXCEPT !.opened = opened, !.pc = then]
        /\ \A x \in Procs \ {p} : proc'[x] = proc[x]
    BY <1>1, <1>3
  <2>3. proc'[p].cmd = proc[p].cmd /\ proc'[p].opened = opened /\ proc'[p].pc = then
    BY <1>1, <2>2 DEF Processes
  <2>4. lock' = [lock EXCEPT ![s] = p] /\ lock \in [Stores -> Procs \cup {NoProc}]
        /\ lock[s] = NoProc
    BY <1>3 DEF Free, KeptOpen, Inv, Typed
  <2>5. Typed'
    BY <1>1, <1>3, <2>1, <2>4 DEF Inv, Typed
  <2>6. LockInv'
    <3>1. ASSUME NEW u \in Stores PROVE Has(p, u)' <=> Has(p, u) \/ u = s
      <4>1. 1 .. opened = (1 .. proc[p].opened) \cup {opened}
        BY <1>1
      <4>2. then \notin Ended /\ proc[p].pc \notin Ended
        BY <1>1 DEF Ended
      <4>. QED
        BY <2>3, <4>1, <4>2 DEF Has
    <3>2. ASSUME NEW x \in Procs \ {p}, NEW u \in Stores PROVE Has(x, u)' <=> Has(x, u)
      BY <2>2 DEF Has
    <3>3. ASSUME NEW x \in Procs, NEW u \in Stores PROVE lock'[u] = x <=> Has(x, u)'
      <4>1. lock[u] = x <=> Has(x, u)
        BY DEF Inv, LockInv
      <4>2. u # s => lock'[u] = lock[u]
        BY <2>4
      <4>3. u = s => lock'[u] = p /\ lock[u] \notin Procs
        BY <1>2, <2>4, LoginAssumption
      <4>. QED
        BY <3>1, <3>2, <4>1, <4>2, <4>3
    <3>. QED
      BY <3>3 DEF LockInv
  <2>7. \A x \in Procs : PlaceInv(x)'
    <3>1. PlaceInv(p)'
      BY <1>1, <1>2, <2>3 DEF PlaceInv, Places, OfLogin
    <3>. QED
      BY <2>2, <3>1, ZenonT(30) DEF PlaceInv, Inv
  <2>8. HashInv' /\ \A x \in Procs : CarryInv(x)'
    BY <1>1, <1>3, <2>1, <2>2, <2>3, QuietData DEF Quiet, Inv, Typed
  <2>. QED
    BY <2>5, <2>6, <2>7, <2>8 DEF Inv
<1>4. CASE Exit(p, "error") /\ (UNCHANGED faults \/ Fault)
  BY <1>1, <1>4, QuietExit, FaultCounted DEF Quiet, Inv, Typed, Ended
<1>. QED
  BY <1>3, <1>4 DEF GetOrCreateStore
-----------------------------------------------------------------------------
(* The steps that neither send a code nor store a hash.                    *)
LEMMA QuietStep ==
    ASSUME Inv, NEW p \in Procs,
           \/ Connect(p) \/ Status(p) \/ WhoAmI(p) \/ GetHash(p) \/ SignIn(p) \/ Work(p)
    PROVE  Inv'
<1>1. proc[p] \in Processes /\ proc \in [Procs -> Processes]
  BY DEF Inv, Typed
<1>2. ASSUME NEW pc \in {"status", "send", "get", "work"}, Go(p, pc), Quiet(p), lock' = lock,
             proc[p].pc \in {"connect", "status"},
             pc \in {"send", "get"} => IsLogin(p),
             pc = "get" => proc[p].otp # None
      PROVE  Inv'
  <2> DEFINE r == [proc[p] EXCEPT !.pc = pc]
  <2>1. r \in Processes /\ r.cmd = proc[p].cmd /\ r.opened = proc[p].opened
        /\ r.otp = proc[p].otp /\ r.pc = pc
    BY <1>1, <1>2 DEF Processes, Places
  <2>2. proc' = [proc EXCEPT ![p] = r]
    BY <1>2 DEF Go
  <2> HIDE DEF r
  <2>. QED
    BY <1>2, <2>1, <2>2, QuietMove DEF Places, OfLogin, IsLogin
<1>3. ASSUME Connect(p) PROVE Inv'
  <2>1. Quiet(p) /\ proc[p].pc = "connect"
    BY <1>3, FaultCounted DEF Connect, At, Quiet, Inv, Typed
  <2>2. (Go(p, "status") /\ lock' = lock) \/ Exit(p, "error")
    BY <1>3 DEF Connect
  <2>. QED
    BY <1>2, <2>1, <2>2, QuietExit DEF Ended
<1>4. ASSUME Status(p) PROVE Inv'
  <2>1. Quiet(p) /\ proc[p].pc = "status" /\ IsLogin(p)
    BY <1>4, FaultCounted DEF Status, At, Quiet, Inv, Typed
  <2>2. \/ Go(p, Login(p)) /\ lock' = lock
        \/ \E how \in {"nil", "error"} : Exit(p, how)
    BY <1>4 DEF Status
  <2>3. Login(p) \in {"send", "get"} /\ (Login(p) = "get" => proc[p].otp # None)
    BY DEF Login
  <2>. QED
    BY <1>2, <2>1, <2>2, <2>3, QuietExit DEF Ended
<1>5. ASSUME WhoAmI(p) PROVE Inv'
  <2>1. Quiet(p) /\ proc[p].pc = "status"
    BY <1>5, FaultCounted DEF WhoAmI, At, Quiet, Inv, Typed
  <2>2. (Go(p, "work") /\ lock' = lock) \/ \E how \in {"error", "panic"} : Exit(p, how)
    BY <1>5 DEF WhoAmI
  <2>. QED
    BY <1>2, <2>1, <2>2, QuietExit DEF Ended
<1>6. ASSUME GetHash(p) PROVE Inv'
  <2> DEFINE r == [proc[p] EXCEPT !.pc = "signin", !.hash = codeHash]
  <2>1. Quiet(p) /\ proc[p].pc = "get"
    BY <1>6, FaultCounted DEF GetHash, At, Quiet, Inv, Typed
  <2>2. (proc' = [proc EXCEPT ![p] = r] /\ lock' = lock) \/ Exit(p, "error")
    BY <1>6 DEF GetHash
  <2>3. r \in Processes /\ r.cmd = proc[p].cmd /\ r.opened = proc[p].opened
        /\ r.otp = proc[p].otp /\ r.pc = "signin" /\ r.hash = codeHash
    BY <1>1 DEF Processes, Places, Inv, Typed
  <2>4. proc[p].cmd = "login" /\ proc[p].otp # None
    BY <2>1 DEF Inv, PlaceInv, OfLogin
  <2> HIDE DEF r
  <2>. QED
    BY <2>1, <2>2, <2>3, <2>4, QuietMove, QuietExit DEF Places, OfLogin, Ended
<1>7. ASSUME SignIn(p) PROVE Inv'
  <2>1. Quiet(p)
    BY <1>7, FaultCounted DEF SignIn, At, Quiet, Inv, Typed, Fits
  <2>2. \E how \in {"nil", "error"} : Exit(p, how)
    BY <1>7 DEF SignIn
  <2>. QED
    BY <2>1, <2>2, QuietExit DEF Ended
<1>8. ASSUME Work(p) PROVE Inv'
  BY <1>8, QuietExit DEF Work, At, Quiet, Inv, Typed, Ended
<1>. QED
  BY <1>3, <1>4, <1>5, <1>6, <1>7, <1>8

(* A code is sent: its hash is on the way, or lost with the answer.        *)
LEMMA SendStep == ASSUME Inv, NEW p \in Procs, SendCode(p) PROVE Inv'
<1>1. /\ proc[p].pc = "send" /\ proc[p] \in Processes /\ proc \in [Procs -> Processes]
      /\ codes \in Nat /\ UNCHANGED <<password, authorized, codeHash>>
  BY LoginAssumption DEF SendCode, At, Inv, Typed, Codes
<1>2. \A x \in Procs : x # p => proc[x].pc \notin OfLogin
  BY <1>1, LoginAlone DEF OfLogin
<1>3. Sending = {}
  BY <1>1, <1>2 DEF Sending, At, OfLogin
<1>4. CASE /\ codes < MaxCodes /\ codes' = codes + 1
           /\ proc' = [proc EXCEPT ![p].pc = "set", ![p].hash = codes + 1]
           /\ UNCHANGED <<lost, lock, faults>>
  <2> DEFINE r == [proc[p] EXCEPT !.pc = "set", !.hash = codes + 1]
  <2>1. codes + 1 \in Codes /\ codes + 1 \notin lost /\ lost \subseteq 1 .. codes + 1
    BY <1>1, <1>4, LoginAssumption DEF Inv, Typed, Codes
  <2>2. r \in Processes /\ r.cmd = proc[p].cmd /\ r.opened = proc[p].opened
        /\ r.otp = proc[p].otp /\ r.pc = "set" /\ r.hash = codes + 1
    BY <1>1, <2>1 DEF Processes, Places
  <2>3. proc' = [proc EXCEPT ![p] = r]
    BY <1>4
  <2> HIDE DEF r
  <2>4. proc'[p] = r /\ \A x \in Procs \ {p} : proc'[x] = proc[x]
    BY <1>1, <2>3
  <2>5. Typed'
    BY <1>1, <1>4, <2>1, <2>2, <2>3 DEF Inv, Typed
  <2>6. LockInv'
    <3>1. \A x \in Procs, s \in Stores : Has(x, s)' <=> Has(x, s)
      BY <1>1, <2>2, <2>4 DEF Has, Ended
    <3>. QED
      BY <1>4, <3>1 DEF LockInv, Inv
  <2>7. \A x \in Procs : PlaceInv(x)'
    BY <1>1, <2>2, <2>4 DEF PlaceInv, Inv, Places, OfLogin
  <2>8. \A x \in Procs : CarryInv(x)'
    BY <1>1, <1>2, <1>4, <2>1, <2>2, <2>4 DEF CarryInv, OfLogin
  <2>9. Sending' = {codes + 1}
    <3>1. \A x \in Procs : proc'[x].pc = "set" <=> x = p
      BY <1>2, <2>2, <2>4 DEF OfLogin
    <3>. QED
      BY <2>2, <2>4, <3>1 DEF Sending, At
  <2>10. Live' = Live
    BY <1>1, <1>3, <1>4, <2>9 DEF Live
  <2>. QED
    BY <1>1, <2>5, <2>6, <2>7, <2>8, <2>10 DEF Inv, HashInv
<1>5. CASE /\ codes < MaxCodes /\ codes' = codes + 1
           /\ lost' = lost \cup {codes'}
           /\ Fault /\ Exit(p, "error")
  <2>1. codes' \in Codes /\ lost' \subseteq 1 .. codes'
    BY <1>1, <1>5, LoginAssumption DEF Inv, Typed, Codes
  <2>2. Typed'
    BY <1>1, <1>5, <2>1, ExitStep, FaultCounted DEF Inv, Typed, Ended
  <2>3. /\ proc'[p].pc = "error" /\ \A x \in Procs \ {p} : proc'[x] = proc[x]
        /\ LockInv' /\ \A x \in Procs : PlaceInv(x)'
    BY <1>5, ExitStep DEF Ended
  <2>4. \A x \in Procs : proc'[x].pc \notin OfLogin
    BY <1>2, <2>3 DEF OfLogin
  <2>5. Sending' = {} /\ \A x \in Procs : CarryInv(x)'
    BY <2>4 DEF Sending, At, CarryInv, OfLogin
  <2>6. Live' = Live
    BY <1>1, <1>3, <1>5, <2>5 DEF Live
  <2>. QED
    BY <1>1, <2>2, <2>3, <2>5, <2>6 DEF Inv, HashInv
<1>6. CASE /\ Fault
           /\ \E how \in {"nil", "error"} : Exit(p, how)
           /\ UNCHANGED <<codes, lost>>
  BY <1>1, <1>6, QuietExit, FaultCounted DEF Quiet, Inv, Typed, Ended
<1>. QED
  BY <1>4, <1>5, <1>6 DEF SendCode
(* The hash on its way is stored, or lost.                                 *)
LEMMA StoreStep ==
    ASSUME Inv, NEW p \in Procs, proc[p].pc = "set", NEW how \in Ended, Exit(p, how),
           faults' \in 0 .. MaxFaults, UNCHANGED <<password, authorized, codes>>,
           \/ codeHash' = proc[p].hash /\ lost' = lost
           \/ codeHash' = codeHash /\ lost' = lost \cup {proc[p].hash}
    PROVE  Inv'
<1>1. codes \in Nat /\ codes \in Codes /\ codeHash \in Codes /\ lost \subseteq 1 .. codes
  BY LoginAssumption DEF Inv, Typed, Codes
<1>2. proc[p].hash = codes /\ codes > 0 /\ codes \notin lost
  BY DEF Inv, CarryInv
<1>3. \A x \in Procs : x # p => proc[x].pc \notin OfLogin
  BY LoginAlone DEF OfLogin
<1>4. Sending = {codes}
  BY <1>2, <1>3 DEF Sending, At, OfLogin
<1>5. /\ proc'[p].pc = how /\ \A x \in Procs \ {p} : proc'[x] = proc[x]
      /\ LockInv' /\ \A x \in Procs : PlaceInv(x)'
  BY ExitStep
<1>6. \A x \in Procs : proc'[x].pc \notin OfLogin
  BY <1>3, <1>5 DEF OfLogin, Ended
<1>7. Sending' = {} /\ \A x \in Procs : CarryInv(x)'
  BY <1>6 DEF Sending, At, CarryInv, OfLogin
<1>8. Typed'
  <2>1. codeHash' \in Codes
    BY <1>1, <1>2
  <2>2. codes \in 1 .. codes /\ codes' = codes
    BY <1>1, <1>2
  <2>3. lost' \subseteq 1 .. codes'
    BY <1>1, <1>2, <2>2
  <2>4. proc' \in [Procs -> Processes] /\ lock' \in [Stores -> Procs \cup {NoProc}]
    BY ExitStep
  <2>. QED
    BY <1>1, <2>1, <2>3, <2>4 DEF Inv, Typed
<1>9. HashInv'
  <2>1. CASE codeHash' = proc[p].hash /\ lost' = lost
    <3>1. Live' = (1 .. codes) \ lost
      BY <1>7, <2>1 DEF Live
    <3>. QED
      BY <1>1, <1>2, <2>1, <3>1 DEF HashInv
  <2>2. CASE codeHash' = codeHash /\ lost' = lost \cup {proc[p].hash}
    <3>1. Live' = Live
      BY <1>2, <1>4, <1>7, <2>2 DEF Live
    <3>. QED
      BY <2>2, <3>1 DEF HashInv, Inv
  <2>. QED
    BY <2>1, <2>2
<1>. QED
  BY <1>5, <1>7, <1>8, <1>9 DEF Inv

LEMMA StepInv == Inv /\ [Next]_vars => Inv'
<1> SUFFICES ASSUME Inv, [Next]_vars PROVE Inv'
  OBVIOUS
<1>1. CASE UNCHANGED vars
  <2>1. Typed' /\ LockInv'
    BY <1>1 DEF vars, Inv, Typed, LockInv, Has
  <2>2. \A p \in Procs : PlaceInv(p)' /\ CarryInv(p)'
    BY <1>1 DEF vars, Inv, PlaceInv, CarryInv
  <2>3. HashInv'
    BY <1>1 DEF vars, Inv, HashInv, Live, Sending, At
  <2>. QED
    BY <2>1, <2>2, <2>3 DEF Inv
<1>2. ASSUME NEW p \in Procs, NEW cmd \in Commands, NEW otp \in 0 .. MaxCodes,
             Start(p, cmd, otp)
      PROVE  Inv'
  BY <1>2, StartStep
<1>3. ASSUME NEW p \in Procs, SetHash(p) PROVE Inv'
  <2>1. /\ proc[p].pc = "set" /\ Exit(p, "nil") /\ UNCHANGED <<password, authorized, codes>>
        /\ faults' \in 0 .. MaxFaults
    BY <1>3, FaultCounted DEF SetHash, At, Inv, Typed
  <2>2. \/ codeHash' = proc[p].hash /\ lost' = lost
        \/ codeHash' = codeHash /\ lost' = lost \cup {proc[p].hash}
    BY <1>3 DEF SetHash, Stored
  <2>. QED
    BY <2>1, <2>2, StoreStep DEF Ended
<1>4. ASSUME NEW p \in Procs, Kill(p) PROVE Inv'
  <2>1. Exit(p, "none") /\ UNCHANGED <<password, authorized, codes, codeHash>>
        /\ faults' \in 0 .. MaxFaults
    BY <1>4, FaultCounted DEF Kill
  <2>2. CASE proc[p].pc = "set"
    BY <1>4, <2>1, <2>2, StoreStep DEF Kill, At, Ended
  <2>3. CASE proc[p].pc # "set"
    BY <1>4, <2>1, <2>3, QuietExit DEF Kill, At, Ended, Quiet, Inv, Typed
  <2>. QED
    BY <2>2, <2>3
<1>. QED
  BY <1>1, <1>2, <1>3, <1>4, OpenStep, QuietStep, SendStep DEF Next

-----------------------------------------------------------------------------
(* The conjunction is an invariant of the specification.                   *)
THEOREM LoginInductive == Spec => []Inv
BY InitInv, StepInv, PTL DEF Spec

(* Processes are well typed, and none works with a store it does not have  *)
(* to itself (storage.go:48-57).                                           *)
THEOREM LoginTypeCorrect == Spec => []TypeOK
<1>1. Inv => TypeOK
  <2> SUFFICES ASSUME Inv PROVE TypeOK
    OBVIOUS
  <2>1. Typed /\ LockInv
    BY DEF Inv
  <2>2. DOMAIN lock = Stores
    BY <2>1 DEF Typed
  <2>3. \A p \in Procs, s \in DOMAIN lock :
           lock[s] = p <=> /\ proc[p].pc \notin Ended
                           /\ \E n \in 1 .. proc[p].opened : StoresOf(proc[p].cmd)[n] = s
    BY <2>1, <2>2 DEF LockInv, Has
  <2>. QED
    BY <2>1, <2>3 DEF TypeOK, Typed, Processes, Places, Stores
<1>. QED
  BY <1>1, LoginInductive, PTL

(* The stored hash is that of the newest code not lost, for any number of  *)
(* processes, codes and faults (login.go:38-63).                           *)
THEOREM HashCorrect == Spec => []HashIsNewest
<1>1. Inv => HashIsNewest
  BY HashInvMeans DEF Inv
<1>. QED
  BY <1>1, LoginInductive, PTL

(* The newest code is refused only if its hash was lost or the account has *)
(* a password (login.go:67-92).                                            *)
THEOREM NewestCodeCorrect == Spec => NewestCodeSignsIn
<1>1. Inv /\ [Next]_vars =>
        [\A p \in Procs : Refused(p) => ~IsNewest(p) \/ proc[p].otp \in lost \/ password]_vars
  <2> SUFFICES ASSUME Inv, Next, NEW p \in Procs, Refused(p),
                      IsNewest(p), proc[p].otp \notin lost, ~password
               PROVE  FALSE
    OBVIOUS
  <2>1. /\ codes \in Nat /\ codeHash \in 0 .. codes /\ proc[p].otp = codes /\ codes # 0
        /\ proc[p].pc \in {"get", "signin"}
    BY LoginAssumption DEF Inv, Typed, Codes, IsNewest, Refused, PlaceInv, None, HashInv, Live
  <2>2. Sending = {}
    BY <2>1, LoginAlone DEF Sending, At, OfLogin
  <2>3. codes \in Live
    BY <2>1, <2>2 DEF Live, IsNewest
  <2>4. codeHash = codes
    BY <2>1, <2>3 DEF Inv, HashInv
  <2>5. proc[p].pc = "signin" => Fits(p)
    BY <2>1, <2>4 DEF Inv, CarryInv, Fits
  <2>6. proc \in [Procs -> Processes] /\ faults \in Nat
    BY LoginAssumption DEF Inv, Typed
  <2>7. ~Fault /\ proc'[p].pc = "error" /\ proc'[p] # proc[p]
    BY <2>1, <2>6 DEF Refused, Fault
  <2>8. ASSUME NEW x \in Procs, NEW cmd \in Commands, NEW otp \in 0 .. MaxCodes, Start(x, cmd, otp)
        PROVE FALSE
    BY <2>1, <2>6, <2>7, <2>8 DEF Start, Ended
  <2>9. ASSUME NEW x \in Procs, \/ GetOrCreateStore(x) \/ Connect(x) \/ Status(x) \/ WhoAmI(x)
                                 \/ SendCode(x) \/ SetHash(x) \/ Work(x) \/ Kill(x)
        PROVE FALSE
    <3>1. x # p
      BY <2>1, <2>7, <2>9 DEF GetOrCreateStore, Connect, Status, WhoAmI, SendCode, SetHash, Work,
                              Kill, At
    <3>2. \A where : Go(x, where) => proc'[p] = proc[p]
      BY <2>6, <3>1 DEF Go
    <3>3. \A r : proc' = [proc EXCEPT ![x] = r] => proc'[p] = proc[p]
      BY <2>6, <3>1
    <3>4. CASE GetOrCreateStore(x)
      BY <2>6, <2>7, <3>1, <3>2, <3>4 DEF GetOrCreateStore, Exit
    <3>5. CASE SendCode(x)
      BY <2>6, <2>7, <3>1, <3>2, <3>5 DEF SendCode, Exit
    <3>6. CASE Connect(x) \/ Status(x) \/ WhoAmI(x)
      BY <2>7, <3>2, <3>6 DEF Connect, Status, WhoAmI, Exit
    <3>7. CASE SetHash(x) \/ Work(x) \/ Kill(x)
      BY <2>7, <3>2, <3>7 DEF SetHash, Work, Kill, Exit
    <3>. QED
      BY <2>9, <3>4, <3>5, <3>6, <3>7
  <2>10. ASSUME NEW x \in Procs, GetHash(x) PROVE FALSE
    <3>1. x = p
      BY <2>6, <2>7, <2>10 DEF GetHash, Exit, Go
    <3>2. proc' = [proc EXCEPT ![p].pc = "signin", ![p].hash = codeHash]
      BY <2>1, <2>4, <2>7, <2>10, <3>1 DEF GetHash, None
    <3>. QED
      BY <2>6, <2>7, <3>2 DEF Processes
  <2>11. ASSUME NEW x \in Procs, SignIn(x) PROVE FALSE
    <3>1. x = p
      BY <2>6, <2>7, <2>11 DEF SignIn, Exit, Go
    <3>2. Exit(p, "nil")
      BY <2>5, <2>7, <2>11, <3>1 DEF SignIn, At
    <3>. QED
      BY <2>6, <2>7, <3>2 DEF Exit, Go
  <2>. QED
    BY <2>8, <2>9, <2>10, <2>11 DEF Next
<1>. QED
  BY <1>1, LoginInductive, PTL DEF Spec, NewestCodeSignsIn
=============================================================================
