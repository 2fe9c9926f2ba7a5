------------------------- MODULE TransferSlot_proof -------------------------
(***************************************************************************)
(* Proofs about TransferSlot for any set of threads, any number of ids and *)
(* any staleness threshold.                                                *)
(***************************************************************************)
EXTENDS TransferSlot, TLAPS

USE SlotAssumption DEF Elapsed, NoTime, Labels, AllKinds

ReturnTypes == /\ pc \in [Workers -> Labels]
               /\ kind \in [Workers -> Kinds \cup {"none"}]
               /\ id \in [Workers -> 0 .. MaxId]
               /\ cur \in [Workers -> 0 .. MaxId]
               /\ calls \in [Workers -> 0 .. 3]
               /\ armed \in [Workers -> BOOLEAN]

\* A thread that returns keeps every per-thread variable in its type.
LEMMA ReturnTyped == ASSUME NEW w \in Workers, ReturnTypes, Return(w) PROVE ReturnTypes'
  BY DEF ReturnTypes, Return, Goto

\* The state of TransferState and of its threads stays well typed under every
\* operation of the slot.
THEOREM TypeCorrect == Spec => []TypeOK
<1>1. Init => TypeOK
  <2> SUFFICES ASSUME Init PROVE TypeOK
    OBVIOUS
  <2>1. last_activity \in {NoTime} \cup Elapsed
    BY DEF Init
  <2>2. pc \in [Workers -> Labels] /\ kind \in [Workers -> Kinds \cup {"none"}]
    BY DEF Init
  <2>3. needs_awdl \in BOOLEAN /\ wifi_direct_active \in BOOLEAN /\ armed \in [Workers -> BOOLEAN]
    BY Zenon DEF Init
  <2>4. /\ id \in [Workers -> 0 .. MaxId] /\ cur \in [Workers -> 0 .. MaxId]
        /\ calls \in [Workers -> 0 .. 3]
    BY DEF Init
  <2>5. /\ current \in 0 .. MaxId /\ next \in 0 .. MaxId /\ airdrop_pending \in 0 .. MaxId
        /\ reclaimed \subseteq 0 .. MaxId /\ abandoned \subseteq 0 .. MaxId
    BY DEF Init
  <2> QED BY <2>1, <2>2, <2>3, <2>4, <2>5, Zenon DEF TypeOK
<1>2. TypeOK /\ [Next]_vars => TypeOK'
  <2> SUFFICES ASSUME TypeOK, [Next]_vars PROVE TypeOK'
    OBVIOUS
  <2> USE DEF TypeOK
  <2>1. ASSUME NEW w \in Workers, TryBegin(w) PROVE TypeOK'
    <3>1. CASE TryBeginLoad(w)
      <4>1. pc' \in [Workers -> Labels]
        BY <3>1 DEF TryBeginLoad, Goto
      <4>2. PICK k \in Kinds : kind' = [kind EXCEPT ![w] = k]
        BY <3>1 DEF TryBeginLoad
      <4> QED BY <3>1, <4>1, <4>2 DEF TryBeginLoad, shared, history
    <3>2. CASE TryBeginJudge(w)
      <4>1. CASE is_stale
        <5>0. cur[w] \in 0 .. MaxId /\ reclaimed' = reclaimed \cup {cur[w]}
          BY <3>2, <4>1 DEF TryBeginJudge
        <5>1. reclaimed' \subseteq 0 .. MaxId
          BY <5>0, Zenon
        <5>3. pc' \in [Workers -> Labels]
          BY <3>2, <4>1 DEF TryBeginJudge, Goto
        <5>2. UNCHANGED <<shared, local, abandoned>>
          BY <3>2, <4>1 DEF TryBeginJudge
        <5> QED BY <5>1, <5>2, <5>3 DEF shared, local
      <4>2. CASE ~is_stale
        BY <3>2, <4>2, ReturnTyped DEF TryBeginJudge, ReturnTypes, shared
      <4> QED BY <4>1, <4>2
    <3>3. CASE TryBeginClaim(w)
      <4>1. CASE current = 0
        BY <3>3, <4>1 DEF TryBeginClaim, Goto
      <4>2. CASE current # 0
        BY <3>3, <4>2, ReturnTyped DEF TryBeginClaim, ReturnTypes
      <4> QED BY <4>1, <4>2
    <3>4. CASE TryBeginStoreNeeds(w)
      BY <3>4 DEF TryBeginStoreNeeds, RidesAwdl, Goto, local, history
    <3>5. CASE TryBeginStorePending(w)
      BY <3>5 DEF TryBeginStorePending, Goto, local, history
    <3>6. CASE TryBeginTouch(w)
      BY <3>6 DEF TryBeginTouch, Goto, local, history
    <3> QED BY <2>1, <3>1, <3>2, <3>3, <3>4, <3>5, <3>6 DEF TryBegin
  <2>2. ASSUME NEW w \in Workers, Progress(w) PROVE TypeOK'
    BY <2>2 DEF Progress, local, history
  <2>3. ASSUME NEW w \in Workers, ArmWifiDirect(w) PROVE TypeOK'
    <3>1. CASE ArmLoad(w)
      BY <3>1 DEF ArmLoad, Goto, shared, history
    <3>2. CASE ArmWait(w)
      BY <3>2 DEF ArmWait, Goto, shared, local, history
    <3>3. CASE ArmSwap(w)
      BY <3>3 DEF ArmSwap, Goto, history
    <3>4. CASE ArmRecheck(w)
      BY <3>4 DEF ArmRecheck, Goto, shared, history
    <3>5. CASE ArmYield(w)
      BY <3>5 DEF ArmYield, Goto, local, history
    <3> QED BY <2>3, <3>1, <3>2, <3>3, <3>4, <3>5 DEF ArmWifiDirect
  <2>4. ASSUME NEW w \in Workers, EndTransfer(w) PROVE TypeOK'
    <3>1. PICK n \in FinishCalls(kind[w]) : calls' = [calls EXCEPT ![w] = n]
      BY <2>4 DEF EndTransfer
    <3>2. n \in 0 .. 3
      BY <3>1 DEF FinishCalls
    <3> QED BY <2>4, <3>1, <3>2 DEF EndTransfer, Goto, shared, history
  <2>5. ASSUME NEW w \in Workers, Abandon(w) PROVE TypeOK'
    BY <2>5, ReturnTyped DEF Abandon, ReturnTypes, shared
  <2>6. ASSUME NEW w \in Workers, Finish(w) PROVE TypeOK'
    <3>1. CASE FinishCurrent(w)
      BY <3>1 DEF FinishCurrent, Goto, local, history
    <3>2. CASE FinishPending(w)
      BY <3>2 DEF FinishPending, Goto, local, history
    <3>3. CASE FinishWifi(w)
      BY <3>3 DEF FinishWifi, Goto, local, history
    <3>4. CASE FinishClock(w)
      <4>1. CASE id[w] = 0
        BY <3>4, <4>1 DEF FinishClock, Goto, local
      <4>2. CASE id[w] # 0 /\ calls[w] > 1
        BY <3>4, <4>2 DEF FinishClock, Goto
      <4>3. CASE id[w] # 0 /\ calls[w] =< 1
        BY <3>4, <4>3, ReturnTyped DEF FinishClock, ReturnTypes
      <4> QED BY <4>1, <4>2, <4>3
    <3> QED BY <2>6, <3>1, <3>2, <3>3, <3>4 DEF Finish
  <2>7. CASE Tick
    BY <2>7 DEF Tick, local, history
  <2>8. CASE UNCHANGED vars
    BY <2>8 DEF vars
  <2> QED BY <2>1, <2>2, <2>3, <2>4, <2>5, <2>6, <2>7, <2>8 DEF Next
<1> QED BY <1>1, <1>2, PTL DEF Spec

-----------------------------------------------------------------------------
(* The slot belongs to the transfer that claimed it *)

Finishing(w) == pc[w] \in {"fin_current", "fin_pending", "fin_wifi", "fin_clock"}

\* Ids are handed out in order and never twice at once.
IdsFresh ==
    /\ current =< next
    /\ \A w \in Workers : id[w] =< next
    /\ \A v, w \in Workers : id[v] # 0 /\ id[v] = id[w] => v = w

\* A thread has an id from its claim to its last finish(), and a thread that
\* finishes without one is finishing a transfer declared stale.
IdsPlaced ==
    \A w \in Workers :
        /\ pc[w] \in {"idle", "judge", "claim"} => id[w] = 0
        /\ Owning(w) => id[w] # 0
        /\ Finishing(w) /\ id[w] = 0 => cur[w] \in reclaimed

SlotInv == TypeOK /\ IdsFresh /\ IdsPlaced /\ SlotOwned

\* An idle slot and idle threads satisfy all of it.
LEMMA SlotInit == Init => IdsFresh /\ IdsPlaced /\ SlotOwned
  BY DEF Init, IdsFresh, IdsPlaced, SlotOwned, Owning, Claiming, Established, Finishing

\* Steps that change neither an id nor the slot, and move the thread within
\* one of the three phases: looking, owning, finishing.
LEMMA SamePhase ==
  ASSUME SlotInv, TypeOK', NEW w \in Workers, NEW l \in Labels,
         pc' = [pc EXCEPT ![w] = l],
         UNCHANGED <<current, next, id, cur>>,
         reclaimed \subseteq reclaimed',
         l \in {"idle", "judge", "claim"} => id[w] = 0,
         l \in {"store_needs", "store_pending", "touch", "running",
                "arm_wait", "arm_swap", "arm_recheck", "arm_yield"} => Owning(w),
         l \in {"fin_current", "fin_pending", "fin_wifi", "fin_clock"} /\ id[w] = 0
             => cur[w] \in reclaimed'
  PROVE  (IdsFresh /\ IdsPlaced /\ SlotOwned)'
<1> USE DEF SlotInv, TypeOK
<1>1. IdsFresh'
  BY DEF IdsFresh
<1>2. \A v \in Workers : v # w => pc'[v] = pc[v]
  OBVIOUS
<1>3. pc'[w] = l
  OBVIOUS
<1>4. IdsPlaced'
  BY <1>2, <1>3 DEF IdsPlaced, Owning, Claiming, Established, Finishing
<1>5. SlotOwned'
  BY <1>2, <1>3 DEF SlotOwned, Owning, Claiming, Established
<1> QED BY <1>1, <1>4, <1>5

\* A thread that returns to idle, holding no id of its own afterwards, takes
\* nothing from the others.
LEMMA ReturnKeeps ==
  ASSUME SlotInv, TypeOK', NEW w \in Workers, Return(w),
         UNCHANGED <<current, reclaimed>>, next =< next'
  PROVE  (IdsFresh /\ IdsPlaced /\ SlotOwned)'
<1> USE DEF SlotInv, TypeOK
<1>1. \A v \in Workers : v # w => pc'[v] = pc[v] /\ id'[v] = id[v] /\ cur'[v] = cur[v]
  BY DEF Return, Goto
<1>2. pc'[w] = "idle" /\ id'[w] = 0
  BY DEF Return, Goto
<1>3. IdsFresh'
  BY <1>1, <1>2 DEF IdsFresh
<1>4. IdsPlaced'
  BY <1>1, <1>2 DEF IdsPlaced, Owning, Claiming, Established, Finishing
<1>5. SlotOwned'
  BY <1>1, <1>2 DEF SlotOwned, Owning, Claiming, Established
<1> QED BY <1>3, <1>4, <1>5

\* The claim: the fresh id is nobody else's, and only a free slot is taken, so
\* no live transfer can have been in it.
LEMMA ClaimKeeps ==
  ASSUME SlotInv, TypeOK', NEW w \in Workers, TryBeginClaim(w)
  PROVE  (IdsFresh /\ IdsPlaced /\ SlotOwned)'
<1> USE DEF SlotInv, TypeOK
<1>1. CASE current = 0
  <2>1. \A v \in Workers : v # w => pc'[v] = pc[v] /\ id'[v] = id[v] /\ cur'[v] = cur[v]
    BY <1>1 DEF TryBeginClaim, Goto
  <2>2. /\ pc'[w] = "store_needs" /\ id'[w] = next + 1 /\ current' = next + 1
        /\ next' = next + 1 /\ reclaimed' = reclaimed
    BY <1>1 DEF TryBeginClaim, Goto
  <2>3. IdsFresh'
    BY <2>1, <2>2 DEF IdsFresh
  <2>4. IdsPlaced'
    BY <2>1, <2>2 DEF IdsPlaced, Owning, Claiming, Established, Finishing
  <2>5. \A v \in Workers : v # w /\ Owning(v) => id[v] \in reclaimed
    BY <1>1 DEF SlotOwned, IdsPlaced
  <2>6. SlotOwned'
    BY <2>1, <2>2, <2>5 DEF SlotOwned, Owning, Claiming, Established
  <2> QED BY <2>3, <2>4, <2>6
<1>2. CASE current # 0
  BY <1>2, ReturnKeeps DEF TryBeginClaim
<1> QED BY <1>1, <1>2

\* The compare_exchange of finish(): it empties the slot only of the id being
\* finished, which is the thread's own or one declared stale.
LEMMA FinishCurrentKeeps ==
  ASSUME SlotInv, TypeOK', NEW w \in Workers, FinishCurrent(w)
  PROVE  (IdsFresh /\ IdsPlaced /\ SlotOwned)'
<1> USE DEF SlotInv, TypeOK
<1>1. /\ pc' = [pc EXCEPT ![w] = "fin_pending"] /\ pc[w] = "fin_current"
      /\ next' = next /\ id' = id /\ cur' = cur /\ reclaimed' = reclaimed
      /\ current' = IF current = FinishId(w) THEN 0 ELSE current
  BY DEF FinishCurrent, Goto, local, history
<1>2. \A v \in Workers : v # w => pc'[v] = pc[v]
  BY <1>1
<1>3. pc'[w] = "fin_pending"
  BY <1>1
<1>4. IdsFresh'
  BY <1>1 DEF IdsFresh
<1>5. IdsPlaced'
  BY <1>1, <1>2, <1>3 DEF IdsPlaced, Owning, Claiming, Established, Finishing
<1>6. \A v \in Workers : v # w /\ Owning(v) /\ id[v] \notin reclaimed => id[v] # FinishId(w)
  <2> SUFFICES ASSUME NEW v \in Workers, v # w, Owning(v), id[v] \notin reclaimed
               PROVE  id[v] # FinishId(w)
    OBVIOUS
  <2>1. CASE id[w] = 0
    BY <1>1, <2>1 DEF FinishId, IdsPlaced, Finishing
  <2>2. CASE id[w] # 0
    BY <2>2 DEF FinishId, IdsFresh
  <2> QED BY <2>1, <2>2
<1>7. SlotOwned'
  BY <1>1, <1>2, <1>3, <1>6 DEF SlotOwned, Owning, Claiming, Established
<1> QED BY <1>4, <1>5, <1>7

\* Every step of every thread preserves the slot's invariant.
LEMMA SlotStep ==
  ASSUME SlotInv, TypeOK', [Next]_vars
  PROVE  (IdsFresh /\ IdsPlaced /\ SlotOwned)'
<1> USE DEF Goto, shared, local, history
<1>1. ASSUME NEW w \in Workers, TryBegin(w) PROVE (IdsFresh /\ IdsPlaced /\ SlotOwned)'
  <2>1. CASE TryBeginLoad(w)
    <3>1. pc[w] = "idle" /\ id[w] = 0 /\ UNCHANGED <<current, next, id, reclaimed>>
      BY <2>1 DEF TryBeginLoad, SlotInv, IdsPlaced
    <3>2. /\ \A v \in Workers : v # w => pc'[v] = pc[v] /\ cur'[v] = cur[v]
          /\ pc'[w] \in {"claim", "judge"}
      BY <2>1 DEF TryBeginLoad, SlotInv, TypeOK
    <3>3. IdsFresh'
      BY <3>1 DEF IdsFresh, SlotInv
    <3>4. IdsPlaced'
      BY <3>1, <3>2 DEF SlotInv, IdsPlaced, Owning, Claiming, Established, Finishing
    <3>5. SlotOwned'
      BY <3>1, <3>2 DEF SlotInv, SlotOwned, Owning, Claiming, Established
    <3> QED BY <3>3, <3>4, <3>5
  <2>2. CASE TryBeginJudge(w)
    <3>1. CASE is_stale
      <4>1. /\ pc' = [pc EXCEPT ![w] = "fin_current"] /\ UNCHANGED <<current, next, id, cur>>
            /\ reclaimed \subseteq reclaimed' /\ cur[w] \in reclaimed'
        BY <2>2, <3>1, Zenon DEF TryBeginJudge
      <4> QED BY <4>1, SamePhase DEF Owning, Claiming, Established
    <3>2. CASE ~is_stale
      BY <2>2, <3>2, ReturnKeeps DEF TryBeginJudge, SlotInv, TypeOK
    <3> QED BY <3>1, <3>2
  <2>3. CASE TryBeginClaim(w)
    BY <2>3, ClaimKeeps
  <2>4. CASE TryBeginStoreNeeds(w)
    <3>1. PICK l \in {"store_pending", "touch"} : pc' = [pc EXCEPT ![w] = l]
      BY <2>4 DEF TryBeginStoreNeeds
    <3>2. Owning(w) /\ UNCHANGED <<current, next, id, cur, reclaimed>>
      BY <2>4 DEF TryBeginStoreNeeds, Owning, Claiming
    <3> QED BY <3>1, <3>2, SamePhase
  <2>5. CASE TryBeginStorePending(w)
    <3>1. /\ Owning(w) /\ UNCHANGED <<current, next, id, cur, reclaimed>>
          /\ pc' = [pc EXCEPT ![w] = "touch"]
      BY <2>5 DEF TryBeginStorePending, Owning, Claiming
    <3> QED BY <3>1, SamePhase
  <2>6. CASE TryBeginTouch(w)
    <3>1. /\ Owning(w) /\ UNCHANGED <<current, next, id, cur, reclaimed>>
          /\ pc' = [pc EXCEPT ![w] = "running"]
      BY <2>6 DEF TryBeginTouch, Owning, Claiming
    <3> QED BY <3>1, SamePhase
  <2> QED BY <1>1, <2>1, <2>2, <2>3, <2>4, <2>5, <2>6 DEF TryBegin
<1>2. ASSUME NEW w \in Workers, Progress(w) PROVE (IdsFresh /\ IdsPlaced /\ SlotOwned)'
  BY <1>2 DEF Progress, SlotInv, IdsFresh, IdsPlaced, SlotOwned, Owning, Claiming, Established,
              Finishing
<1>3. ASSUME NEW w \in Workers, ArmWifiDirect(w) PROVE (IdsFresh /\ IdsPlaced /\ SlotOwned)'
  <2>1. Owning(w) /\ UNCHANGED <<current, next, id, cur, reclaimed>>
    BY <1>3 DEF ArmWifiDirect, ArmLoad, ArmWait, ArmSwap, ArmRecheck, ArmYield, Owning, Established
  <2>2. \/ pc' = pc
        \/ \E l \in {"running", "arm_wait", "arm_swap", "arm_recheck", "arm_yield"} :
              pc' = [pc EXCEPT ![w] = l]
    BY <1>3 DEF ArmWifiDirect, ArmLoad, ArmWait, ArmSwap, ArmRecheck, ArmYield
  <2>3. CASE pc' = pc
    BY <2>1, <2>3 DEF SlotInv, IdsFresh, IdsPlaced, SlotOwned, Owning, Claiming, Established,
                      Finishing
  <2>4. ASSUME NEW l \in {"running", "arm_wait", "arm_swap", "arm_recheck", "arm_yield"},
               pc' = [pc EXCEPT ![w] = l]
        PROVE  (IdsFresh /\ IdsPlaced /\ SlotOwned)'
    BY <2>1, <2>4, SamePhase
  <2> QED BY <2>2, <2>3, <2>4
<1>4. ASSUME NEW w \in Workers, EndTransfer(w) PROVE (IdsFresh /\ IdsPlaced /\ SlotOwned)'
  <2>1. /\ Owning(w) /\ UNCHANGED <<current, next, id, cur, reclaimed>>
        /\ pc' = [pc EXCEPT ![w] = "fin_current"]
    BY <1>4 DEF EndTransfer, Owning, Established
  <2>2. id[w] # 0
    BY <2>1 DEF SlotInv, IdsPlaced
  <2> QED BY <2>1, <2>2, SamePhase
<1>5. ASSUME NEW w \in Workers, Abandon(w) PROVE (IdsFresh /\ IdsPlaced /\ SlotOwned)'
  BY <1>5, ReturnKeeps DEF Abandon, SlotInv, TypeOK
<1>6. ASSUME NEW w \in Workers, Finish(w) PROVE (IdsFresh /\ IdsPlaced /\ SlotOwned)'
  <2>1. CASE FinishCurrent(w)
    BY <2>1, FinishCurrentKeeps
  <2>2. CASE FinishPending(w) \/ FinishWifi(w)
    <3>1. PICK l \in {"fin_wifi", "fin_clock"} : pc' = [pc EXCEPT ![w] = l]
      BY <2>2 DEF FinishPending, FinishWifi
    <3>2. /\ UNCHANGED <<current, next, id, cur, reclaimed>>
          /\ id[w] = 0 => cur[w] \in reclaimed
      BY <2>2 DEF FinishPending, FinishWifi, SlotInv, IdsPlaced, Finishing
    <3> QED BY <3>1, <3>2, SamePhase
  <2>3. CASE FinishClock(w)
    <3>1. CASE id[w] = 0
      <4>1. /\ pc' = [pc EXCEPT ![w] = "claim"]
            /\ UNCHANGED <<current, next, id, cur, reclaimed>>
        BY <2>3, <3>1 DEF FinishClock
      <4> QED BY <3>1, <4>1, SamePhase
    <3>2. CASE id[w] # 0 /\ calls[w] > 1
      <4>1. /\ pc' = [pc EXCEPT ![w] = "fin_current"]
            /\ UNCHANGED <<current, next, id, cur, reclaimed>>
        BY <2>3, <3>2 DEF FinishClock, SlotInv, TypeOK
      <4> QED BY <3>2, <4>1, SamePhase
    <3>3. CASE id[w] # 0 /\ calls[w] =< 1
      BY <2>3, <3>3, ReturnKeeps DEF FinishClock, SlotInv, TypeOK
    <3> QED BY <3>1, <3>2, <3>3 DEF SlotInv, TypeOK
  <2> QED BY <1>6, <2>1, <2>2, <2>3 DEF Finish
<1>7. CASE Tick
  BY <1>7 DEF Tick, SlotInv, IdsFresh, IdsPlaced, SlotOwned, Owning, Claiming, Established,
              Finishing
<1>8. CASE UNCHANGED vars
  BY <1>8 DEF vars, SlotInv, IdsFresh, IdsPlaced, SlotOwned, Owning, Claiming, Established,
              Finishing
<1> QED BY <1>1, <1>2, <1>3, <1>4, <1>5, <1>6, <1>7, <1>8 DEF Next

\* One transfer at a time: a transfer that was not reclaimed owns the slot from
\* its claim in try_begin to its first finish(), for any number of threads,
\* double finishes and reclaims.
THEOREM SlotExclusive == Spec => []SlotOwned
<1>1. Init => IdsFresh /\ IdsPlaced /\ SlotOwned
  BY SlotInit
<1>2. TypeOK /\ TypeOK' /\ IdsFresh /\ IdsPlaced /\ SlotOwned /\ [Next]_vars
        => (IdsFresh /\ IdsPlaced /\ SlotOwned)'
  BY SlotStep DEF SlotInv
<1> QED BY <1>1, <1>2, TypeCorrect, PTL DEF Spec

-----------------------------------------------------------------------------
(* Whatever the slot holds, some thread will release *)

StepOf(w) ==
    TryBegin(w) \/ Progress(w) \/ ArmWifiDirect(w) \/ EndTransfer(w) \/ Abandon(w) \/ Finish(w)

\* Only a transfer that may ask for a Wi-Fi Direct group is inside
\* arm_wifi_direct.
ArmKinds ==
    \A w \in Workers :
        pc[w] \in {"arm_wait", "arm_swap", "arm_recheck", "arm_yield"} => MayArm(kind[w])

\* A step of one thread leaves the pc and the locals of the others alone.
LEMMA OthersUntouched ==
  ASSUME TypeOK, NEW w \in Workers, StepOf(w), NEW v \in Workers, v # w
  PROVE  pc'[v] = pc[v] /\ kind'[v] = kind[v] /\ id'[v] = id[v] /\ calls'[v] = calls[v]
<1> USE DEF TypeOK, Goto, local
<1>1. CASE TryBegin(w)
  <2>1. CASE TryBeginLoad(w)
    BY <2>1 DEF TryBeginLoad
  <2>2. CASE TryBeginJudge(w)
    BY <2>2 DEF TryBeginJudge, Return
  <2>3. CASE TryBeginClaim(w)
    BY <2>3 DEF TryBeginClaim, Return
  <2> QED BY <1>1, <2>1, <2>2, <2>3
          DEF TryBegin, TryBeginStoreNeeds, TryBeginStorePending, TryBeginTouch
<1>2. CASE Progress(w)
  BY <1>2 DEF Progress
<1>3. CASE ArmWifiDirect(w)
  BY <1>3 DEF ArmWifiDirect, ArmLoad, ArmWait, ArmSwap, ArmRecheck, ArmYield
<1>4. CASE EndTransfer(w)
  BY <1>4 DEF EndTransfer
<1>5. CASE Abandon(w)
  BY <1>5 DEF Abandon, Return
<1>6. CASE FinishCurrent(w) \/ FinishPending(w) \/ FinishWifi(w)
  BY <1>6 DEF FinishCurrent, FinishPending, FinishWifi
<1>7. CASE FinishClock(w)
  BY <1>7 DEF FinishClock, Return
<1> QED BY <1>1, <1>2, <1>3, <1>4, <1>5, <1>6, <1>7 DEF StepOf, Finish

\* Only the threads that may ask for a group enter arm_wifi_direct, and no
\* thread changes its kind inside it.
LEMMA ArmKindsStep ==
  ASSUME TypeOK, ArmKinds, [Next]_vars
  PROVE  ArmKinds'
<1> USE DEF TypeOK, ArmKinds
<1>1. ASSUME NEW w \in Workers, StepOf(w) PROVE ArmKinds'
  <2>1. pc'[w] \in {"arm_wait", "arm_swap", "arm_recheck", "arm_yield"} => MayArm(kind'[w])
    <3> USE DEF Goto, local
    <3>1. CASE TryBegin(w)
      <4>1. CASE TryBeginJudge(w)
        BY <4>1 DEF TryBeginJudge, Return
      <4>2. CASE TryBeginClaim(w)
        BY <4>2 DEF TryBeginClaim, Return
      <4> QED BY <3>1, <4>1, <4>2
              DEF TryBegin, TryBeginLoad, TryBeginStoreNeeds, TryBeginStorePending, TryBeginTouch
    <3>2. CASE Progress(w)
      BY <3>2 DEF Progress
    <3>3. CASE ArmWifiDirect(w)
      BY <3>3 DEF ArmWifiDirect, ArmLoad, ArmWait, ArmSwap, ArmRecheck, ArmYield
    <3>4. CASE EndTransfer(w) \/ Abandon(w)
      BY <3>4 DEF EndTransfer, Abandon, Return
    <3>5. CASE Finish(w)
      <4>1. CASE FinishClock(w)
        BY <4>1 DEF FinishClock, Return
      <4> QED BY <3>5, <4>1 DEF Finish, FinishCurrent, FinishPending, FinishWifi
    <3> QED BY <1>1, <3>1, <3>2, <3>3, <3>4, <3>5 DEF StepOf
  <2>2. \A v \in Workers : v # w => pc'[v] = pc[v] /\ kind'[v] = kind[v]
    BY <1>1, OthersUntouched
  <2> QED BY <2>1, <2>2
<1>2. CASE Tick \/ UNCHANGED vars
  BY <1>2 DEF Tick, vars, local
<1> QED BY <1>1, <1>2 DEF Next, StepOf

FinCurrent == {"fin_current"}
FinPending == {"fin_current", "fin_pending"}
FinWifi == {"fin_current", "fin_pending", "fin_wifi"}

\* A thread that is going to run a step of finish() still is after any step,
\* unless that step was the one, or it abandoned its accepted offer.
LEMMA ReleaserStays ==
  ASSUME SlotInv, NEW w \in Workers, StepOf(w), NEW v \in Workers,
         NEW steps \in {FinCurrent, FinPending, FinWifi}, WillFinish(v, steps)
  PROVE  \/ WillFinish(v, steps)' /\ id'[v] = id[v] /\ kind'[v] = kind[v]
         \/ v = w /\ Abandon(w)
         \/ v = w /\ steps = FinCurrent /\ FinishCurrent(w)
         \/ v = w /\ steps = FinPending /\ FinishPending(w)
         \/ v = w /\ steps = FinWifi /\ FinishWifi(w)
<1> USE DEF SlotInv, TypeOK, WillFinish, Owning, Claiming, Established, FinCurrent, FinPending,
            FinWifi
<1>1. CASE v # w
  BY <1>1, OthersUntouched
<1>2. CASE v = w
  <2> USE <1>2 DEF Goto, local
  <2>0. id[w] # 0 /\ pc[w] \notin {"idle", "judge", "claim"}
    BY DEF IdsPlaced
  <2>1. CASE TryBegin(w)
    BY <2>0, <2>1 DEF TryBegin, TryBeginLoad, TryBeginJudge, TryBeginClaim, TryBeginStoreNeeds,
                      TryBeginStorePending, TryBeginTouch
  <2>2. CASE Progress(w)
    BY <2>2 DEF Progress
  <2>3. CASE ArmWifiDirect(w)
    <3>1. pc'[w] \in {"running", "arm_wait", "arm_swap", "arm_recheck", "arm_yield"}
      BY <2>3 DEF ArmWifiDirect, ArmLoad, ArmWait, ArmSwap, ArmRecheck, ArmYield
    <3>2. id' = id /\ kind' = kind
      BY <2>3 DEF ArmWifiDirect, ArmLoad, ArmWait, ArmSwap, ArmRecheck, ArmYield
    <3> QED BY <2>0, <3>1, <3>2
  <2>4. CASE EndTransfer(w)
    BY <2>0, <2>4 DEF EndTransfer
  <2>5. CASE FinishCurrent(w)
    BY <2>0, <2>5 DEF FinishCurrent
  <2>6. CASE FinishPending(w)
    BY <2>0, <2>6 DEF FinishPending
  <2>7. CASE FinishWifi(w)
    BY <2>0, <2>7 DEF FinishWifi
  <2>8. CASE FinishClock(w)
    <3>1. pc[w] = "fin_clock" /\ calls[w] > 1
      BY <2>8 DEF FinishClock
    <3> QED BY <2>0, <2>8, <3>1 DEF FinishClock
  <2> QED BY <2>1, <2>2, <2>3, <2>4, <2>5, <2>6, <2>7, <2>8 DEF StepOf, Finish
<1> QED BY <1>1, <1>2

SlotReleased ==
    current # 0 =>
        \/ current \in abandoned
        \/ \E w \in Workers : id[w] = current /\ WillFinish(w, FinCurrent)

PendingReleased ==
    airdrop_pending # 0 =>
        \/ airdrop_pending \in abandoned
        \/ \E w \in Workers : id[w] = airdrop_pending /\ WillFinish(w, FinPending)

WifiReleased ==
    wifi_direct_active => \E w \in Workers : MayArm(kind[w]) /\ WillFinish(w, FinWifi)

\* The three named parts are the invariant.
LEMMA ReleasersAreParts == HoldsHaveReleasers <=> SlotReleased /\ PendingReleased /\ WifiReleased
  BY DEF HoldsHaveReleasers, SlotReleased, PendingReleased, WifiReleased, FinCurrent, FinPending,
         FinWifi

\* What one step does to the slot, to AirDrop's claim and to the hold: they are
\* taken by a thread that owns its transfer and given back in finish().
LEMMA HoldsMove ==
  ASSUME SlotInv, ArmKinds, NEW w \in Workers, StepOf(w)
  PROVE  /\ \/ current' = current
            \/ current' = 0
            \/ current' = id'[w] /\ id'[w] # 0 /\ pc'[w] = "store_needs"
         /\ \/ airdrop_pending' = airdrop_pending
            \/ airdrop_pending' = 0
            \/ airdrop_pending' = id'[w] /\ id'[w] # 0 /\ pc'[w] = "touch"
         /\ \/ wifi_direct_active' = wifi_direct_active
            \/ wifi_direct_active' = FALSE
            \/ MayArm(kind'[w]) /\ id'[w] # 0 /\ Established(w)'
         /\ abandoned \subseteq abandoned'
         /\ FinishCurrent(w) => current' # id[w] \/ id[w] = 0
         /\ FinishPending(w) => airdrop_pending' # id[w] \/ id[w] = 0
         /\ FinishWifi(w) => wifi_direct_active' = FALSE
         /\ Abandon(w) => ~MayArm(kind[w]) /\ id[w] \in abandoned'
<1> USE DEF SlotInv, TypeOK, Goto, shared, local, history
<1>1. CASE TryBegin(w)
  <2>1. CASE TryBeginClaim(w)
    BY <2>1 DEF TryBeginClaim, Return, FinishCurrent, FinishPending, FinishWifi, Abandon
  <2>2. CASE TryBeginStorePending(w)
    <3>1. id[w] # 0
      BY <2>2 DEF TryBeginStorePending, IdsPlaced, Owning, Claiming
    <3> QED BY <2>2, <3>1
            DEF TryBeginStorePending, FinishCurrent, FinishPending, FinishWifi, Abandon
  <2> QED BY <1>1, <2>1, <2>2
          DEF TryBegin, TryBeginLoad, TryBeginJudge, TryBeginStoreNeeds, TryBeginTouch,
              FinishCurrent, FinishPending, FinishWifi, Abandon
<1>2. CASE Progress(w) \/ EndTransfer(w)
  BY <1>2 DEF Progress, EndTransfer, FinishCurrent, FinishPending, FinishWifi, Abandon, Return
<1>3. CASE ArmWifiDirect(w)
  <2>1. CASE ArmSwap(w)
    <3>1. id[w] # 0 /\ MayArm(kind[w])
      BY <2>1 DEF ArmSwap, IdsPlaced, Owning, Established, ArmKinds
    <3>2. pc'[w] \in {"running", "arm_recheck"}
      BY <2>1 DEF ArmSwap
    <3> QED BY <2>1, <3>1, <3>2
            DEF ArmSwap, FinishCurrent, FinishPending, FinishWifi, Abandon, Established
  <2>2. CASE ArmLoad(w) \/ ArmWait(w) \/ ArmRecheck(w) \/ ArmYield(w)
    <3>1. /\ UNCHANGED <<current, airdrop_pending, abandoned>>
          /\ wifi_direct_active' = wifi_direct_active \/ wifi_direct_active' = FALSE
      BY <2>2 DEF ArmLoad, ArmWait, ArmRecheck, ArmYield
    <3>2. pc[w] \in {"running", "arm_wait", "arm_recheck", "arm_yield"} /\ kind' = kind
      BY <2>2 DEF ArmLoad, ArmWait, ArmRecheck, ArmYield
    <3>3. Abandon(w) => FALSE
      <4>1. ASSUME Abandon(w) PROVE kind[w] = "airdrop_recv" /\ kind'[w] = "none"
        BY <4>1 DEF Abandon, Return
      <4> QED BY <4>1, <3>2
    <3> QED BY <3>1, <3>2, <3>3 DEF FinishCurrent, FinishPending, FinishWifi
  <2> QED BY <1>3, <2>1, <2>2 DEF ArmWifiDirect
<1>4. CASE Abandon(w)
  BY <1>4 DEF Abandon, MayArm, FinishCurrent, FinishPending, FinishWifi
<1>5. CASE Finish(w)
  <2>1. CASE FinishCurrent(w)
    BY <2>1 DEF FinishCurrent, FinishId, FinishPending, FinishWifi, Abandon
  <2>2. CASE FinishPending(w)
    BY <2>2 DEF FinishCurrent, FinishId, FinishPending, FinishWifi, Abandon
  <2>3. CASE FinishWifi(w)
    BY <2>3 DEF FinishCurrent, FinishPending, FinishWifi, Abandon
  <2>4. CASE FinishClock(w)
    BY <2>4 DEF FinishCurrent, FinishPending, FinishWifi, FinishClock, Abandon
  <2> QED BY <1>5, <2>1, <2>2, <2>3, <2>4 DEF Finish
<1> QED BY <1>1, <1>2, <1>3, <1>4, <1>5 DEF StepOf

\* Every step keeps a releaser for each of the three holds.
LEMMA ReleasersStep ==
  ASSUME SlotInv, ArmKinds, HoldsHaveReleasers, [Next]_vars
  PROVE  HoldsHaveReleasers'
<1>0. SlotReleased /\ PendingReleased /\ WifiReleased
  BY ReleasersAreParts
<1>1. ASSUME NEW w \in Workers, StepOf(w) PROVE HoldsHaveReleasers'
  <2>0. abandoned \subseteq abandoned'
    BY <1>1, HoldsMove
  <2>1. SlotReleased'
    <3> SUFFICES ASSUME current' # 0, current' \notin abandoned'
                 PROVE  \E v \in Workers : id'[v] = current' /\ WillFinish(v, FinCurrent)'
      BY DEF SlotReleased
    <3>1. CASE current' = current
      <4>1. PICK v \in Workers : id[v] = current /\ WillFinish(v, FinCurrent)
        BY <1>0, <2>0, <3>1 DEF SlotReleased
      <4>2. ~(v = w /\ Abandon(w)) /\ ~(v = w /\ FinishCurrent(w))
        BY <1>1, <3>1, <4>1, HoldsMove
      <4>3. WillFinish(v, FinCurrent)' /\ id'[v] = id[v]
        BY <1>1, <4>1, <4>2, ReleaserStays DEF FinCurrent, FinPending, FinWifi
      <4> QED BY <3>1, <4>1, <4>3
    <3>2. CASE current' = id'[w] /\ id'[w] # 0 /\ pc'[w] = "store_needs"
      BY <3>2 DEF WillFinish, Owning, Claiming
    <3> QED BY <1>1, <3>1, <3>2, HoldsMove
  <2>2. PendingReleased'
    <3> SUFFICES ASSUME airdrop_pending' # 0, airdrop_pending' \notin abandoned'
                 PROVE  \E v \in Workers : id'[v] = airdrop_pending' /\ WillFinish(v, FinPending)'
      BY DEF PendingReleased
    <3>1. CASE airdrop_pending' = airdrop_pending
      <4>1. PICK v \in Workers : id[v] = airdrop_pending /\ WillFinish(v, FinPending)
        BY <1>0, <2>0, <3>1 DEF PendingReleased
      <4>2. ~(v = w /\ Abandon(w)) /\ ~(v = w /\ FinishPending(w))
        BY <1>1, <3>1, <4>1, HoldsMove
      <4>3. WillFinish(v, FinPending)' /\ id'[v] = id[v]
        BY <1>1, <4>1, <4>2, ReleaserStays DEF FinCurrent, FinPending, FinWifi
      <4> QED BY <3>1, <4>1, <4>3
    <3>2. CASE airdrop_pending' = id'[w] /\ id'[w] # 0 /\ pc'[w] = "touch"
      BY <3>2 DEF WillFinish, Owning, Claiming
    <3> QED BY <1>1, <3>1, <3>2, HoldsMove
  <2>3. WifiReleased'
    <3> SUFFICES ASSUME wifi_direct_active'
                 PROVE  \E v \in Workers : MayArm(kind'[v]) /\ WillFinish(v, FinWifi)'
      BY DEF WifiReleased
    <3>1. CASE wifi_direct_active
      <4>1. PICK v \in Workers : MayArm(kind[v]) /\ WillFinish(v, FinWifi)
        BY <1>0, <3>1 DEF WifiReleased
      <4>2. ~(v = w /\ Abandon(w)) /\ ~(v = w /\ FinishWifi(w))
        BY <1>1, <3>1, <4>1, HoldsMove
      <4>3. WillFinish(v, FinWifi)' /\ kind'[v] = kind[v]
        BY <1>1, <4>1, <4>2, ReleaserStays DEF FinCurrent, FinPending, FinWifi
      <4> QED BY <4>1, <4>3
    <3>2. CASE MayArm(kind'[w]) /\ id'[w] # 0 /\ Established(w)'
      BY <3>2 DEF WillFinish, Owning
    <3> QED BY <1>1, <3>1, <3>2, HoldsMove
  <2> QED BY <2>1, <2>2, <2>3 DEF HoldsHaveReleasers, SlotReleased, PendingReleased, WifiReleased,
                                  FinCurrent, FinPending, FinWifi
<1>2. CASE Tick \/ UNCHANGED vars
  <2>1. UNCHANGED <<current, airdrop_pending, wifi_direct_active, pc, kind, id, calls, abandoned>>
    BY <1>2 DEF Tick, vars, local, history
  <2> QED BY <2>1, Zenon DEF HoldsHaveReleasers, WillFinish, Owning, Claiming, Established
<1>3. (\E w \in Workers : StepOf(w)) \/ Tick \/ UNCHANGED vars
  BY DEF Next, StepOf
<1> QED BY <1>1, <1>2, <1>3

\* An idle slot holds nothing.
LEMMA ReleasersInit == Init => ArmKinds /\ HoldsHaveReleasers
  BY DEF Init, ArmKinds, HoldsHaveReleasers

\* The slot, AirDrop's claim on the radio and the Wi-Fi Direct hold never leak:
\* for each there is a thread that will still run the step of finish() that
\* releases it, or an accepted offer nobody uploaded, for any number of threads.
THEOREM HoldsReleased == Spec => []HoldsHaveReleasers
<1>1. Init => IdsFresh /\ IdsPlaced /\ SlotOwned /\ ArmKinds /\ HoldsHaveReleasers
  BY SlotInit, ReleasersInit
<1>2. TypeOK /\ TypeOK' /\ IdsFresh /\ IdsPlaced /\ SlotOwned /\ ArmKinds /\ HoldsHaveReleasers
      /\ [Next]_vars
        => (IdsFresh /\ IdsPlaced /\ SlotOwned /\ ArmKinds /\ HoldsHaveReleasers)'
  BY SlotStep, ArmKindsStep, ReleasersStep DEF SlotInv
<1> QED BY <1>1, <1>2, TypeCorrect, PTL DEF Spec

-----------------------------------------------------------------------------
(* AirDrop keeps the radio *)

\* From the store of airdrop_pending on, a live AirDrop transfer's claim on the
\* radio is its own.
AirDropClaimed ==
    reclaimed = {} =>
        \A w \in Workers :
            (pc[w] = "touch" \/ Established(w)) /\ RidesAwdl(kind[w]) => airdrop_pending = id[w]

\* A Wi-Fi Direct hold belongs to a Quick Share thread that still has the slot,
\* or is between giving the slot back and dropping the hold.
HoldHasOwner ==
    reclaimed = {} /\ wifi_direct_active =>
        \E v \in Workers :
            /\ MayArm(kind[v])
            /\ id[v] # 0
            /\ \/ current = id[v] /\ (Owning(v) \/ pc[v] = "fin_current")
               \/ pc[v] \in {"fin_pending", "fin_wifi"}

RadioInv == ArmKinds /\ AirDropClaimed /\ HoldHasOwner

\* Ids once declared stale stay so.
LEMMA ReclaimedGrows == ASSUME [Next]_vars PROVE reclaimed \subseteq reclaimed'
<1> USE DEF local, history
<1>1. ASSUME NEW w \in Workers, StepOf(w) PROVE reclaimed \subseteq reclaimed'
  <2>1. CASE TryBegin(w)
    BY <2>1 DEF TryBegin, TryBeginLoad, TryBeginJudge, TryBeginClaim, TryBeginStoreNeeds,
                TryBeginStorePending, TryBeginTouch
  <2>2. CASE Progress(w) \/ EndTransfer(w) \/ Abandon(w)
    BY <2>2 DEF Progress, EndTransfer, Abandon
  <2>3. CASE ArmWifiDirect(w)
    BY <2>3 DEF ArmWifiDirect, ArmLoad, ArmWait, ArmSwap, ArmRecheck, ArmYield
  <2>4. CASE Finish(w)
    BY <2>4 DEF Finish, FinishCurrent, FinishPending, FinishWifi, FinishClock
  <2> QED BY <1>1, <2>1, <2>2, <2>3, <2>4 DEF StepOf
<1>2. CASE Tick \/ UNCHANGED vars
  BY <1>2 DEF Tick, vars
<1> QED BY <1>1, <1>2 DEF Next, StepOf

\* While nothing has been reclaimed, one thread at a time owns a transfer, and a
\* thread inside finish() is finishing its own.
LEMMA OneOwner ==
  ASSUME SlotInv, reclaimed = {}
  PROVE  /\ \A v, w \in Workers : Owning(v) /\ Owning(w) => v = w
         /\ \A w \in Workers : Owning(w) => current = id[w] /\ id[w] # 0
         /\ \A w \in Workers : Finishing(w) => id[w] # 0 /\ FinishId(w) = id[w]
<1> USE DEF SlotInv, TypeOK
<1>1. \A w \in Workers : Owning(w) => current = id[w] /\ id[w] # 0
  BY DEF SlotOwned, IdsPlaced
<1>2. \A v, w \in Workers : Owning(v) /\ Owning(w) => v = w
  BY <1>1 DEF IdsFresh
<1>3. \A w \in Workers : Finishing(w) => id[w] # 0
  BY DEF IdsPlaced
<1> QED BY <1>1, <1>2, <1>3 DEF FinishId

\* No step takes AirDrop's claim on the radio from a live transfer.
LEMMA AirDropClaimedStep ==
  ASSUME SlotInv, AirDropClaimed, ArmKinds, [Next]_vars
  PROVE  AirDropClaimed'
<1> SUFFICES ASSUME reclaimed = {},
                    NEW v \in Workers, (pc[v] = "touch" \/ Established(v))', RidesAwdl(kind'[v])
             PROVE  airdrop_pending' = id'[v]
  BY ReclaimedGrows DEF AirDropClaimed
<1> USE DEF SlotInv, TypeOK
<1>1. ASSUME NEW w \in Workers, StepOf(w), v # w PROVE airdrop_pending' = id'[v]
  <2>1. pc'[v] = pc[v] /\ kind'[v] = kind[v] /\ id'[v] = id[v]
    BY <1>1, OthersUntouched
  <2>2. Owning(v) /\ airdrop_pending = id[v]
    BY <2>1 DEF AirDropClaimed, Owning, Claiming, Established
  <2>3. ~TryBeginStorePending(w)
    BY <1>1, <2>2, OneOwner DEF TryBeginStorePending, Owning, Claiming
  <2>4. CASE FinishPending(w)
    <3>1. FinishId(w) = id[w] /\ id[w] # id[v]
      BY <1>1, <2>2, <2>4, OneOwner DEF FinishPending, Finishing, IdsFresh
    <3> QED BY <2>1, <2>2, <2>4, <3>1 DEF FinishPending
  <2>5. CASE ~FinishPending(w)
    <3>1. airdrop_pending' = airdrop_pending
      <4> USE DEF shared
      <4>1. CASE TryBegin(w)
        BY <2>3, <4>1 DEF TryBegin, TryBeginLoad, TryBeginJudge, TryBeginClaim,
                          TryBeginStoreNeeds, TryBeginTouch
      <4>2. CASE Progress(w) \/ EndTransfer(w) \/ Abandon(w)
        BY <4>2 DEF Progress, EndTransfer, Abandon
      <4>3. CASE ArmWifiDirect(w)
        BY <4>3 DEF ArmWifiDirect, ArmLoad, ArmWait, ArmSwap, ArmRecheck, ArmYield
      <4>4. CASE Finish(w)
        BY <2>5, <4>4 DEF Finish, FinishCurrent, FinishWifi, FinishClock
      <4> QED BY <1>1, <4>1, <4>2, <4>3, <4>4 DEF StepOf
    <3> QED BY <2>1, <2>2, <3>1
  <2> QED BY <2>4, <2>5
<1>2. ASSUME StepOf(v) PROVE airdrop_pending' = id'[v]
  <2> USE DEF Goto, local, shared, Established
  <2>1. CASE TryBegin(v)
    <3>1. CASE TryBeginLoad(v)
      BY <3>1 DEF TryBeginLoad
    <3>2. CASE TryBeginJudge(v)
      BY <3>2 DEF TryBeginJudge, Return
    <3>3. CASE TryBeginClaim(v)
      BY <3>3 DEF TryBeginClaim, Return
    <3>4. CASE TryBeginStoreNeeds(v)
      BY <3>4 DEF TryBeginStoreNeeds
    <3>5. CASE TryBeginStorePending(v)
      BY <3>5 DEF TryBeginStorePending
    <3>6. CASE TryBeginTouch(v)
      BY <3>6 DEF TryBeginTouch, AirDropClaimed
    <3> QED BY <2>1, <3>1, <3>2, <3>3, <3>4, <3>5, <3>6 DEF TryBegin
  <2>2. CASE Progress(v)
    BY <2>2 DEF Progress, AirDropClaimed
  <2>3. CASE ArmWifiDirect(v)
    <3>1. kind' = kind /\ MayArm(kind[v])
      BY <2>3 DEF ArmWifiDirect, ArmLoad, ArmWait, ArmSwap, ArmRecheck, ArmYield, ArmKinds
    <3> QED BY <3>1 DEF MayArm, RidesAwdl
  <2>4. CASE EndTransfer(v)
    BY <2>4 DEF EndTransfer
  <2>5. CASE Abandon(v)
    BY <2>5 DEF Abandon, Return
  <2>6. CASE Finish(v)
    <3>1. CASE FinishClock(v)
      BY <3>1 DEF FinishClock, Return
    <3> QED BY <2>6, <3>1 DEF Finish, FinishCurrent, FinishPending, FinishWifi
  <2> QED BY <1>2, <2>1, <2>2, <2>3, <2>4, <2>5, <2>6 DEF StepOf
<1>3. CASE Tick \/ UNCHANGED vars
  <2>1. UNCHANGED <<airdrop_pending, pc, kind, id>>
    BY <1>3 DEF Tick, vars, local
  <2> QED BY <2>1 DEF AirDropClaimed, Established
<1> QED BY <1>1, <1>2, <1>3 DEF Next, StepOf

\* The owner of a hold keeps the slot until its finish(), and drops the hold
\* before it leaves finish().
LEMMA HoldHasOwnerStep ==
  ASSUME SlotInv, HoldHasOwner, ArmKinds, [Next]_vars
  PROVE  HoldHasOwner'
<1> SUFFICES ASSUME reclaimed = {}, wifi_direct_active'
             PROVE  \E v \in Workers :
                        /\ MayArm(kind[v])'
                        /\ id'[v] # 0
                        /\ \/ current' = id'[v] /\ (Owning(v)' \/ pc'[v] = "fin_current")
                           \/ pc'[v] \in {"fin_pending", "fin_wifi"}
  BY ReclaimedGrows DEF HoldHasOwner
<1> USE DEF SlotInv, TypeOK
<1>1. ASSUME NEW w \in Workers, StepOf(w), wifi_direct_active
      PROVE  \E v \in Workers :
                        /\ MayArm(kind[v])'
                        /\ id'[v] # 0
                        /\ \/ current' = id'[v] /\ (Owning(v)' \/ pc'[v] = "fin_current")
                           \/ pc'[v] \in {"fin_pending", "fin_wifi"}
  <2>1. PICK v \in Workers :
            /\ MayArm(kind[v])
            /\ id[v] # 0
            /\ \/ current = id[v] /\ (Owning(v) \/ pc[v] = "fin_current")
               \/ pc[v] \in {"fin_pending", "fin_wifi"}
    BY <1>1 DEF HoldHasOwner
  <2>2. CASE v # w
    <3>1. pc'[v] = pc[v] /\ kind'[v] = kind[v] /\ id'[v] = id[v]
      BY <1>1, <2>2, OthersUntouched
    <3>2. current = id[v] => current' = current
      <4> SUFFICES ASSUME current = id[v] PROVE current' = current
        OBVIOUS
      <4>1. CASE FinishCurrent(w)
        <5>1. FinishId(w) = id[w] /\ id[w] # id[v]
          BY <2>1, <2>2, <4>1, OneOwner DEF FinishCurrent, Finishing, IdsFresh
        <5> QED BY <4>1, <5>1 DEF FinishCurrent
      <4>2. CASE ~FinishCurrent(w)
        <5> USE DEF shared
        <5>1. CASE TryBegin(w)
          BY <2>1, <5>1 DEF TryBegin, TryBeginLoad, TryBeginJudge, TryBeginClaim,
                            TryBeginStoreNeeds, TryBeginStorePending, TryBeginTouch
        <5>2. CASE Progress(w) \/ EndTransfer(w) \/ Abandon(w)
          BY <5>2 DEF Progress, EndTransfer, Abandon
        <5>3. CASE ArmWifiDirect(w)
          BY <5>3 DEF ArmWifiDirect, ArmLoad, ArmWait, ArmSwap, ArmRecheck, ArmYield
        <5>4. CASE Finish(w)
          BY <4>2, <5>4 DEF Finish, FinishPending, FinishWifi, FinishClock
        <5> QED BY <1>1, <5>1, <5>2, <5>3, <5>4 DEF StepOf
      <4> QED BY <4>1, <4>2
    <3> QED BY <2>1, <3>1, <3>2 DEF Owning, Claiming, Established
  <2>3. CASE v = w
    <3> SUFFICES /\ MayArm(kind'[w]) /\ id'[w] # 0
                 /\ \/ current' = id'[w] /\ (Owning(w)' \/ pc'[w] = "fin_current")
                    \/ pc'[w] \in {"fin_pending", "fin_wifi"}
      OBVIOUS
    <3> USE DEF Goto, local, shared, Owning, Claiming, Established
    <3>0. pc[w] \notin {"idle", "judge", "claim"}
      BY <2>1, <2>3 DEF IdsPlaced
    <3>1. CASE TryBegin(w)
      BY <2>1, <2>3, <3>0, <3>1
         DEF TryBegin, TryBeginLoad, TryBeginJudge, TryBeginClaim, TryBeginStoreNeeds,
             TryBeginStorePending, TryBeginTouch
    <3>2. CASE Progress(w)
      BY <2>1, <2>3, <3>2 DEF Progress
    <3>3. CASE ArmWifiDirect(w)
      <4>1. pc'[w] \in {"running", "arm_wait", "arm_swap", "arm_recheck", "arm_yield"}
        BY <3>3 DEF ArmWifiDirect, ArmLoad, ArmWait, ArmSwap, ArmRecheck, ArmYield
      <4>2. /\ id' = id /\ kind' = kind /\ current' = current
            /\ pc[w] \in {"running", "arm_wait", "arm_swap", "arm_recheck", "arm_yield"}
        BY <3>3 DEF ArmWifiDirect, ArmLoad, ArmWait, ArmSwap, ArmRecheck, ArmYield
      <4> QED BY <2>1, <2>3, <4>1, <4>2
    <3>4. CASE EndTransfer(w)
      BY <2>1, <2>3, <3>4 DEF EndTransfer
    <3>5. CASE Abandon(w)
      BY <2>1, <2>3, <3>5 DEF Abandon, MayArm
    <3>6. CASE Finish(w)
      BY <2>1, <2>3, <3>6
         DEF Finish, FinishCurrent, FinishPending, FinishWifi, FinishClock
    <3> QED BY <1>1, <3>1, <3>2, <3>3, <3>4, <3>5, <3>6 DEF StepOf
  <2> QED BY <2>2, <2>3
<1>2. ASSUME NEW w \in Workers, StepOf(w), ~wifi_direct_active
      PROVE  /\ MayArm(kind'[w]) /\ id'[w] # 0
             /\ current' = id'[w] /\ Owning(w)'
  <2>1. MayArm(kind'[w]) /\ id'[w] # 0 /\ Established(w)'
    BY <1>2, HoldsMove
  <2>2. ArmSwap(w)
    <3> USE DEF shared
    <3>1. ~TryBegin(w)
      BY <1>2 DEF TryBegin, TryBeginLoad, TryBeginJudge, TryBeginClaim, TryBeginStoreNeeds,
                  TryBeginStorePending, TryBeginTouch
    <3>2. ~Progress(w) /\ ~EndTransfer(w) /\ ~Abandon(w)
      BY <1>2 DEF Progress, EndTransfer, Abandon
    <3>3. ~Finish(w)
      BY <1>2 DEF Finish, FinishCurrent, FinishPending, FinishWifi, FinishClock
    <3> QED BY <1>2, <3>1, <3>2, <3>3
            DEF StepOf, ArmWifiDirect, ArmLoad, ArmWait, ArmRecheck, ArmYield
  <2>3. current = id[w]
    BY <2>2, OneOwner DEF ArmSwap, Owning, Established
  <2> QED BY <2>1, <2>2, <2>3 DEF ArmSwap, Owning
<1>3. CASE Tick \/ UNCHANGED vars
  <2>1. UNCHANGED <<current, wifi_direct_active, pc, kind, id>>
    BY <1>3 DEF Tick, vars, local
  <2>2. wifi_direct_active
    BY <2>1
  <2> QED BY <2>1, <2>2 DEF HoldHasOwner, Owning, Claiming, Established
<1>4. ASSUME NEW w \in Workers, StepOf(w)
      PROVE  \E v \in Workers :
                        /\ MayArm(kind[v])'
                        /\ id'[v] # 0
                        /\ \/ current' = id'[v] /\ (Owning(v)' \/ pc'[v] = "fin_current")
                           \/ pc'[v] \in {"fin_pending", "fin_wifi"}
  BY <1>1, <1>2, <1>4
<1> QED BY <1>3, <1>4 DEF Next, StepOf

\* The strengthening gives the property: an AirDrop transfer that has the slot
\* leaves the owner of a hold only the two last steps of finish().
LEMMA RadioKept ==
  ASSUME SlotInv, RadioInv
  PROVE  AirDropKeepsRadio
<1>1. AirDropHeld
  BY DEF RadioInv, AirDropClaimed, AirDropHeld
<1>2. AirDropNotStomped
  <2> SUFFICES ASSUME reclaimed = {}, NEW w \in Workers, Established(w), RidesAwdl(kind[w]),
                      wifi_direct_active
               PROVE  \E v \in Workers : MayArm(kind[v]) /\ pc[v] \in {"fin_pending", "fin_wifi"}
    BY DEF AirDropNotStomped
  <2>1. PICK v \in Workers :
            /\ MayArm(kind[v])
            /\ id[v] # 0
            /\ \/ current = id[v] /\ (Owning(v) \/ pc[v] = "fin_current")
               \/ pc[v] \in {"fin_pending", "fin_wifi"}
    BY DEF RadioInv, HoldHasOwner
  <2>2. v # w
    BY <2>1 DEF MayArm, RidesAwdl
  <2>3. current = id[w]
    BY OneOwner DEF Owning
  <2>4. current # id[v]
    BY <2>1, <2>2, <2>3 DEF SlotInv, IdsFresh
  <2> QED BY <2>1, <2>4
<1> QED BY <1>1, <1>2 DEF AirDropKeepsRadio

\* A live AirDrop transfer keeps the radio it rides on while no slot has been
\* reclaimed: its claim stays its own, and a Wi-Fi Direct hold beside it is one
\* its thread is about to drop inside finish(), for any number of threads.
THEOREM RadioStays == Spec => []AirDropKeepsRadio
<1>1. Init => IdsFresh /\ IdsPlaced /\ SlotOwned /\ RadioInv
  <2>1. Init => RadioInv
    BY DEF Init, RadioInv, ArmKinds, AirDropClaimed, HoldHasOwner, Established
  <2> QED BY <2>1, SlotInit
<1>2. TypeOK /\ TypeOK' /\ IdsFresh /\ IdsPlaced /\ SlotOwned /\ RadioInv /\ [Next]_vars
        => (IdsFresh /\ IdsPlaced /\ SlotOwned /\ RadioInv)'
  BY SlotStep, ArmKindsStep, AirDropClaimedStep, HoldHasOwnerStep DEF SlotInv, RadioInv
<1>3. TypeOK /\ IdsFresh /\ IdsPlaced /\ SlotOwned /\ RadioInv => AirDropKeepsRadio
  BY RadioKept DEF SlotInv
<1> QED BY <1>1, <1>2, <1>3, TypeCorrect, PTL DEF Spec
=============================================================================
