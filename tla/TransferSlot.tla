---------------------------- MODULE TransferSlot ----------------------------
(***************************************************************************)
(* The one transfer slot tarishsharingd shares between AirDrop and Quick   *)
(* Share (TransferState in sharingd/src/main.rs), and the threads that     *)
(* claim it, use it and give it back.                                      *)
(*                                                                         *)
(* Nothing holds a lock across try_begin, arm_wifi_direct or finish: each  *)
(* is a sequence of single atomic operations, so each operation is a step  *)
(* here and threads interleave between any two.  A worker is one thread    *)
(* that carries a transfer from try_begin to its last finish.              *)
(*                                                                         *)
(* Time is counted in ticks; STALE_TRANSFER is Stale ticks.                *)
(***************************************************************************)
EXTENDS Integers, FiniteSets

CONSTANTS
    Workers,    \* the threads that may carry a transfer
    Kinds,      \* the sorts of transfer this instance runs
    MaxId,      \* bound: how many transfer ids are handed out
    Stale       \* STALE_TRANSFER, in ticks

AllKinds == {"airdrop_recv", "airdrop_send", "qs_recv", "qs_recv_lan", "qs_send"}

ASSUME SlotAssumption ==
    /\ Kinds \subseteq AllKinds
    /\ MaxId \in Nat
    /\ Stale \in Nat

VARIABLES
    current,             \* id of the transfer in flight, 0 when idle
    next,                \* last id handed out
    needs_awdl,          \* does the transfer in flight ride the AWDL link
    airdrop_pending,     \* id of the AirDrop transfer owning the radio, or 0
    wifi_direct_active,  \* the AWDL hold for a Wi-Fi Direct group
    last_activity,       \* ticks since the last touch(), NoTime when idle
    pc,                  \* where each worker is
    kind,                \* what sort of transfer each worker carries
    id,                  \* the id try_begin gave the worker, 0 before
    cur,                 \* the `current` value try_begin loaded
    calls,               \* finish() calls the worker still makes
    armed,               \* arm_wifi_direct returned true to the worker
    reclaimed,           \* history: ids try_begin declared stale
    abandoned            \* history: accepted AirDrop offers never uploaded

shared == <<current, next, needs_awdl, airdrop_pending, wifi_direct_active, last_activity>>
local == <<kind, id, cur, calls, armed>>
history == <<reclaimed, abandoned>>
vars == <<current, next, needs_awdl, airdrop_pending, wifi_direct_active, last_activity,
          pc, kind, id, cur, calls, armed, reclaimed, abandoned>>

Ids == 1 .. MaxId
NoTime == -1
Elapsed == 0 .. Stale + 1

\* The two protocols.  Only AirDrop rides AWDL: try_begin(true).
RidesAwdl(k) == k \in {"airdrop_recv", "airdrop_send"}

\* Which transfers may ask for a Wi-Fi Direct group: host_group on a Bluetooth
\* receive, join_wifi on a send.  A LAN receive declines every upgrade.
MayArm(k) == k \in {"qs_recv", "qs_send"}

\* How often each sort of transfer calls finish() for its own id: serve() may
\* call it once, the thread calls it at its end, and a SlotGuard once more.
FinishCalls(k) ==
    CASE k = "airdrop_recv" -> {1}
      [] k = "qs_recv"      -> {2, 3}
      [] k = "qs_recv_lan"  -> {1, 2}
      [] OTHER              -> {2}        \* sends

Init ==
    /\ current = 0
    /\ next = 0
    /\ needs_awdl = FALSE
    /\ airdrop_pending = 0
    /\ wifi_direct_active = FALSE
    /\ last_activity = NoTime
    /\ pc = [w \in Workers |-> "idle"]
    /\ kind = [w \in Workers |-> "none"]
    /\ id = [w \in Workers |-> 0]
    /\ cur = [w \in Workers |-> 0]
    /\ calls = [w \in Workers |-> 0]
    /\ armed = [w \in Workers |-> FALSE]
    /\ reclaimed = {}
    /\ abandoned = {}

Goto(w, l) == pc' = [pc EXCEPT ![w] = l]

\* The thread is done with try_begin or with its transfer.
Return(w) ==
    /\ Goto(w, "idle")
    /\ kind' = [kind EXCEPT ![w] = "none"]
    /\ id' = [id EXCEPT ![w] = 0]
    /\ cur' = [cur EXCEPT ![w] = 0]
    /\ calls' = [calls EXCEPT ![w] = 0]
    /\ armed' = [armed EXCEPT ![w] = FALSE]

-----------------------------------------------------------------------------
(* try_begin *)

\* The load of `current`: a free slot goes straight to the claim.
TryBeginLoad(w) ==
    /\ pc[w] = "idle"
    /\ next < MaxId
    /\ \E k \in Kinds : kind' = [kind EXCEPT ![w] = k]
    /\ cur' = [cur EXCEPT ![w] = current]
    /\ Goto(w, IF current = 0 THEN "claim" ELSE "judge")
    /\ UNCHANGED <<shared, id, calls, armed, history>>

is_stale == last_activity > Stale

\* Busy with a live transfer is a refusal; a stale one is finished in its
\* owner's stead, and then the claim goes ahead.
TryBeginJudge(w) ==
    /\ pc[w] = "judge"
    /\ IF is_stale
       THEN /\ reclaimed' = reclaimed \cup {cur[w]}
            /\ Goto(w, "fin_current")
            /\ UNCHANGED local
       ELSE /\ Return(w)
            /\ UNCHANGED reclaimed
    /\ UNCHANGED <<shared, abandoned>>

\* fetch_add for a fresh id, then compare_exchange(0, id): the id is spent
\* whether or not the exchange wins.
TryBeginClaim(w) ==
    /\ pc[w] = "claim"
    /\ next < MaxId
    /\ next' = next + 1
    /\ IF current = 0
       THEN /\ current' = next + 1
            /\ id' = [id EXCEPT ![w] = next + 1]
            /\ cur' = [cur EXCEPT ![w] = 0]
            /\ Goto(w, "store_needs")
            /\ UNCHANGED <<kind, calls, armed>>
       ELSE /\ Return(w)
            /\ UNCHANGED current
    /\ UNCHANGED <<needs_awdl, airdrop_pending, wifi_direct_active, last_activity,
                   reclaimed, abandoned>>

TryBeginStoreNeeds(w) ==
    /\ pc[w] = "store_needs"
    /\ needs_awdl' = RidesAwdl(kind[w])
    /\ Goto(w, IF RidesAwdl(kind[w]) THEN "store_pending" ELSE "touch")
    /\ UNCHANGED <<current, next, airdrop_pending, wifi_direct_active, last_activity,
                   local, history>>

TryBeginStorePending(w) ==
    /\ pc[w] = "store_pending"
    /\ airdrop_pending' = id[w]
    /\ Goto(w, "touch")
    /\ UNCHANGED <<current, next, needs_awdl, wifi_direct_active, last_activity,
                   local, history>>

TryBeginTouch(w) ==
    /\ pc[w] = "touch"
    /\ last_activity' = 0
    /\ Goto(w, "running")
    /\ UNCHANGED <<current, next, needs_awdl, airdrop_pending, wifi_direct_active,
                   local, history>>

-----------------------------------------------------------------------------
(* A running transfer *)

\* Bytes moved.  Every progress report calls touch(), except the closure
\* sendFiles hands to the AirDrop sender, which only tells the clients.
Progress(w) ==
    /\ pc[w] = "running"
    /\ last_activity' = IF kind[w] = "airdrop_send" THEN last_activity ELSE 0
    /\ UNCHANGED <<current, next, needs_awdl, airdrop_pending, wifi_direct_active,
                   pc, local, history>>

airdrop_busy == airdrop_pending # 0

\* arm_wifi_direct, first load: already armed, wait for AirDrop, or take it.
ArmLoad(w) ==
    /\ pc[w] = "running"
    /\ MayArm(kind[w])
    /\ ~armed[w]
    /\ IF wifi_direct_active
       THEN armed' = [armed EXCEPT ![w] = TRUE] /\ UNCHANGED pc
       ELSE /\ Goto(w, IF airdrop_busy THEN "arm_wait" ELSE "arm_swap")
            /\ UNCHANGED armed
    /\ UNCHANGED <<shared, kind, id, cur, calls, history>>

\* Up to fifteen seconds for AirDrop to end; then present busy.
ArmWait(w) ==
    /\ pc[w] = "arm_wait"
    /\ \/ ~airdrop_busy /\ Goto(w, "arm_swap")
       \/ airdrop_busy /\ Goto(w, "running")
    /\ UNCHANGED <<shared, local, history>>

ArmSwap(w) ==
    /\ pc[w] = "arm_swap"
    /\ wifi_direct_active' = TRUE
    /\ IF wifi_direct_active
       THEN armed' = [armed EXCEPT ![w] = TRUE] /\ Goto(w, "running")
       ELSE Goto(w, "arm_recheck") /\ UNCHANGED armed
    /\ UNCHANGED <<current, next, needs_awdl, airdrop_pending, last_activity,
                   kind, id, cur, calls, history>>

\* AirDrop arrived meanwhile: give the radio back.  Otherwise wait out the
\* two teardown stages, each bounded, and return true.
ArmRecheck(w) ==
    /\ pc[w] = "arm_recheck"
    /\ IF airdrop_busy
       THEN Goto(w, "arm_yield") /\ UNCHANGED armed
       ELSE armed' = [armed EXCEPT ![w] = TRUE] /\ Goto(w, "running")
    /\ UNCHANGED <<shared, kind, id, cur, calls, history>>

ArmYield(w) ==
    /\ pc[w] = "arm_yield"
    /\ wifi_direct_active' = FALSE
    /\ Goto(w, "running")
    /\ UNCHANGED <<current, next, needs_awdl, airdrop_pending, last_activity,
                   local, history>>

\* The transfer ends, however it ends, and the first finish() begins.
EndTransfer(w) ==
    /\ pc[w] = "running"
    /\ \E n \in FinishCalls(kind[w]) : calls' = [calls EXCEPT ![w] = n]
    /\ Goto(w, "fin_current")
    /\ UNCHANGED <<shared, kind, id, cur, armed, history>>

\* An accepted AirDrop offer whose peer never sends /Upload: the connection
\* thread ends and no path of it calls finish().
Abandon(w) ==
    /\ pc[w] = "running"
    /\ kind[w] = "airdrop_recv"
    /\ abandoned' = abandoned \cup {id[w]}
    /\ Return(w)
    /\ UNCHANGED <<shared, reclaimed>>

-----------------------------------------------------------------------------
(* finish(FinishId(w)) *)

\* A worker without an id of its own is in try_begin, finishing a stale one.
FinishId(w) == IF id[w] = 0 THEN cur[w] ELSE id[w]

\* Slip: an unconditional store instead of the compare_exchange.
FinishCurrentBlind(w) ==
    /\ pc[w] = "fin_current"
    /\ current' = 0
    /\ Goto(w, "fin_pending")
    /\ UNCHANGED <<next, needs_awdl, airdrop_pending, wifi_direct_active, last_activity,
                   local, history>>

FinishCurrent(w) ==
    /\ pc[w] = "fin_current"
    /\ current' = IF current = FinishId(w) THEN 0 ELSE current
    /\ Goto(w, "fin_pending")
    /\ UNCHANGED <<next, needs_awdl, airdrop_pending, wifi_direct_active, last_activity,
                   local, history>>

\* Slip: the radio claim cleared whoever it belongs to.
FinishPendingBlind(w) ==
    /\ pc[w] = "fin_pending"
    /\ airdrop_pending' = 0
    /\ Goto(w, "fin_wifi")
    /\ UNCHANGED <<current, next, needs_awdl, wifi_direct_active, last_activity,
                   local, history>>

FinishPending(w) ==
    /\ pc[w] = "fin_pending"
    /\ airdrop_pending' = IF airdrop_pending = FinishId(w) THEN 0 ELSE airdrop_pending
    /\ Goto(w, "fin_wifi")
    /\ UNCHANGED <<current, next, needs_awdl, wifi_direct_active, last_activity,
                   local, history>>

\* Slip: the release skipped for a transfer that was never told "armed".
FinishWifiOwnOnly(w) ==
    /\ pc[w] = "fin_wifi"
    /\ wifi_direct_active' = (wifi_direct_active /\ armed[w])
    /\ Goto(w, "fin_clock")
    /\ UNCHANGED <<current, next, needs_awdl, airdrop_pending, last_activity,
                   local, history>>

\* An unconditional swap: whoever holds the radio loses it.
FinishWifi(w) ==
    /\ pc[w] = "fin_wifi"
    /\ wifi_direct_active' = FALSE
    /\ Goto(w, "fin_clock")
    /\ UNCHANGED <<current, next, needs_awdl, airdrop_pending, last_activity,
                   local, history>>

\* Clears the clock, whoever it belongs to, and returns: to the claim inside
\* try_begin, to the next finish() of this thread, or to the end of it.
FinishClock(w) ==
    /\ pc[w] = "fin_clock"
    /\ last_activity' = NoTime
    /\ \/ /\ id[w] = 0
          /\ Goto(w, "claim")
          /\ UNCHANGED local
       \/ /\ id[w] # 0
          /\ calls[w] > 1
          /\ calls' = [calls EXCEPT ![w] = @ - 1]
          /\ Goto(w, "fin_current")
          /\ UNCHANGED <<kind, id, cur, armed>>
       \/ /\ id[w] # 0
          /\ calls[w] =< 1
          /\ Return(w)
    /\ UNCHANGED <<current, next, needs_awdl, airdrop_pending, wifi_direct_active,
                   reclaimed, abandoned>>

-----------------------------------------------------------------------------
\* Time passes for the activity clock.
Tick ==
    /\ last_activity' = IF last_activity \in 0 .. Stale THEN last_activity + 1
                                                         ELSE last_activity
    /\ UNCHANGED <<current, next, needs_awdl, airdrop_pending, wifi_direct_active,
                   pc, local, history>>

TryBegin(w) ==
    \/ TryBeginLoad(w) \/ TryBeginJudge(w) \/ TryBeginClaim(w)
    \/ TryBeginStoreNeeds(w) \/ TryBeginStorePending(w) \/ TryBeginTouch(w)

ArmWifiDirect(w) ==
    ArmLoad(w) \/ ArmWait(w) \/ ArmSwap(w) \/ ArmRecheck(w) \/ ArmYield(w)

Finish(w) == FinishCurrent(w) \/ FinishPending(w) \/ FinishWifi(w) \/ FinishClock(w)

Next ==
    \/ \E w \in Workers :
          TryBegin(w) \/ Progress(w) \/ ArmWifiDirect(w) \/ EndTransfer(w) \/ Abandon(w) \/ Finish(w)
    \/ Tick

Spec == Init /\ [][Next]_vars

-----------------------------------------------------------------------------
(* Properties *)

Labels == {"idle", "claim", "judge", "store_needs", "store_pending", "touch", "running",
           "arm_wait", "arm_swap", "arm_recheck", "arm_yield",
           "fin_current", "fin_pending", "fin_wifi", "fin_clock"}

\* Every variable of TransferState and of the threads keeps its type.
TypeOK ==
    /\ current \in 0 .. MaxId
    /\ next \in 0 .. MaxId
    /\ needs_awdl \in BOOLEAN
    /\ airdrop_pending \in 0 .. MaxId
    /\ wifi_direct_active \in BOOLEAN
    /\ last_activity \in {NoTime} \cup Elapsed
    /\ pc \in [Workers -> Labels]
    /\ kind \in [Workers -> Kinds \cup {"none"}]
    /\ id \in [Workers -> 0 .. MaxId]
    /\ cur \in [Workers -> 0 .. MaxId]
    /\ calls \in [Workers -> 0 .. 3]
    /\ armed \in [Workers -> BOOLEAN]
    /\ reclaimed \subseteq 0 .. MaxId
    /\ abandoned \subseteq 0 .. MaxId

Established(w) == pc[w] \in {"running", "arm_wait", "arm_swap", "arm_recheck", "arm_yield"}
Claiming(w) == pc[w] \in {"store_needs", "store_pending", "touch"}

\* The worker has claimed a slot and has not yet begun to give it back.
Owning(w) == Claiming(w) \/ Established(w)

\* "ONE TRANSFER AT A TIME, ACROSS BOTH PROTOCOLS": a transfer that try_begin
\* has not reclaimed owns the slot from its claim to its first finish(), in
\* every interleaving of claims, double finishes and reclaims.
SlotOwned == \A w \in Workers : Owning(w) /\ id[w] \notin reclaimed => current = id[w]

\* Workers that will still run the given step of a finish() for their own id.
WillFinish(w, steps) ==
    /\ id[w] # 0
    /\ Owning(w) \/ pc[w] \in steps \/ calls[w] > 1

\* Whatever TransferState still holds, some thread is going to release it (or
\* it is an accepted offer nobody uploaded, which only try_begin reclaims):
\* the slot, AirDrop's claim on the radio and the Wi-Fi Direct hold never leak.
HoldsHaveReleasers ==
    /\ current # 0 =>
          \/ current \in abandoned
          \/ \E w \in Workers : id[w] = current /\ WillFinish(w, {"fin_current"})
    /\ airdrop_pending # 0 =>
          \/ airdrop_pending \in abandoned
          \/ \E w \in Workers : /\ id[w] = airdrop_pending
                                /\ WillFinish(w, {"fin_current", "fin_pending"})
    /\ wifi_direct_active =>
          \E w \in Workers : /\ MayArm(kind[w])
                             /\ WillFinish(w, {"fin_current", "fin_pending", "fin_wifi"})

\* While no slot has been reclaimed, a live AirDrop transfer keeps its claim on
\* the radio: no other transfer's finish() clears it (the compare_exchange on
\* airdrop_pending).
AirDropHeld ==
    reclaimed = {} =>
        \A w \in Workers : Established(w) /\ RidesAwdl(kind[w]) => airdrop_pending = id[w]

\* While no slot has been reclaimed, AWDL is never held down under a live
\* AirDrop transfer for longer than an instant: if the Wi-Fi Direct hold is up
\* beside one, the Quick Share thread that took it is inside finish() and about
\* to drop it.
AirDropNotStomped ==
    reclaimed = {} =>
        \A w \in Workers :
            Established(w) /\ RidesAwdl(kind[w]) /\ wifi_direct_active =>
                \E v \in Workers : MayArm(kind[v]) /\ pc[v] \in {"fin_pending", "fin_wifi"}

\* A live AirDrop transfer keeps the radio it rides on: its claim stays its own
\* and nobody holds AWDL down beside it, while no slot has been reclaimed.
AirDropKeepsRadio == AirDropHeld /\ AirDropNotStomped
=============================================================================
