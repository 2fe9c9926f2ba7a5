------------------------------ MODULE RadioGate ------------------------------
(***************************************************************************)
(* Who may have the radio: the gate thread of tarishsharingd               *)
(* (start_radio_gate), the binder calls that feed it, the Wi-Fi Direct     *)
(* transfer that needs the radio away (arm_wifi_direct), and tarishd as    *)
(* the RadioSwitch that TarishLink implements.                             *)
(*                                                                         *)
(* The gate reads policy, the reasons to be up and the hold one after the  *)
(* other and writes at the end, so each may change under it.               *)
(***************************************************************************)
EXTENDS Integers, Sequences

CONSTANTS
    MaxFail,       \* bound: property writes that fail
    MaxMeddle      \* bound: writes of the property by somebody else

ASSUME GateAssumption == MaxFail \in Nat /\ MaxMeddle \in Nat

Policies == {"off", "both"}    \* receive and send alone are like both to the gate

\* The reasons for the radio, in the order the gate reads them.
Order == <<"active", "airdrop", "discoverable">>
Sources == {Order[i] : i \in DOMAIN Order}

VARIABLES
    want, seen, up,    \* the property, and tarishd (see RadioSwitch)
    policy,            \* the AirDrop mode: "off" or "both"
    reasons,           \* the reasons that hold now
    hold,              \* wifi_direct_active
    gpc,               \* the gate: "policy", a reason, "hold", "write"
    permitted, busy, yielded,
    everBusy,          \* ever_busy
    idle,              \* idle_since: "none", "lingering", "over"
    applied,           \* last successful write
    later,             \* next_try is in the future
    fails, meddles,    \* counters for the bounds
    steady             \* history: reasons that have held since the pass began

switch == <<want, seen, up>>
service == <<policy, reasons>>
locals == <<permitted, busy, yielded, everBusy, idle>>
writes == <<applied, later, fails, meddles>>
gateVars == <<want, seen, up, policy, reasons, hold, gpc, permitted,
              busy, yielded, everBusy, idle, applied, later, fails, meddles, steady>>

T == INSTANCE RadioSwitch

GateInit ==
    /\ T!Init /\ want \in {"unset", "0", "1"}
    /\ policy = "off" /\ reasons = {} /\ hold = FALSE
    /\ gpc = "policy" /\ permitted = FALSE /\ busy = FALSE /\ yielded = FALSE
    /\ everBusy = FALSE /\ idle = "none" /\ applied = "none" /\ later = FALSE
    /\ fails = 0 /\ meddles = 0 /\ steady = {}
-----------------------------------------------------------------------------
(* The gate. *)

ReadPolicy ==
    /\ gpc = "policy" /\ gpc' = Order[1]
    /\ permitted' = (policy # "off") /\ busy' = FALSE /\ steady' = reasons
    /\ UNCHANGED <<switch, service, hold, yielded, everBusy, idle, writes>>

\* The next reason to look at, or the hold once one is found or all are read.
After(i) == IF i < Len(Order) THEN Order[i + 1] ELSE "hold"

\* Slip: the gate asks only whether a client is in the foreground.
ReadFlagActiveOnly(i) ==
    /\ gpc = Order[i]
    /\ busy' = (i = 1 /\ Order[i] \in reasons)
    /\ gpc' = IF busy' THEN "hold" ELSE After(i)
    /\ UNCHANGED <<switch, service, hold, permitted, yielded, everBusy, idle, writes, steady>>

ReadFlag(i) ==
    /\ gpc = Order[i]
    /\ busy' = (Order[i] \in reasons)
    /\ gpc' = IF busy' THEN "hold" ELSE After(i)
    /\ UNCHANGED <<switch, service, hold, permitted, yielded, everBusy, idle, writes, steady>>

\* Slip: every pass that is not busy starts the linger again.
ReadHoldRestarts ==
    /\ gpc = "hold" /\ gpc' = "write"
    /\ everBusy' = (everBusy \/ busy)
    /\ idle' = IF busy THEN "none" ELSE IF everBusy THEN "lingering" ELSE idle
    /\ yielded' = hold
    /\ UNCHANGED <<switch, service, hold, permitted, busy, writes, steady>>

ReadHold ==
    /\ gpc = "hold" /\ gpc' = "write"
    /\ everBusy' = (everBusy \/ busy)
    /\ idle' = IF busy THEN "none" ELSE IF everBusy /\ idle = "none" THEN "lingering" ELSE idle
    /\ yielded' = hold
    /\ UNCHANGED <<switch, service, hold, permitted, busy, writes, steady>>

\* Permitted, asked for (now, or until the linger is over) and not yielded.
GateWants == IF permitted /\ everBusy /\ idle # "over" /\ ~yielded THEN "1" ELSE "0"

\* Slip: only our own last write is compared.
NeedsWriteBlind == applied # GateWants

NeedsWrite == want # GateWants \/ applied # GateWants

GateWrite ==
    /\ gpc = "write" /\ NeedsWrite /\ ~later
    /\ want' = GateWants /\ applied' = GateWants
    /\ gpc' = "policy"
    /\ UNCHANGED <<seen, up, service, hold, locals, later, fails, meddles, steady>>

GateWriteFails ==
    /\ gpc = "write" /\ NeedsWrite /\ ~later /\ fails < MaxFail
    /\ fails' = fails + 1 /\ later' = TRUE
    /\ gpc' = "policy"
    /\ UNCHANGED <<switch, service, hold, locals, applied, meddles, steady>>

GateSkips ==
    /\ gpc = "write" /\ (~NeedsWrite \/ later)
    /\ gpc' = "policy"
    /\ UNCHANGED <<switch, service, hold, locals, writes, steady>>

Gate ==
    \/ ReadPolicy \/ (\E i \in DOMAIN Order : ReadFlag(i)) \/ ReadHold
    \/ GateWrite \/ GateWriteFails \/ GateSkips
-----------------------------------------------------------------------------
(* What feeds it: binder calls, on one thread, and transfers. *)

Flag(s, on) ==
    /\ reasons' = IF on THEN reasons \cup {s} ELSE reasons \ {s}
    /\ steady' = IF on THEN steady ELSE steady \ {s}

\* Called on every onResume and onPause.
setActive(on) ==
    /\ Flag("active", on)
    /\ UNCHANGED <<switch, policy, hold, gpc, locals, writes>>

setDiscoverable(on) ==
    /\ on => policy = "both"
    /\ Flag("discoverable", on)
    /\ UNCHANGED <<switch, policy, hold, gpc, locals, writes>>

\* Visibility is withdrawn with the permission to receive.
setPolicy(p) ==
    /\ policy' = p
    /\ IF p = "both" THEN UNCHANGED <<reasons, steady>> ELSE Flag("discoverable", FALSE)
    /\ UNCHANGED <<switch, hold, gpc, locals, writes>>

\* An AirDrop transfer begins and ends (the slot's rules are TransferSlot's).
AirDrop(on) ==
    /\ on => ~hold /\ policy # "off"
    /\ Flag("airdrop", on)
    /\ UNCHANGED <<switch, policy, hold, gpc, locals, writes>>

Service ==
    \/ \E on \in BOOLEAN : setActive(on) \/ setDiscoverable(on) \/ AirDrop(on)
    \/ \E p \in Policies : setPolicy(p)

Meddle ==
    /\ meddles < MaxMeddle /\ meddles' = meddles + 1
    /\ want' \in {"0", "1"}
    /\ UNCHANGED <<seen, up, service, hold, gpc, locals, applied, later, fails, steady>>
-----------------------------------------------------------------------------
(* A Quick Share transfer takes the radio for Wi-Fi Direct. *)

\* arm_wifi_direct and finish; how the two race is TransferSlot's subject.
Arm ==
    /\ ~hold /\ "airdrop" \notin reasons /\ hold' = TRUE
    /\ UNCHANGED <<switch, service, gpc, locals, writes, steady>>

Finish ==
    /\ hold /\ hold' = FALSE
    /\ UNCHANGED <<switch, service, gpc, locals, writes, steady>>

\* tarishd, as TarishLink is shown to behave.
Radio ==
    /\ T!See \/ T!Raise \/ T!Lower \/ T!Die
    /\ UNCHANGED <<service, hold, gpc, locals, writes, steady>>

\* LINGER runs out; the wait before the next try of a write is over.
Tick ==
    /\ idle' = IF idle = "lingering" THEN "over" ELSE idle
    /\ later' = FALSE
    /\ <<idle, later>>' # <<idle, later>>
    /\ UNCHANGED <<switch, service, hold, gpc, permitted, busy, yielded, everBusy, applied, fails, meddles, steady>>

GateNext == Gate \/ Service \/ Meddle \/ Arm \/ Finish \/ Radio \/ Tick

\* The gate and binder threads run, time passes, tarishd polls and releases
\* what a poll found unwanted.
Fairness ==
    /\ WF_gateVars(Gate) /\ SF_gateVars(GateWrite) /\ WF_gateVars(Tick)
    /\ WF_gateVars(T!See /\ Radio) /\ WF_gateVars(T!Release /\ Radio)

GateSpec == GateInit /\ [][GateNext]_gateVars /\ Fairness
-----------------------------------------------------------------------------
\* Every variable keeps its type; the gate itself writes only "0" and "1".
GateTypeOK ==
    /\ want \in {"unset", "0", "1"} /\ seen \in BOOLEAN /\ up \in BOOLEAN
    /\ policy \in Policies /\ reasons \subseteq Sources /\ hold \in BOOLEAN
    /\ gpc \in {"policy", "hold", "write"} \cup Sources
    /\ permitted \in BOOLEAN /\ busy \in BOOLEAN /\ yielded \in BOOLEAN /\ everBusy \in BOOLEAN
    /\ idle \in {"none", "lingering", "over"} /\ applied \in {"none", "0", "1"}
    /\ later \in BOOLEAN /\ fails \in 0 .. MaxFail /\ meddles \in 0 .. MaxMeddle
    /\ steady \subseteq reasons

\* A reason that has held since a pass began is never overlooked by it, in
\* whatever order the others come and go while they are read one by one.
NotTakenFromUse ==
    gpc = "write" /\ steady # {} /\ GateWants = "0" => ~permitted \/ yielded

\* A transfer that keeps its hold gets the radio out of the way for good, and so
\* do a policy without AirDrop and a device nobody uses.
RadioFreed == <>[]hold \/ <>[](policy = "off") \/ <>[](reasons = {}) => <>[]~up

\* A lasting reason, permitted and not yielded, keeps the radio asked for.
UseKeepsRadio ==
    \A s \in Sources :
        <>[](s \in reasons /\ policy # "off" /\ ~hold) => <>[](want = "1")
==============================================================================
