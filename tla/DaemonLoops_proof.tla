------------------------- MODULE DaemonLoops_proof --------------------------
(***************************************************************************)
(* The loops of tarishsharingd: two that run whether or not anything is    *)
(* being transferred, and the two of a transfer over the LAN.              *)
(*                                                                         *)
(* The discovery loop (PeerTable), for any number of peers and any timing  *)
(* constants: no identity is left standing that the loop no longer answers *)
(* for, and no quiet peer is removed before BLE has stopped accounting for *)
(* it for a whole LOST_AFTER.  The second is an action property.  It rests *)
(* on an invariant the code never states: the clock of the gate never runs *)
(* ahead of the time since BLE last accounted for the list, although a new *)
(* Browser and every change of the gate set that clock again.              *)
(*                                                                         *)
(* The radio gate (RadioGate), however often properties fail to be written *)
(* or are meddled with: it never overlooks a reason for the radio that was *)
(* there all along.                                                        *)
(*                                                                         *)
(* The effect loops of send() and serve() joined by one connection         *)
(* (QsPair), for any files: the two sides agree on what was delivered.     *)
(* Agreement compares ends that never meet; PairInv says where each loop   *)
(* can be and with what queued (SenderPart, ReceiverPart), and what is on  *)
(* the wire between: the rest of the greeting the receiver's machine waits *)
(* for, and payload only of what was begun or sent (ToReceiver).           *)
(***************************************************************************)
EXTENDS PeerTable, RadioGate, QsPair, SequenceTheorems, TLAPS

-----------------------------------------------------------------------------
(* The discovery loop *)

Clocks == gate \in [on : BOOLEAN, age : 0 .. LOST_AFTER] /\ vouch \in 0 .. LOST_AFTER

\* The gate has not been open for longer than BLE has been silent.
GateBehind == gate.on => gate.age <= vouch

\* A table of entries.
Tables == [Peer -> Entry \cup {None}]

LoopInv == was_advertising \in BOOLEAN /\ NoGhost /\ Clocks /\ GateBehind /\ table \in Tables

\* The durations and counts are positive.
LEMMA Positive ==
    /\ LOST_UNANSWERED \in Nat \ {0} /\ LOST_AFTER \in Nat \ {0} /\ Leases \subseteq Nat \ {0}
    /\ GRACE \in Nat \ {0} /\ DEBOUNCE \in Nat \ {0} /\ FAILURES \in Nat \ {0}
  BY ConstantsAssumption

\* Counting up to a bound stays within it.
LEMMA LeastBound ==
    ASSUME NEW m \in Nat, NEW x \in 0 .. m
    PROVE  Least(x + 1, m) \in 0 .. m
  BY DEF Least

\* Counting a question against some of the peers leaves a table of entries.
LEMMA OwingTable == ASSUME NEW t \in Tables, NEW s PROVE Owing(t, s) \in Tables
  <1>1. ASSUME NEW p \in Peer
        PROVE  (IF p \in s /\ t[p].listed
                THEN [t[p] EXCEPT !.unanswered = Least(@ + 1, LOST_UNANSWERED)]
                ELSE t[p]) \in Entry \cup {None}
    <2>1. t[p] \in Entry \cup {None}
      BY DEF Tables
    <2>2. CASE t[p] \in Entry
      <3>1. t[p].unanswered \in 0 .. LOST_UNANSWERED
        BY <2>2 DEF Entry
      <3>2. Least(t[p].unanswered + 1, LOST_UNANSWERED) \in 0 .. LOST_UNANSWERED
        BY <3>1, LeastBound, Positive
      <3>3. [t[p] EXCEPT !.unanswered = Least(@ + 1, LOST_UNANSWERED)] \in Entry
        BY <2>2, <3>2 DEF Entry
      <3>4. QED
        BY <2>1, <3>3
    <2>3. CASE t[p] = None
      BY <2>3 DEF None
    <2>4. QED
      BY <2>1, <2>2, <2>3
  <1>2. QED
    BY <1>1 DEF Owing, Tables

\* absorb makes an entry of whatever arrives.
LEMMA AbsorbEntry ==
    ASSUME NEW e \in Entry \cup {None}, NEW k, NEW l \in Leases
    PROVE  Absorb(e, k, l) \in Entry \cup {None}
  <1>1. CASE k = "none"
    BY <1>1 DEF Absorb
  <1>2. CASE k # "none"
    <2>1. /\ ((k = "full") \/ (e.listed /\ e.reach)) \in BOOLEAN
          /\ ((k = "goodbye") \/ (e.listed /\ e.withdrawn)) \in BOOLEAN
      OBVIOUS
    <2>2. (IF k = "goodbye" THEN 1 ELSE l) \in Nat
      BY Positive
    <2>3. 0 \in 0 .. LOST_AFTER /\ 0 \in 0 .. LOST_UNANSWERED
      BY Positive
    <2>4. Absorb(e, k, l) \in Entry
      BY <1>2, <2>1, <2>2, <2>3 DEF Absorb, Entry
    <2>5. QED
      BY <2>4
  <1>3. QED
    BY <1>1, <1>2

\* Ages and leases stay within their bounds as time passes.
LEMMA OlderTable == ASSUME NEW t \in Tables PROVE Older(t) \in Tables
  <1>1. ASSUME NEW p \in Peer
        PROVE  (IF t[p].listed
                THEN [t[p] EXCEPT !.seen = Least(@ + 1, LOST_AFTER),
                                  !.lease = IF @ = 0 THEN 0 ELSE @ - 1]
                ELSE t[p]) \in Entry \cup {None}
    <2>1. t[p] \in Entry \cup {None}
      BY DEF Tables
    <2>2. CASE t[p] \in Entry
      <3>1. t[p].seen \in 0 .. LOST_AFTER /\ t[p].lease \in Nat
        BY <2>2 DEF Entry
      <3>2. Least(t[p].seen + 1, LOST_AFTER) \in 0 .. LOST_AFTER
        BY <3>1, LeastBound, Positive
      <3>3. (IF t[p].lease = 0 THEN 0 ELSE t[p].lease - 1) \in Nat
        BY <3>1, Positive
      <3>4. [t[p] EXCEPT !.seen = Least(@ + 1, LOST_AFTER),
                         !.lease = IF @ = 0 THEN 0 ELSE @ - 1] \in Entry
        BY <2>2, <3>2, <3>3 DEF Entry
      <3>5. QED
        BY <2>1, <3>4
    <2>3. CASE t[p] = None
      BY <2>3 DEF None
    <2>4. QED
      BY <2>1, <2>2, <2>3
  <1>2. QED
    BY <1>1 DEF Older, Tables

\* A whole poll, expire and tick leaves a table of entries.
LEMMA HeardTable ==
    ASSUME NEW t \in Tables, NEW got, NEW granted \in [Peer -> Leases]
    PROVE  Older(Expire([p \in Peer |-> Absorb(t[p], got[p], granted[p])])) \in Tables
  <1>1. [p \in Peer |-> Absorb(t[p], got[p], granted[p])] \in Tables
    BY AbsorbEntry DEF Tables
  <1>2. \A u \in Tables : Expire(u) \in Tables
    BY DEF Expire, Tables
  <1>3. QED
    BY <1>1, <1>2, OlderTable

\* A new Browser starts from one.
LEMMA EmptyTable == Empty \in Tables
  BY DEF Empty, Tables

\* The state the loop starts in.
LEMMA LoopFirst == Init => LoopInv
  <1> SUFFICES ASSUME Init PROVE LoopInv
    OBVIOUS
  <1>1. GateOpened \in [on : BOOLEAN, age : 0 .. LOST_AFTER] /\ LOST_AFTER \in 0 .. LOST_AFTER
    BY Positive DEF GateOpened
  <1>2. Clocks
    BY <1>1 DEF Init, Clocks
  <1>3. GateBehind
    BY Positive DEF Init, GateBehind, GateOpened
  <1>4. was_advertising \in BOOLEAN /\ NoGhost /\ table \in Tables
    BY EmptyTable DEF Init, NoGhost
  <1>5. QED
    BY <1>2, <1>3, <1>4 DEF LoopInv

\* Steps that touch neither the advertisement nor the clocks.
LEMMA Aside ==
    ASSUME LoopInv, UNCHANGED <<was_advertising, standing, unsaid, instance, gate, vouch>>, table' \in Tables
    PROVE  LoopInv'
  BY DEF LoopInv, NoGhost, Clocks, GateBehind

\* Steps that end with nothing left to withdraw, and the gate as it was or new.
LEMMA Afresh ==
    ASSUME LoopInv, standing' \ unsaid' = {}, was_advertising' = FALSE, vouch' = vouch,
           gate' = gate \/ gate' = GateOpened, table' \in Tables
    PROVE  LoopInv'
  <1>1. CASE gate' = gate
    BY <1>1 DEF LoopInv, NoGhost, Clocks, GateBehind
  <1>2. CASE gate' = GateOpened
    <2>1. GateOpened \in [on : BOOLEAN, age : 0 .. LOST_AFTER] /\ GateOpened.age = 0
      BY Positive DEF GateOpened
    <2>2. vouch \in 0 .. LOST_AFTER
      BY DEF LoopInv, Clocks
    <2>3. Clocks' /\ GateBehind'
      BY <1>2, <2>1, <2>2 DEF Clocks, GateBehind
    <2>4. QED
      BY <2>3 DEF LoopInv, NoGhost
  <1>3. QED
    BY <1>1, <1>2

\* Steps that change the advertisement.
LEMMA Spoken ==
    ASSUME LoopInv, UNCHANGED <<gate, vouch, table>>, was_advertising' \in BOOLEAN, NoGhost'
    PROVE  LoopInv'
  BY DEF LoopInv, Clocks, GateBehind

\* Every step of the pass.
LEMMA LoopStep ==
    ASSUME LoopInv,
           \/ Idle \/ Rebind \/ Readdress \/ Settled \/ Reset \/ Advertise \/ Withdraw
           \/ Announce \/ AskDue \/ Ask(FALSE, FALSE) \/ Stale \/ NotStale \/ LookAny \/ HearAny
    PROVE  LoopInv'
  <1>1. CASE Idle
    BY <1>1, Afresh DEF Idle, browser, LoopInv
  <1>2. CASE Rebind \/ Readdress \/ Stale
    BY <1>2, Afresh, EmptyTable DEF Rebind, Readdress, Stale, NewBrowser
  <1>3. CASE Settled \/ NotStale
    BY <1>3, Aside DEF Settled, NotStale, browser, LoopInv
  <1>4. CASE Reset
    <2>1. UNCHANGED <<gate, vouch, table>> /\ was_advertising' \in BOOLEAN
      BY <1>4 DEF Reset, LoopInv
    <2>2. NoGhost'
      BY <1>4 DEF Reset, stop_advertising, LoopInv, NoGhost
    <2>3. QED
      BY <2>1, <2>2, Spoken
  <1>5. CASE Advertise
    <2>1. UNCHANGED <<gate, vouch, table, instance>> /\ was_advertising' \in BOOLEAN
      BY <1>5 DEF Advertise
    <2>2. standing \ unsaid = {}
      BY <1>5 DEF Advertise, LoopInv, NoGhost
    <2>3. NoGhost'
      BY <1>5, <2>1, <2>2 DEF Advertise, NoGhost
    <2>4. QED
      BY <2>1, <2>3, Spoken
  <1>6. CASE Withdraw
    <2>1. UNCHANGED <<gate, vouch, table>> /\ was_advertising' = FALSE
      BY <1>6 DEF Withdraw
    <2>2. standing' \ unsaid' = {}
      BY <1>6 DEF Withdraw, stop_advertising, LoopInv, NoGhost
    <2>3. QED
      BY <2>1, <2>2, Afresh DEF LoopInv
  <1>7. CASE Announce
    <2>1. UNCHANGED <<gate, vouch, table, instance, was_advertising>>
      BY <1>7 DEF Announce, browser
    <2>2. NoGhost'
      BY <1>7, <2>1 DEF Announce, announce, LoopInv, NoGhost
    <2>3. QED
      BY <2>1, <2>2, Spoken DEF LoopInv
  <1>8. CASE AskDue \/ Ask(FALSE, FALSE)
    <2>1. PICK due \in BOOLEAN, unicast \in BOOLEAN : Ask(due, unicast)
      BY <1>8 DEF AskDue
    <2>2. (IF refresh_now THEN Empty ELSE table) \in Tables
      BY EmptyTable DEF LoopInv
    <2>3. table' \in Tables
      BY <2>1, <2>2, OwingTable DEF Ask, query
    <2>4. QED
      BY <2>1, <2>3, Aside DEF Ask
  <1>9. CASE LookAny
    <2>1. PICK pop \in Population, probing \in BOOLEAN : Look(pop, probing)
      BY <1>9 DEF LookAny
    <2>2. PICK v \in BOOLEAN : SetGate(v) /\ vouch' = IF v THEN 0 ELSE vouch
      BY <2>1 DEF Look
    <2>3. UNCHANGED <<was_advertising, standing, unsaid, instance>>
      BY <2>1 DEF Look
    <2>4. Clocks' /\ GateBehind'
      BY <2>2, Positive DEF LoopInv, Clocks, GateBehind, SetGate, GateOpened
    <2>5. table' \in Tables
      BY <2>1, OwingTable DEF Look, probe, LoopInv
    <2>6. QED
      BY <2>3, <2>4, <2>5 DEF LoopInv, NoGhost
  <1>10. CASE HearAny
    <2>1. PICK got \in [Peer -> {"none", "ptr", "full", "goodbye"}], granted \in [Peer -> Leases] :
               Hear(got, granted)
      BY <1>10 DEF HearAny
    <2>2. /\ gate' = [gate EXCEPT !.age = IF gate.on THEN Least(@ + 1, LOST_AFTER) ELSE 0]
          /\ vouch' = Least(vouch + 1, LOST_AFTER)
          /\ UNCHANGED <<was_advertising, standing, unsaid, instance>>
      BY <2>1 DEF Hear
    <2>3. Clocks' /\ GateBehind'
      BY <2>2, Positive DEF LoopInv, Clocks, GateBehind, Least
    <2>4. table' \in Tables
      BY <2>1, HeardTable DEF Hear, LoopInv
    <2>5. QED
      BY <2>2, <2>3, <2>4 DEF LoopInv, NoGhost
  <1>11. QED
    BY <1>1, <1>2, <1>3, <1>4, <1>5, <1>6, <1>7, <1>8, <1>9, <1>10

\* The calls of the app and the moves of the world touch none of it.
LEMMA OutsideStep ==
    ASSUME LoopInv,
           \/ SetDiscoverable \/ ResetIdentity \/ RefreshPeers
           \/ LinkDown \/ LinkUp \/ NewAddress \/ SocketFault \/ NotReady
           \/ \E p \in Peer : Leave(p) \/ Return(p)
    PROVE  LoopInv' /\ table' = table
  <1>1. UNCHANGED <<was_advertising, standing, unsaid, instance, gate, vouch, table>>
    BY DEF SetDiscoverable, ResetIdentity, RefreshPeers, LinkDown, LinkUp, NewAddress,
           SocketFault, NotReady, Leave, Return, inside, browser
  <1>2. QED
    BY <1>1, Aside DEF LoopInv

\* The invariant holds throughout.
LEMMA AlwaysLoopInv == Spec => []LoopInv
  <1>1. Init => LoopInv
    BY LoopFirst
  <1>2. LoopInv /\ [Next]_vars => LoopInv'
    <2> SUFFICES ASSUME LoopInv, [Next]_vars PROVE LoopInv'
      OBVIOUS
    <2>1. CASE UNCHANGED vars
      BY <2>1, Aside DEF vars, browser, LoopInv
    <2>2. CASE Next
      BY <2>2, LoopStep, OutsideStep DEF Next
    <2>3. QED
      BY <2>1, <2>2
  <1>3. QED
    BY <1>1, <1>2, PTL DEF Spec

\* An identity that stands is the current one, and it is withdrawn before the
\* loop stops counting as advertising, except where the goodbye could not be
\* sent or the socket that announced it was replaced or lost.
THEOREM NoGhostLeft == Spec => []NoGhost
  <1>1. LoopInv => NoGhost
    BY DEF LoopInv
  <1>2. QED
    BY <1>1, AlwaysLoopInv, PTL

\* What expire may drop: with the gate not ripe, an entry that never said
\* goodbye survives whatever the socket delivered.
LEMMA KeptUnlessRipe ==
    ASSUME NEW e, NEW k \in {"none", "ptr", "full", "goodbye"}, NEW l,
           e.listed, ~e.withdrawn, ~Ripe
    PROVE  Absorb(e, k, l).listed /\ ~Lost(Absorb(e, k, l))
  <1>1. CASE k = "none"
    BY <1>1 DEF Absorb, Lost
  <1>2. CASE k = "goodbye"
    BY <1>2 DEF Absorb, Lost
  <1>3. CASE k \in {"ptr", "full"}
    BY <1>3 DEF Absorb, Lost
  <1>4. QED
    BY <1>1, <1>2, <1>3

\* A peer BLE accounted for within the last LOST_AFTER is not removed for its
\* silence, for any list of peers and any interleaving with new sockets.
THEOREM VouchedPeersStay == Spec => VouchedStays
  <1> DEFINE Stays == \A p \in Peer :
                 (/\ pc = "hear" /\ table[p].listed /\ ~table'[p].listed
                  /\ ~table[p].withdrawn) => vouch >= LOST_AFTER
  <1>1. LoopInv /\ [Next]_vars => [Stays]_vars
    <2> SUFFICES ASSUME LoopInv, Next, NEW p \in Peer, pc = "hear", table[p].listed,
                        ~table'[p].listed, ~table[p].withdrawn
                 PROVE  vouch >= LOST_AFTER
      OBVIOUS
    <2>1. HearAny
      BY OutsideStep DEF Next, Idle, Rebind, Readdress, Settled, Reset, Advertise, Withdraw,
                         Announce, AskDue, Ask, Stale, NotStale, LookAny, Look
    <2>2. PICK got \in [Peer -> {"none", "ptr", "full", "goodbye"}], granted \in [Peer -> Leases] :
               Hear(got, granted)
      BY <2>1 DEF HearAny
    <2>3. table' = Older(Expire([q \in Peer |-> Absorb(table[q], got[q], granted[q])]))
      BY <2>2 DEF Hear
    <2>4. CASE Ripe
      BY <2>4, Positive DEF LoopInv, Clocks, GateBehind, Ripe
    <2>5. CASE ~Ripe
      <3>1. Absorb(table[p], got[p], granted[p]).listed /\ ~Lost(Absorb(table[p], got[p], granted[p]))
        BY <2>5, KeptUnlessRipe
      <3> DEFINE kept == Expire([q \in Peer |-> Absorb(table[q], got[q], granted[q])])
      <3>2. kept[p] = Absorb(table[p], got[p], granted[p])
        BY <3>1 DEF Expire
      <3>3. kept[p].listed
        BY <3>1, <3>2
      <3>4. Older(kept)[p] = [kept[p] EXCEPT !.seen = Least(@ + 1, LOST_AFTER),
                                            !.lease = IF @ = 0 THEN 0 ELSE @ - 1]
        BY <3>3 DEF Older
      <3>5. kept[p] \in Entry
        <4>1. table[p] \in Entry \cup {None}
          BY DEF LoopInv, Tables
        <4>2. kept[p] \in Entry \cup {None}
          BY <3>2, <4>1, AbsorbEntry
        <4>3. QED
          BY <3>3, <4>2 DEF None
      <3>6. Older(kept)[p].listed
        BY <3>4, <3>5 DEF Entry
      <3>7. QED
        BY <2>3, <3>6
    <2>6. QED
      BY <2>4, <2>5
  <1>2. Spec => [][Stays]_vars
    BY <1>1, AlwaysLoopInv, PTL DEF Spec
  <1>3. QED
    BY <1>2 DEF VouchedStays

-----------------------------------------------------------------------------
(* The radio gate.                                                         *)
(*                                                                         *)
(* NotTakenFromUse is about the last step of a pass and is not inductive:  *)
(* what has to be carried along is that no reason read so far was steady,  *)
(* and that a reason found stops the linger before the gate decides.       *)

Names == {"active", "airdrop", "discoverable"}

Bits ==
    /\ seen \in BOOLEAN /\ up \in BOOLEAN /\ hold \in BOOLEAN /\ permitted \in BOOLEAN
    /\ busy \in BOOLEAN /\ yielded \in BOOLEAN /\ everBusy \in BOOLEAN /\ later \in BOOLEAN

Words ==
    /\ want \in {"unset", "0", "1"} /\ policy \in Policies
    /\ gpc \in {"policy", "hold", "write"} \cup Names
    /\ idle \in {"none", "lingering", "over"} /\ applied \in {"none", "0", "1"}

Steady == reasons \subseteq Names /\ steady \subseteq reasons

Bounds == fails \in 0 .. MaxFail /\ meddles \in 0 .. MaxMeddle

\* No reason the pass has read so far was steady, unless it found one.
Reading ==
    /\ gpc = "airdrop" => "active" \notin steady
    /\ gpc = "discoverable" => "active" \notin steady /\ "airdrop" \notin steady
    /\ gpc \in {"hold", "write"} => busy \/ steady = {}
    /\ gpc = "write" /\ busy => everBusy /\ idle = "none"

GateInv == Bits /\ Words /\ Steady /\ Bounds /\ Reading

\* The reasons, by name and in order.
LEMMA OrderFacts ==
    /\ Order[1] = "active" /\ Order[2] = "airdrop" /\ Order[3] = "discoverable"
    /\ DOMAIN Order = 1 .. 3 /\ Len(Order) = 3
    /\ Sources = Names
  <1>1. /\ Order[1] = "active" /\ Order[2] = "airdrop" /\ Order[3] = "discoverable"
        /\ DOMAIN Order = 1 .. 3 /\ Len(Order) = 3
    BY DEF Order
  <1>2. Sources = Names
    BY <1>1 DEF Sources, Names
  <1>3. QED
    BY <1>1, <1>2

\* The state the service starts in.
LEMMA GateFirst == GateInit => GateInv
  <1> SUFFICES ASSUME GateInit PROVE GateInv
    OBVIOUS
  <1>1. Bits /\ Words
    BY DEF GateInit, T!Init, Bits, Words, Policies, Names
  <1>2. Steady /\ Bounds /\ Reading
    BY GateAssumption DEF GateInit, Steady, Bounds, Reading
  <1>3. QED
    BY <1>1, <1>2 DEF GateInv

\* One reason is looked at.
LEMMA FlagStep == ASSUME GateInv, NEW i \in DOMAIN Order, ReadFlag(i) PROVE GateInv'
  <1>1. i \in 1 .. 3
    BY OrderFacts
  <1>2. /\ gpc = Order[i] /\ busy' = (Order[i] \in reasons)
        /\ gpc' = IF busy' THEN "hold" ELSE After(i)
        /\ UNCHANGED <<want, seen, up, policy, reasons, hold, permitted, yielded, everBusy, idle,
                       applied, later, fails, meddles, steady>>
    BY DEF ReadFlag, switch, service, writes
  <1>3. CASE i = 1
    <2>1. /\ gpc = "active" /\ busy' = ("active" \in reasons)
          /\ gpc' = IF busy' THEN "hold" ELSE "airdrop"
      BY <1>2, <1>3, OrderFacts DEF After
    <2>2. Bits' /\ Steady' /\ Bounds'
      BY <1>2, <2>1 DEF GateInv, Bits, Steady, Bounds
    <2>3. Words' /\ Reading'
      BY <1>2, <2>1 DEF GateInv, Words, Steady, Reading, Names
    <2>4. QED
      BY <2>2, <2>3 DEF GateInv
  <1>4. CASE i = 2
    <2>1. /\ gpc = "airdrop" /\ busy' = ("airdrop" \in reasons)
          /\ gpc' = IF busy' THEN "hold" ELSE "discoverable"
      BY <1>2, <1>4, OrderFacts DEF After
    <2>2. Bits' /\ Steady' /\ Bounds'
      BY <1>2, <2>1 DEF GateInv, Bits, Steady, Bounds
    <2>3. Words' /\ Reading'
      BY <1>2, <2>1 DEF GateInv, Words, Steady, Reading, Names
    <2>4. QED
      BY <2>2, <2>3 DEF GateInv
  <1>5. CASE i = 3
    <2>1. /\ gpc = "discoverable" /\ busy' = ("discoverable" \in reasons)
          /\ gpc' = "hold"
      BY <1>2, <1>5, OrderFacts DEF After
    <2>2. Bits' /\ Steady' /\ Bounds'
      BY <1>2, <2>1 DEF GateInv, Bits, Steady, Bounds
    <2>3. Words' /\ Reading'
      BY <1>2, <2>1 DEF GateInv, Words, Steady, Reading, Names
    <2>4. QED
      BY <2>2, <2>3 DEF GateInv
  <1>6. QED
    BY <1>1, <1>3, <1>4, <1>5

\* The other steps of the gate, of tarishd and of the clock.
LEMMA PlainStep ==
    ASSUME GateInv,
           \/ ReadPolicy \/ ReadHold \/ GateWrite \/ GateWriteFails \/ GateSkips
           \/ Meddle \/ Arm \/ Finish \/ Radio \/ Tick
    PROVE  GateInv'
  <1>1. CASE ReadPolicy
    <2>1. Bits'
      BY <1>1 DEF GateInv, Bits, ReadPolicy, switch, service, locals, writes
    <2>2. Words'
      BY <1>1, OrderFacts DEF GateInv, Words, Names, ReadPolicy, switch, service, locals, writes
    <2>3. Steady' /\ Bounds'
      BY <1>1, GateAssumption DEF GateInv, Steady, Bounds, ReadPolicy, switch, service, locals, writes
    <2>4. Reading'
      BY <1>1, OrderFacts DEF GateInv, Bits, Words, Reading, ReadPolicy, switch, service, locals, writes
    <2>5. QED
      BY <2>1, <2>2, <2>3, <2>4 DEF GateInv
  <1>2. CASE ReadHold
    <2>1. Bits'
      BY <1>2 DEF GateInv, Bits, ReadHold, switch, service, locals, writes
    <2>2. Words'
      BY <1>2 DEF GateInv, Words, Names, ReadHold, switch, service, locals, writes
    <2>3. Steady' /\ Bounds'
      BY <1>2, GateAssumption DEF GateInv, Steady, Bounds, ReadHold, switch, service, locals, writes
    <2>4. Reading'
      BY <1>2 DEF GateInv, Bits, Words, Reading, ReadHold, switch, service, locals, writes
    <2>5. QED
      BY <2>1, <2>2, <2>3, <2>4 DEF GateInv
  <1>3. CASE GateWrite
    <2>1. Bits'
      BY <1>3 DEF GateInv, Bits, GateWrite, switch, service, locals, writes, GateWants
    <2>2. Words'
      BY <1>3 DEF GateInv, Words, Names, GateWrite, switch, service, locals, writes, GateWants
    <2>3. Steady' /\ Bounds'
      BY <1>3, GateAssumption DEF GateInv, Steady, Bounds, GateWrite, switch, service, locals, writes, GateWants
    <2>4. Reading'
      BY <1>3 DEF GateInv, Bits, Words, Reading, GateWrite, switch, service, locals, writes, GateWants
    <2>5. QED
      BY <2>1, <2>2, <2>3, <2>4 DEF GateInv
  <1>4. CASE GateWriteFails
    <2>1. Bits'
      BY <1>4 DEF GateInv, Bits, GateWriteFails, switch, service, locals, writes
    <2>2. Words'
      BY <1>4 DEF GateInv, Words, Names, GateWriteFails, switch, service, locals, writes
    <2>3. Steady' /\ Bounds'
      BY <1>4, GateAssumption DEF GateInv, Steady, Bounds, GateWriteFails, switch, service, locals, writes
    <2>4. Reading'
      BY <1>4 DEF GateInv, Bits, Words, Reading, GateWriteFails, switch, service, locals, writes
    <2>5. QED
      BY <2>1, <2>2, <2>3, <2>4 DEF GateInv
  <1>5. CASE GateSkips
    <2>1. Bits'
      BY <1>5 DEF GateInv, Bits, GateSkips, switch, service, locals, writes
    <2>2. Words'
      BY <1>5 DEF GateInv, Words, Names, GateSkips, switch, service, locals, writes
    <2>3. Steady' /\ Bounds'
      BY <1>5, GateAssumption DEF GateInv, Steady, Bounds, GateSkips, switch, service, locals, writes
    <2>4. Reading'
      BY <1>5 DEF GateInv, Bits, Words, Reading, GateSkips, switch, service, locals, writes
    <2>5. QED
      BY <2>1, <2>2, <2>3, <2>4 DEF GateInv
  <1>6. CASE Meddle
    <2>1. Bits'
      BY <1>6 DEF GateInv, Bits, Meddle, switch, service, locals, writes
    <2>2. Words'
      BY <1>6 DEF GateInv, Words, Names, Meddle, switch, service, locals, writes
    <2>3. Steady' /\ Bounds'
      BY <1>6, GateAssumption DEF GateInv, Steady, Bounds, Meddle, switch, service, locals, writes
    <2>4. Reading'
      BY <1>6 DEF GateInv, Bits, Words, Reading, Meddle, switch, service, locals, writes
    <2>5. QED
      BY <2>1, <2>2, <2>3, <2>4 DEF GateInv
  <1>7. CASE Arm
    <2>1. Bits'
      BY <1>7 DEF GateInv, Bits, Arm, switch, service, locals, writes
    <2>2. Words'
      BY <1>7 DEF GateInv, Words, Names, Arm, switch, service, locals, writes
    <2>3. Steady' /\ Bounds'
      BY <1>7, GateAssumption DEF GateInv, Steady, Bounds, Arm, switch, service, locals, writes
    <2>4. Reading'
      BY <1>7 DEF GateInv, Bits, Words, Reading, Arm, switch, service, locals, writes
    <2>5. QED
      BY <2>1, <2>2, <2>3, <2>4 DEF GateInv
  <1>8. CASE Finish
    <2>1. Bits'
      BY <1>8 DEF GateInv, Bits, Finish, switch, service, locals, writes
    <2>2. Words'
      BY <1>8 DEF GateInv, Words, Names, Finish, switch, service, locals, writes
    <2>3. Steady' /\ Bounds'
      BY <1>8, GateAssumption DEF GateInv, Steady, Bounds, Finish, switch, service, locals, writes
    <2>4. Reading'
      BY <1>8 DEF GateInv, Bits, Words, Reading, Finish, switch, service, locals, writes
    <2>5. QED
      BY <2>1, <2>2, <2>3, <2>4 DEF GateInv
  <1>9. CASE Radio
    <2>1. Bits'
      BY <1>9 DEF GateInv, Bits, Radio, switch, service, locals, writes, T!See, T!Raise, T!Lower, T!Die, T!Wanted
    <2>2. Words'
      BY <1>9 DEF GateInv, Words, Names, Radio, switch, service, locals, writes, T!See, T!Raise, T!Lower, T!Die, T!Wanted
    <2>3. Steady' /\ Bounds'
      BY <1>9, GateAssumption DEF GateInv, Steady, Bounds, Radio, switch, service, locals, writes, T!See, T!Raise, T!Lower, T!Die, T!Wanted
    <2>4. Reading'
      BY <1>9 DEF GateInv, Bits, Words, Reading, Radio, switch, service, locals, writes, T!See, T!Raise, T!Lower, T!Die, T!Wanted
    <2>5. QED
      BY <2>1, <2>2, <2>3, <2>4 DEF GateInv
  <1>10. CASE Tick
    <2>1. Bits'
      BY <1>10 DEF GateInv, Bits, Tick, switch, service, locals, writes
    <2>2. Words'
      BY <1>10 DEF GateInv, Words, Names, Tick, switch, service, locals, writes
    <2>3. Steady' /\ Bounds'
      BY <1>10, GateAssumption DEF GateInv, Steady, Bounds, Tick, switch, service, locals, writes
    <2>4. Reading'
      BY <1>10 DEF GateInv, Bits, Words, Reading, Tick, switch, service, locals, writes
    <2>5. QED
      BY <2>1, <2>2, <2>3, <2>4 DEF GateInv
  <1>11. QED
    BY <1>1, <1>2, <1>3, <1>4, <1>5, <1>6, <1>7, <1>8, <1>9, <1>10

\* A reason comes or goes: one that goes is no longer steady, one that comes
\* was not there all along.
LEMMA ReasonStep ==
    ASSUME GateInv, NEW r \in Names, NEW on \in BOOLEAN, Flag(r, on), policy' \in Policies,
           UNCHANGED <<switch, hold, gpc, locals, writes>>
    PROVE  GateInv'
  <1>1. Bits' /\ Words' /\ Bounds'
    BY DEF GateInv, Bits, Words, Bounds, switch, locals, writes
  <1>2. Steady'
    BY DEF GateInv, Steady, Flag
  <1>3. Reading'
    BY DEF GateInv, Reading, Flag, switch, locals, writes
  <1>4. QED
    BY <1>1, <1>2, <1>3 DEF GateInv

\* The binder calls.
LEMMA ServiceStep == ASSUME GateInv, Service PROVE GateInv'
  <1>1. ASSUME NEW on \in BOOLEAN, setActive(on) PROVE GateInv'
    BY <1>1, ReasonStep DEF setActive, GateInv, Words, Names
  <1>2. ASSUME NEW on \in BOOLEAN, setDiscoverable(on) PROVE GateInv'
    BY <1>2, ReasonStep DEF setDiscoverable, GateInv, Words, Names
  <1>3. ASSUME NEW on \in BOOLEAN, AirDrop(on) PROVE GateInv'
    BY <1>3, ReasonStep DEF AirDrop, GateInv, Words, Names
  <1>4. ASSUME NEW p \in Policies, setPolicy(p) PROVE GateInv'
    <2>1. CASE p = "both"
      <3>1. policy' = p /\ UNCHANGED <<reasons, steady, switch, hold, gpc, locals, writes>>
        BY <1>4, <2>1 DEF setPolicy
      <3>2. QED
        BY <3>1 DEF GateInv, Bits, Words, Steady, Bounds, Reading, switch, locals, writes
    <2>2. CASE p # "both"
      BY <1>4, <2>2, ReasonStep DEF setPolicy, Names
    <2>3. QED
      BY <2>1, <2>2
  <1>5. QED
    BY <1>1, <1>2, <1>3, <1>4 DEF Service

\* The invariant holds throughout.
LEMMA AlwaysGateInv == GateSpec => []GateInv
  <1>1. GateInit => GateInv
    BY GateFirst
  <1>2. GateInv /\ [GateNext]_gateVars => GateInv'
    <2> SUFFICES ASSUME GateInv, [GateNext]_gateVars PROVE GateInv'
      OBVIOUS
    <2>1. CASE UNCHANGED gateVars
      BY <2>1 DEF gateVars, GateInv, Bits, Words, Steady, Bounds, Reading
    <2>2. CASE Gate
      BY <2>2, FlagStep, PlainStep DEF Gate
    <2>3. CASE Service
      BY <2>3, ServiceStep
    <2>4. CASE Meddle \/ Arm \/ Finish \/ Radio \/ Tick
      BY <2>4, PlainStep
    <2>5. QED
      BY <2>1, <2>2, <2>3, <2>4 DEF GateNext
  <1>3. QED
    BY <1>1, <1>2, PTL DEF GateSpec

\* Every variable of the gate has its type; a reason counted as steady is
\* always one that holds now.
THEOREM GateTyped == GateSpec => []GateTypeOK
  <1>1. GateInv => GateTypeOK
    BY OrderFacts DEF GateInv, Bits, Words, Steady, Bounds, GateTypeOK
  <1>2. QED
    BY <1>1, AlwaysGateInv, PTL

\* A reason that holds from the beginning of a pass to its decision keeps the
\* radio, unless AirDrop is forbidden or a transfer needs the radio away.
THEOREM UseIsNotOverlooked == GateSpec => []NotTakenFromUse
  <1>1. GateInv => NotTakenFromUse
    BY DEF GateInv, Bits, Words, Reading, NotTakenFromUse, GateWants
  <1>2. QED
    BY <1>1, AlwaysGateInv, PTL

-----------------------------------------------------------------------------
(* The two ends of a transfer over the LAN *)

\* The effects the two machines ask for: a frame to say, an end to make, a step
\* that is about the files.
Utter(t) == [effect |-> "send", frame |-> [type |-> t, files |-> {}]]
Finally(e) == [effect |-> e, frame |-> [type |-> "none", files |-> {}]]
With(e) == [effect |-> e, frame |-> [type |-> "introduction", files |-> Files]]

\* The queues they come in, the sender's first.
GreetAll == <<Utter("paired_key_encryption"), Utter("paired_key_result"), With("send")>>
GreetTwo == <<Utter("paired_key_result"), With("send")>>
GreetIntro == <<With("send")>>
BeginOnly == <<With("begin_sending")>>
DoneOnly == <<Finally("done")>>
CancelOnly == <<Finally("cancelled")>>
TellCancel == <<Utter("cancel"), Finally("cancelled")>>
BeginTellCancel == <<With("begin_sending"), Utter("cancel"), Finally("cancelled")>>

ClaimOnly == <<Utter("paired_key_encryption")>>
VerdictOnly == <<Utter("paired_key_result")>>
AskOnly == <<With("ask_user")>>
AcceptReceive == <<Utter("accept"), With("begin_receiving")>>
ReceiveOnly == <<With("begin_receiving")>>
RefuseDone == <<Utter("refuse"), Finally("done")>>
VerdictTellCancel == <<Utter("paired_key_result"), Utter("cancel"), Finally("cancelled")>>
AskTellCancel == <<With("ask_user"), Utter("cancel"), Finally("cancelled")>>
AcceptTellCancel ==
    <<Utter("accept"), With("begin_receiving"), Utter("cancel"), Finally("cancelled")>>
ReceiveTellCancel == <<With("begin_receiving"), Utter("cancel"), Finally("cancelled")>>

\* The frames the sender opens with, before it hears anything.
Greeting == <<[type |-> "paired_key_encryption", files |-> {}],
              [type |-> "paired_key_result", files |-> {}],
              [type |-> "introduction", files |-> Files]>>

\* Where the sender's loop can be: its place, the machine's state, the effects
\* being performed and those queued behind them.
SenderAt(p, m, b, q) == s_pc = p /\ s_fsm = m /\ s_batch = b /\ s_pending = q

SenderGreets ==
    \/ SenderAt("effects", "Introduction", GreetAll, <<>>)
    \/ SenderAt("effects", "Introduction", GreetTwo, <<>>)
    \/ SenderAt("effects", "Introduction", GreetIntro, <<>>)
    \/ SenderAt("effects", "Introduction", <<>>, <<>>)
    \/ SenderAt("read", "Introduction", <<>>, <<>>)

SenderStreams ==
    \/ SenderAt("effects", "Transferring", <<>>, BeginOnly)
    \/ SenderAt("effects", "Transferring", BeginOnly, <<>>)
    \/ SenderAt("streaming", "Transferring", <<>>, <<>>)

\* A cancel noticed between the acceptance and the stream is told only after
\* the stream was entered and left, with nothing written.
SenderEnds ==
    \/ SenderAt("effects", "Done", <<>>, DoneOnly)
    \/ SenderAt("effects", "Done", DoneOnly, <<>>)
    \/ SenderAt("effects", "Cancelled", <<>>, CancelOnly)
    \/ SenderAt("effects", "Cancelled", <<>>, TellCancel)
    \/ SenderAt("effects", "Cancelled", CancelOnly, <<>>)
    \/ SenderAt("effects", "Cancelled", TellCancel, <<>>)
    \/ SenderAt("effects", "Cancelled", BeginTellCancel, <<>>)
    \/ SenderAt("streaming", "Cancelled", TellCancel, <<>>)

SenderPlace ==
    \/ SenderGreets \/ SenderStreams \/ SenderEnds
    \/ s_pc = "over" /\ s_fsm \in {"Introduction", "Transferring", "Done", "Cancelled"}

\* How far it got tells how it may end.
SenderData ==
    /\ s_deferred = <<>> /\ s_deadline = FALSE /\ s_cancelled \in BOOLEAN
    /\ s_sent \subseteq s_begun /\ s_begun \subseteq Files
    /\ s_fsm = "Introduction" => s_begun = {}
    /\ s_pc = "effects" /\ s_fsm = "Transferring" => s_begun = {}
    /\ s_fsm = "Cancelled" => s_sent # Files
    /\ s_pc = "effects" /\ s_batch = BeginTellCancel => s_begun = {} /\ s_cancelled
    /\ s_pc = "streaming" /\ s_fsm = "Cancelled" => s_begun = {} /\ s_cancelled
    /\ s_outcome = "false" => s_pc = "over" /\ s_fsm \in {"Introduction", "Cancelled"}
    /\ s_outcome = "true" => s_pc = "over" /\ s_fsm = "Done"

SenderPart == SenderPlace /\ SenderData

\* Where the receiver's loop can be.
ReceiverAt(p, m, b, q) == r_pc = p /\ r_fsm = m /\ r_batch = b /\ r_pending = q

ReceiverGreets ==
    \/ ReceiverAt("effects", "PairedKey", ClaimOnly, <<>>)
    \/ ReceiverAt("effects", "PairedKey", <<>>, <<>>)
    \/ ReceiverAt("read", "PairedKey", <<>>, <<>>)
    \/ ReceiverAt("effects", "PairedKey", <<>>, VerdictOnly)
    \/ ReceiverAt("effects", "PairedKey", VerdictOnly, <<>>)
    \/ ReceiverAt("effects", "Introduction", <<>>, <<>>)
    \/ ReceiverAt("read", "Introduction", <<>>, <<>>)
    \/ ReceiverAt("effects", "AwaitingUser", <<>>, AskOnly)
    \/ ReceiverAt("effects", "AwaitingUser", AskOnly, <<>>)
    \/ ReceiverAt("asking", "AwaitingUser", <<>>, <<>>)

ReceiverTakes ==
    \/ ReceiverAt("effects", "Transferring", <<>>, AcceptReceive)
    \/ ReceiverAt("effects", "Transferring", AcceptReceive, <<>>)
    \/ ReceiverAt("effects", "Transferring", ReceiveOnly, <<>>)
    \/ ReceiverAt("effects", "Transferring", <<>>, <<>>)
    \/ ReceiverAt("read", "Transferring", <<>>, <<>>)

\* A refusal is queued only while nothing was approved.
ReceiverEnds ==
    \/ ReceiverAt("effects", "Done", <<>>, RefuseDone) /\ r_approved = {}
    \/ ReceiverAt("effects", "Done", RefuseDone, <<>>) /\ r_approved = {}
    \/ ReceiverAt("effects", "Done", <<>>, DoneOnly)
    \/ ReceiverAt("effects", "Done", DoneOnly, <<>>)
    \/ ReceiverAt("effects", "Cancelled", <<>>, CancelOnly)
    \/ ReceiverAt("effects", "Cancelled", CancelOnly, <<>>)
    \/ ReceiverAt("effects", "Cancelled", TellCancel, <<>>)
    \/ ReceiverAt("effects", "Cancelled", VerdictTellCancel, <<>>)
    \/ ReceiverAt("effects", "Cancelled", AskTellCancel, <<>>)
    \/ ReceiverAt("effects", "Cancelled", AcceptTellCancel, <<>>)
    \/ ReceiverAt("effects", "Cancelled", ReceiveTellCancel, <<>>)
    \/ ReceiverAt("asking", "Cancelled", TellCancel, <<>>)

ReceiverStates ==
    {"PairedKey", "Introduction", "AwaitingUser", "Transferring", "Done", "Cancelled"}

ReceiverPlace ==
    \/ ReceiverGreets \/ ReceiverTakes \/ ReceiverEnds
    \/ r_pc = "over" /\ r_fsm \in ReceiverStates

\* The sender has returned, with the machine done or not a byte of payload sent.
Left == s_pc = "over" /\ s_fsm \in {"Introduction", "Done"}

\* Nothing is in the inbox before the person said yes; from then on a file is
\* expected until it is whole; and the machine is done when none is expected.
ReceiverData ==
    /\ r_deferred = <<>> /\ r_cancelled \in BOOLEAN
    /\ r_fsm \in {"PairedKey", "Introduction", "AwaitingUser"} =>
          r_written = {} /\ r_approved = {}
    /\ r_fsm \in {"AwaitingUser", "Transferring"} => r_introduction = Files
    /\ r_pc # "over" /\ r_fsm = "Transferring" /\ r_batch = <<>> /\ r_pending = <<>> =>
          Files \subseteq r_expected \cup r_whole
    /\ r_fsm = "Done" => (r_approved = {} /\ r_written = {}) \/ Files \subseteq r_whole
    /\ r_outcome = "received" => r_fsm = "Done" \/ Left

ReceiverPart == ReceiverPlace /\ ReceiverData

\* The wires carry frames about the files.
LetterTypes == {"paired_key_encryption", "paired_key_result", "introduction", "chunk",
                "last_chunk", "cancel", "disconnect", "disconnect_safe"}
Replies == {"paired_key_encryption", "paired_key_result", "accept", "refuse", "cancel",
            "disconnect", "disconnect_safe"}
PairFrames == [type : LetterTypes \cup Replies, files : SUBSET Files]

\* A frame of the sender: payload of files begun or sent, and a farewell only
\* from one that has left.
Letter(f, begun, sent, left) ==
    /\ f \in PairFrames
    /\ f.type \in LetterTypes
    /\ f.type = "chunk" => f.files \subseteq begun
    /\ f.type = "last_chunk" => f.files \subseteq sent
    /\ f.type \in {"disconnect", "disconnect_safe"} => left

Letters(q, begun, sent, left) ==
    q \in Seq(PairFrames) /\ \A i \in 1 .. Len(q) : Letter(q[i], begun, sent, left)

\* With n frames of the greeting read, the rest of it comes first, and nothing
\* is introduced again.
Unread(q, n) ==
    \A i \in 1 .. Len(q) : /\ n + i =< 3 => q[i] = Greeting[n + i]
                           /\ n + i > 3 => q[i].type # "introduction"

\* How many of them the sender has written, going by what it still has to do.
Stage(b) == IF b = GreetAll THEN 0 ELSE IF b = GreetTwo THEN 1 ELSE IF b = GreetIntro THEN 2 ELSE 3

Sofar(g, n, len) == IF g < 3 THEN n + len = g ELSE n + len >= 3

\* How many of them the receiver has read, going by the state of its machine.
HasRead(m, n) ==
    /\ m = "PairedKey" => n \in {0, 1}
    /\ m = "Introduction" => n = 2
    /\ m \in {"AwaitingUser", "Transferring"} => n = 3

Listening == r_pc # "over" /\ r_fsm \notin {"Done", "Cancelled"}

Expecting(n) ==
    /\ HasRead(r_fsm, n) /\ Unread(toReceiver, n)
    /\ s_pc # "over" => Sofar(Stage(s_batch), n, Len(toReceiver))

ToReceiver ==
    /\ Letters(toReceiver, s_begun, s_sent, Left)
    /\ Listening => \E n \in 0 .. 3 : Expecting(n)

\* The person said no, and that is final.
TurnedDown == r_fsm = "Done" /\ r_approved = {}

\* A reply of the receiver: a refusal only once the person said no.
Reply(f, no) == f.type \in Replies /\ (f.type = "refuse" => no)

ToTheSender ==
    /\ toSender \in Seq(PairFrames)
    /\ \A i \in 1 .. Len(toSender) : Reply(toSender[i], TurnedDown)

\* The sender is done because everything went, or because it was turned down.
Finishes == s_fsm = "Done" => s_sent = Files \/ TurnedDown

\* What the receiver holds, the sender has put on the wire.
Harvest == r_whole \subseteq s_sent /\ r_written \subseteq s_begun

PairInv == SenderPart /\ ReceiverPart /\ ToReceiver /\ ToTheSender /\ Finishes /\ Harvest

-----------------------------------------------------------------------------
(* The queues of effects, and what the machines add to them *)

\* Short queues joined.
LEMMA JoinOne ==
  ASSUME NEW a
  PROVE  <<>> \o <<a>> = <<a>> /\ <<a>> \o <<>> = <<a>>
  OBVIOUS

\* The same of two.
LEMMA JoinTwo ==
  ASSUME NEW a, NEW b
  PROVE  <<>> \o <<a, b>> = <<a, b>> /\ <<a, b>> \o <<>> = <<a, b>>
  OBVIOUS

\* A queue of one and a queue of two.
LEMMA JoinThree ==
  ASSUME NEW a, NEW c, NEW d
  PROVE  <<a>> \o <<c, d>> = <<a, c, d>>
<1> DEFINE E == {a, c, d}
           p == <<a>>
           q == <<c, d>>
           r == <<a, c, d>>
<1>1. p \in Seq(E) /\ q \in Seq(E) /\ r \in Seq(E)
  OBVIOUS
<1>2. Len(p) = 1 /\ Len(q) = 2 /\ Len(r) = 3
  OBVIOUS
<1>3. p[1] = a /\ q[1] = c /\ q[2] = d /\ r[1] = a /\ r[2] = c /\ r[3] = d
  OBVIOUS
<1> HIDE DEF E, p, q, r
<1>4. /\ p \o q \in Seq(E) /\ Len(p \o q) = 3
      /\ \A i \in 1 .. 3 : (p \o q)[i] = IF i =< 1 THEN p[i] ELSE q[i - 1]
  <2>1. /\ p \o q \in Seq(E) /\ Len(p \o q) = Len(p) + Len(q)
        /\ \A i \in 1 .. Len(p) + Len(q) :
              (p \o q)[i] = IF i <= Len(p) THEN p[i] ELSE q[i - Len(p)]
    BY <1>1, ConcatProperties, Zenon
  <2>2. Len(p) + Len(q) = 3
    BY <1>2
  <2> QED BY <1>2, <2>1, <2>2
<1>5. \A i \in 1 .. 3 : (p \o q)[i] = r[i]
  <2>1. (p \o q)[1] = a /\ (p \o q)[2] = c /\ (p \o q)[3] = d
    BY <1>3, <1>4
  <2>2. \A i \in 1 .. 3 : i = 1 \/ i = 2 \/ i = 3
    OBVIOUS
  <2> QED BY <1>3, <2>1, <2>2
<1>6. p \o q = r
  BY <1>1, <1>2, <1>4, <1>5, SeqEqual
<1> QED BY <1>6 DEF p, q, r

\* Two queues of two.
LEMMA JoinFour ==
  ASSUME NEW a, NEW b, NEW c, NEW d
  PROVE  <<a, b>> \o <<c, d>> = <<a, b, c, d>>
<1> DEFINE E == {a, b, c, d}
           p == <<a, b>>
           q == <<c, d>>
           r == <<a, b, c, d>>
<1>1. p \in Seq(E) /\ q \in Seq(E) /\ r \in Seq(E)
  OBVIOUS
<1>2. Len(p) = 2 /\ Len(q) = 2 /\ Len(r) = 4
  OBVIOUS
<1>3. /\ p[1] = a /\ p[2] = b /\ q[1] = c /\ q[2] = d
      /\ r[1] = a /\ r[2] = b /\ r[3] = c /\ r[4] = d
  OBVIOUS
<1> HIDE DEF E, p, q, r
<1>4. /\ p \o q \in Seq(E) /\ Len(p \o q) = 4
      /\ \A i \in 1 .. 4 : (p \o q)[i] = IF i =< 2 THEN p[i] ELSE q[i - 2]
  <2>1. /\ p \o q \in Seq(E) /\ Len(p \o q) = Len(p) + Len(q)
        /\ \A i \in 1 .. Len(p) + Len(q) :
              (p \o q)[i] = IF i <= Len(p) THEN p[i] ELSE q[i - Len(p)]
    BY <1>1, ConcatProperties, Zenon
  <2>2. Len(p) + Len(q) = 4
    BY <1>2
  <2> QED BY <1>2, <2>1, <2>2
<1>5. \A i \in 1 .. 4 : (p \o q)[i] = r[i]
  <2>1. (p \o q)[1] = a /\ (p \o q)[2] = b /\ (p \o q)[3] = c /\ (p \o q)[4] = d
    BY <1>3, <1>4
  <2>2. \A i \in 1 .. 4 : i = 1 \/ i = 2 \/ i = 3 \/ i = 4
    OBVIOUS
  <2> QED BY <1>3, <2>1, <2>2
<1>6. p \o q = r
  BY <1>1, <1>2, <1>4, <1>5, SeqEqual
<1> QED BY <1>6 DEF p, q, r

\* What an effect asks for.
LEMMA EffectFacts ==
  /\ \A t : Utter(t).effect = "send" /\ Utter(t).frame = [type |-> t, files |-> {}]
  /\ \A e : /\ Finally(e).effect = e /\ With(e).effect = e
            /\ With(e).frame = [type |-> "introduction", files |-> Files]
  BY DEF Utter, Finally, With

\* The sender's queues: what comes first and what is left.
LEMMA SenderQueues ==
  /\ GreetAll # <<>> /\ Head(GreetAll).effect = "send" /\ Tail(GreetAll) = GreetTwo
  /\ GreetTwo # <<>> /\ Head(GreetTwo).effect = "send" /\ Tail(GreetTwo) = GreetIntro
  /\ GreetIntro # <<>> /\ Head(GreetIntro).effect = "send" /\ Tail(GreetIntro) = <<>>
  /\ Head(GreetAll).frame = Greeting[1]
  /\ Head(GreetTwo).frame = Greeting[2]
  /\ Head(GreetIntro).frame = Greeting[3]
  /\ BeginOnly # <<>> /\ Head(BeginOnly).effect = "begin_sending" /\ Tail(BeginOnly) = <<>>
  /\ DoneOnly # <<>> /\ Head(DoneOnly).effect = "done"
  /\ CancelOnly # <<>> /\ Head(CancelOnly).effect = "cancelled"
  /\ TellCancel # <<>> /\ Head(TellCancel).effect = "send" /\ Tail(TellCancel) = CancelOnly
  /\ Head(TellCancel).frame = [type |-> "cancel", files |-> {}]
  /\ BeginTellCancel # <<>> /\ Head(BeginTellCancel).effect = "begin_sending"
  /\ Tail(BeginTellCancel) = TellCancel
<1>1. /\ Greeting[1] = [type |-> "paired_key_encryption", files |-> {}]
      /\ Greeting[2] = [type |-> "paired_key_result", files |-> {}]
      /\ Greeting[3] = [type |-> "introduction", files |-> Files]
  BY DEF Greeting
<1>2. /\ GreetAll # <<>> /\ Head(GreetAll).effect = "send" /\ Tail(GreetAll) = GreetTwo
      /\ Head(GreetAll).frame = Greeting[1]
  BY <1>1, EffectFacts DEF GreetAll, GreetTwo
<1>3. /\ GreetTwo # <<>> /\ Head(GreetTwo).effect = "send" /\ Tail(GreetTwo) = GreetIntro
      /\ Head(GreetTwo).frame = Greeting[2]
  BY <1>1, EffectFacts DEF GreetTwo, GreetIntro
<1>4. /\ GreetIntro # <<>> /\ Head(GreetIntro).effect = "send" /\ Tail(GreetIntro) = <<>>
      /\ Head(GreetIntro).frame = Greeting[3]
  BY <1>1, EffectFacts DEF GreetIntro
<1>5. /\ BeginOnly # <<>> /\ Head(BeginOnly).effect = "begin_sending" /\ Tail(BeginOnly) = <<>>
      /\ DoneOnly # <<>> /\ Head(DoneOnly).effect = "done"
      /\ CancelOnly # <<>> /\ Head(CancelOnly).effect = "cancelled"
  BY EffectFacts DEF BeginOnly, DoneOnly, CancelOnly
<1>6. /\ TellCancel # <<>> /\ Head(TellCancel).effect = "send" /\ Tail(TellCancel) = CancelOnly
      /\ Head(TellCancel).frame = [type |-> "cancel", files |-> {}]
  BY EffectFacts DEF TellCancel, CancelOnly
<1>7. /\ BeginTellCancel # <<>> /\ Head(BeginTellCancel).effect = "begin_sending"
      /\ Tail(BeginTellCancel) = TellCancel
  BY EffectFacts DEF BeginTellCancel, TellCancel
<1> QED BY <1>2, <1>3, <1>4, <1>5, <1>6, <1>7

\* They are told apart by how they begin.
LEMMA SenderStages ==
  /\ Stage(GreetAll) = 0 /\ Stage(GreetTwo) = 1 /\ Stage(GreetIntro) = 2 /\ Stage(<<>>) = 3
  /\ Stage(BeginOnly) = 3 /\ Stage(DoneOnly) = 3 /\ Stage(CancelOnly) = 3
  /\ Stage(TellCancel) = 3 /\ Stage(BeginTellCancel) = 3
  /\ BeginTellCancel \notin {<<>>, GreetAll, GreetTwo, GreetIntro, BeginOnly, DoneOnly,
                             CancelOnly, TellCancel}
<1>1. /\ Greeting[1].type = "paired_key_encryption" /\ Greeting[2].type = "paired_key_result"
      /\ Greeting[3].type = "introduction"
  BY DEF Greeting
<1>2. BeginTellCancel # BeginOnly
  <2>1. TellCancel # <<>>
    BY SenderQueues
  <2> QED BY <2>1, SenderQueues
<1>3. /\ GreetAll # GreetTwo /\ GreetAll # GreetIntro /\ GreetTwo # GreetIntro
  BY <1>1, SenderQueues
<1>4. /\ <<>> \notin {GreetAll, GreetTwo, GreetIntro}
      /\ BeginOnly \notin {GreetAll, GreetTwo, GreetIntro}
      /\ DoneOnly \notin {GreetAll, GreetTwo, GreetIntro}
      /\ CancelOnly \notin {GreetAll, GreetTwo, GreetIntro}
      /\ TellCancel \notin {GreetAll, GreetTwo, GreetIntro}
      /\ BeginTellCancel \notin {GreetAll, GreetTwo, GreetIntro}
      /\ BeginTellCancel \notin {<<>>, DoneOnly, CancelOnly, TellCancel}
  <2>1. [type |-> "cancel", files |-> {}].type = "cancel"
    OBVIOUS
  <2> QED BY <1>1, <2>1, SenderQueues
<1> QED BY <1>2, <1>3, <1>4 DEF Stage

\* The receiver's queues: what comes first and what is left.
LEMMA ReceiverQueues ==
  /\ ClaimOnly # <<>> /\ Head(ClaimOnly).effect = "send" /\ Tail(ClaimOnly) = <<>>
  /\ Head(ClaimOnly).frame = [type |-> "paired_key_encryption", files |-> {}]
  /\ VerdictOnly # <<>> /\ Head(VerdictOnly).effect = "send" /\ Tail(VerdictOnly) = <<>>
  /\ Head(VerdictOnly).frame = [type |-> "paired_key_result", files |-> {}]
  /\ AskOnly # <<>> /\ Head(AskOnly).effect = "ask_user" /\ Tail(AskOnly) = <<>>
  /\ AcceptReceive # <<>> /\ Head(AcceptReceive).effect = "send"
  /\ Tail(AcceptReceive) = ReceiveOnly
  /\ Head(AcceptReceive).frame = [type |-> "accept", files |-> {}]
  /\ ReceiveOnly # <<>> /\ Head(ReceiveOnly).effect = "begin_receiving"
  /\ Tail(ReceiveOnly) = <<>>
  /\ Head(ReceiveOnly).frame = [type |-> "introduction", files |-> Files]
  /\ RefuseDone # <<>> /\ Head(RefuseDone).effect = "send" /\ Tail(RefuseDone) = DoneOnly
  /\ Head(RefuseDone).frame = [type |-> "refuse", files |-> {}]
  /\ VerdictTellCancel # <<>> /\ Head(VerdictTellCancel).effect = "send"
  /\ Tail(VerdictTellCancel) = TellCancel
  /\ Head(VerdictTellCancel).frame = [type |-> "paired_key_result", files |-> {}]
  /\ AskTellCancel # <<>> /\ Head(AskTellCancel).effect = "ask_user"
  /\ Tail(AskTellCancel) = TellCancel
  /\ AcceptTellCancel # <<>> /\ Head(AcceptTellCancel).effect = "send"
  /\ Tail(AcceptTellCancel) = ReceiveTellCancel
  /\ Head(AcceptTellCancel).frame = [type |-> "accept", files |-> {}]
  /\ ReceiveTellCancel # <<>> /\ Head(ReceiveTellCancel).effect = "begin_receiving"
  /\ Tail(ReceiveTellCancel) = TellCancel
<1>1. /\ ClaimOnly # <<>> /\ Head(ClaimOnly).effect = "send" /\ Tail(ClaimOnly) = <<>>
      /\ Head(ClaimOnly).frame = [type |-> "paired_key_encryption", files |-> {}]
      /\ VerdictOnly # <<>> /\ Head(VerdictOnly).effect = "send" /\ Tail(VerdictOnly) = <<>>
      /\ Head(VerdictOnly).frame = [type |-> "paired_key_result", files |-> {}]
      /\ AskOnly # <<>> /\ Head(AskOnly).effect = "ask_user" /\ Tail(AskOnly) = <<>>
  BY EffectFacts DEF ClaimOnly, VerdictOnly, AskOnly
<1>2. /\ AcceptReceive # <<>> /\ Head(AcceptReceive).effect = "send"
      /\ Tail(AcceptReceive) = ReceiveOnly
      /\ Head(AcceptReceive).frame = [type |-> "accept", files |-> {}]
      /\ ReceiveOnly # <<>> /\ Head(ReceiveOnly).effect = "begin_receiving"
      /\ Tail(ReceiveOnly) = <<>>
      /\ Head(ReceiveOnly).frame = [type |-> "introduction", files |-> Files]
  BY EffectFacts DEF AcceptReceive, ReceiveOnly
<1>3. /\ RefuseDone # <<>> /\ Head(RefuseDone).effect = "send" /\ Tail(RefuseDone) = DoneOnly
      /\ Head(RefuseDone).frame = [type |-> "refuse", files |-> {}]
  BY EffectFacts DEF RefuseDone, DoneOnly
<1>4. /\ VerdictTellCancel # <<>> /\ Head(VerdictTellCancel).effect = "send"
      /\ Tail(VerdictTellCancel) = TellCancel
      /\ Head(VerdictTellCancel).frame = [type |-> "paired_key_result", files |-> {}]
      /\ AskTellCancel # <<>> /\ Head(AskTellCancel).effect = "ask_user"
      /\ Tail(AskTellCancel) = TellCancel
  BY EffectFacts DEF VerdictTellCancel, AskTellCancel, TellCancel
<1>5. /\ AcceptTellCancel # <<>> /\ Head(AcceptTellCancel).effect = "send"
      /\ Tail(AcceptTellCancel) = ReceiveTellCancel
      /\ Head(AcceptTellCancel).frame = [type |-> "accept", files |-> {}]
      /\ ReceiveTellCancel # <<>> /\ Head(ReceiveTellCancel).effect = "begin_receiving"
      /\ Tail(ReceiveTellCancel) = TellCancel
  BY EffectFacts DEF AcceptTellCancel, ReceiveTellCancel, TellCancel
<1> QED BY <1>1, <1>2, <1>3, <1>4, <1>5

\* What a cancel adds to what was queued.
LEMMA QueuesJoined ==
  /\ <<>> \o <<>> = <<>>
  /\ <<>> \o BeginOnly = BeginOnly /\ BeginOnly \o <<>> = BeginOnly
  /\ <<>> \o DoneOnly = DoneOnly /\ DoneOnly \o <<>> = DoneOnly
  /\ <<>> \o CancelOnly = CancelOnly /\ CancelOnly \o <<>> = CancelOnly
  /\ <<>> \o TellCancel = TellCancel /\ TellCancel \o <<>> = TellCancel
  /\ <<>> \o VerdictOnly = VerdictOnly
  /\ <<>> \o AskOnly = AskOnly
  /\ <<>> \o AcceptReceive = AcceptReceive
  /\ <<>> \o RefuseDone = RefuseDone /\ RefuseDone \o <<>> = RefuseDone
  /\ BeginOnly \o TellCancel = BeginTellCancel
  /\ VerdictOnly \o TellCancel = VerdictTellCancel
  /\ AskOnly \o TellCancel = AskTellCancel
  /\ AcceptReceive \o TellCancel = AcceptTellCancel
<1>1. <<>> \o <<>> = <<>>
  OBVIOUS
<1>2. /\ <<>> \o BeginOnly = BeginOnly /\ BeginOnly \o <<>> = BeginOnly
      /\ <<>> \o DoneOnly = DoneOnly /\ DoneOnly \o <<>> = DoneOnly
      /\ <<>> \o CancelOnly = CancelOnly /\ CancelOnly \o <<>> = CancelOnly
      /\ <<>> \o VerdictOnly = VerdictOnly /\ <<>> \o AskOnly = AskOnly
  BY JoinOne, Zenon DEF BeginOnly, DoneOnly, CancelOnly, VerdictOnly, AskOnly
<1>3. /\ <<>> \o TellCancel = TellCancel /\ TellCancel \o <<>> = TellCancel
      /\ <<>> \o AcceptReceive = AcceptReceive
      /\ <<>> \o RefuseDone = RefuseDone /\ RefuseDone \o <<>> = RefuseDone
  BY JoinTwo, Zenon DEF TellCancel, AcceptReceive, RefuseDone
<1>4. /\ BeginOnly \o TellCancel = BeginTellCancel
      /\ VerdictOnly \o TellCancel = VerdictTellCancel
      /\ AskOnly \o TellCancel = AskTellCancel
  BY JoinThree, Zenon DEF BeginOnly, VerdictOnly, AskOnly, TellCancel, BeginTellCancel,
                            VerdictTellCancel, AskTellCancel
<1>5. AcceptReceive \o TellCancel = AcceptTellCancel
  BY JoinFour, Zenon DEF AcceptReceive, TellCancel, AcceptTellCancel
<1> QED BY <1>1, <1>2, <1>3, <1>4, <1>5

\* The machines' words for them.
LEMMA MachineWords ==
  /\ <<Snd!BeginSending(Files)>> = BeginOnly
  /\ <<Snd!Effect("done")>> = DoneOnly /\ <<Rcv!Effect("done")>> = DoneOnly
  /\ <<Snd!Effect("cancelled")>> = CancelOnly /\ <<Rcv!Effect("cancelled")>> = CancelOnly
  /\ <<Snd!SendEffect(Snd!Frame("cancel")), Snd!Effect("cancelled")>> = TellCancel
  /\ <<Rcv!SendEffect(Rcv!Frame("cancel")), Rcv!Effect("cancelled")>> = TellCancel
  /\ <<Rcv!SendEffect(Rcv!Frame("paired_key_result"))>> = VerdictOnly
  /\ <<Rcv!AskUser(Files)>> = AskOnly
  /\ <<Rcv!SendEffect(Rcv!Frame("accept")), Rcv!BeginReceiving(Files)>> = AcceptReceive
  /\ <<Rcv!SendEffect(Rcv!Frame("refuse")), Rcv!Effect("done")>> = RefuseDone
<1>1. /\ \A t : /\ Snd!SendEffect(Snd!Frame(t)) = Utter(t) /\ Rcv!SendEffect(Rcv!Frame(t)) = Utter(t)
                /\ Snd!Effect(t) = Finally(t) /\ Rcv!Effect(t) = Finally(t)
      /\ Snd!BeginSending(Files) = With("begin_sending")
      /\ Rcv!AskUser(Files) = With("ask_user")
      /\ Rcv!BeginReceiving(Files) = With("begin_receiving")
  BY Zenon DEF Snd!SendEffect, Snd!Frame, Snd!Effect, Snd!BeginSending, Snd!IntroductionFrame,
               Rcv!SendEffect, Rcv!Frame, Rcv!Effect, Rcv!AskUser, Rcv!BeginReceiving,
               Rcv!IntroductionFrame, Utter, Finally, With
<1> QED BY <1>1, Zenon DEF BeginOnly, DoneOnly, CancelOnly, TellCancel, VerdictOnly, AskOnly,
                           AcceptReceive, RefuseDone

\* What the sender's machine makes of a reply to its introduction.
LEMMA SenderHears ==
  ASSUME NEW f
  PROVE  LET step == Snd!OutboundOn("Introduction", Files, Snd!FrameEvent(f))
         IN /\ f.type \in {"paired_key_encryption", "paired_key_result"} =>
                  step.state = "Introduction" /\ step.effects = <<>>
            /\ f.type = "accept" => step.state = "Transferring" /\ step.effects = BeginOnly
            /\ f.type = "refuse" => step.state = "Done" /\ step.effects = DoneOnly
            /\ f.type = "cancel" => step.state = "Cancelled" /\ step.effects = CancelOnly
<1> DEFINE step == Snd!OutboundOn("Introduction", Files, Snd!FrameEvent(f))
<1>1. step = Snd!OutboundOnFrame("Introduction", Files, f)
  BY DEF Snd!OutboundOn, Snd!FrameEvent, Snd!is_over
<1>2. CASE f.type \in {"paired_key_encryption", "paired_key_result"}
  <2>1. step = Snd!Step("Introduction", Files, <<>>)
    BY <1>1, <1>2 DEF Snd!OutboundOnFrame, Snd!Ignore
  <2> QED BY <1>2, <2>1 DEF Snd!Step
<1>3. CASE f.type = "accept"
  <2>1. step = Snd!Step("Transferring", Files, <<Snd!BeginSending(Files)>>)
    BY <1>1, <1>3 DEF Snd!OutboundOnFrame
  <2> QED BY <1>3, <2>1, MachineWords DEF Snd!Step
<1>4. CASE f.type = "refuse"
  <2>1. step = Snd!Step("Done", Files, <<Snd!Effect("done")>>)
    BY <1>1, <1>4 DEF Snd!OutboundOnFrame
  <2> QED BY <1>4, <2>1, MachineWords DEF Snd!Step
<1>5. CASE f.type = "cancel"
  <2>1. step = Snd!Step("Cancelled", Files, <<Snd!Effect("cancelled")>>)
    BY <1>1, <1>5 DEF Snd!OutboundOnFrame
  <2> QED BY <1>5, <2>1, MachineWords DEF Snd!Step
<1> QED BY <1>2, <1>3, <1>4, <1>5

\* What it makes of a cancel and of the end of the stream.
LEMMA SenderTold ==
  /\ \A m \in {"Introduction", "Transferring"} :
        /\ Snd!OutboundOn(m, Files, Snd!Event("user_cancelled")).state = "Cancelled"
        /\ Snd!OutboundOn(m, Files, Snd!Event("user_cancelled")).effects = TellCancel
  /\ \A m \in {"Done", "Cancelled"} : \A e \in {"user_cancelled", "transfer_complete"} :
        /\ Snd!OutboundOn(m, Files, Snd!Event(e)).state = m
        /\ Snd!OutboundOn(m, Files, Snd!Event(e)).effects = <<>>
  /\ Snd!OutboundOn("Transferring", Files, Snd!Event("transfer_complete")).state = "Done"
  /\ Snd!OutboundOn("Transferring", Files, Snd!Event("transfer_complete")).effects = DoneOnly
<1>1. ASSUME NEW m \in {"Introduction", "Transferring"}
      PROVE  /\ Snd!OutboundOn(m, Files, Snd!Event("user_cancelled")).state = "Cancelled"
             /\ Snd!OutboundOn(m, Files, Snd!Event("user_cancelled")).effects = TellCancel
  <2>1. Snd!OutboundOn(m, Files, Snd!Event("user_cancelled"))
           = Snd!Step("Cancelled", Files,
                      <<Snd!SendEffect(Snd!Frame("cancel")), Snd!Effect("cancelled")>>)
    BY <1>1 DEF Snd!OutboundOn, Snd!Event, Snd!is_over
  <2> QED BY <2>1, MachineWords DEF Snd!Step
<1>2. ASSUME NEW m \in {"Done", "Cancelled"}, NEW e \in {"user_cancelled", "transfer_complete"}
      PROVE  /\ Snd!OutboundOn(m, Files, Snd!Event(e)).state = m
             /\ Snd!OutboundOn(m, Files, Snd!Event(e)).effects = <<>>
  <2>1. Snd!OutboundOn(m, Files, Snd!Event(e)) = Snd!Step(m, Files, <<>>)
    BY <1>2 DEF Snd!OutboundOn, Snd!Event, Snd!is_over, Snd!Ignore
  <2> QED BY <2>1 DEF Snd!Step
<1>3. /\ Snd!OutboundOn("Transferring", Files, Snd!Event("transfer_complete")).state = "Done"
      /\ Snd!OutboundOn("Transferring", Files, Snd!Event("transfer_complete")).effects = DoneOnly
  <2>1. Snd!OutboundOn("Transferring", Files, Snd!Event("transfer_complete"))
           = Snd!Step("Done", Files, <<Snd!Effect("done")>>)
    BY DEF Snd!OutboundOn, Snd!Event, Snd!is_over
  <2> QED BY <2>1, MachineWords DEF Snd!Step
<1> QED BY <1>1, <1>2, <1>3

\* What the receiver's machine makes of the sender's frames.
LEMMA ReceiverHears ==
  ASSUME NEW f, NEW m \in {"PairedKey", "Introduction", "Transferring"}, NEW intro
  PROVE  LET step == Rcv!InboundOn(m, intro, Rcv!FrameEvent(f))
         IN /\ f.type = "cancel" =>
                  /\ step.state = "Cancelled" /\ step.introduction = intro
                  /\ step.effects = CancelOnly
            /\ m = "PairedKey" /\ f.type = "paired_key_encryption" =>
                  /\ step.state = "PairedKey" /\ step.introduction = intro
                  /\ step.effects = VerdictOnly
            /\ m = "PairedKey" /\ f.type = "paired_key_result" =>
                  /\ step.state = "Introduction" /\ step.introduction = intro
                  /\ step.effects = <<>>
            /\ m = "Introduction" /\ f.type = "introduction" /\ f.files = Files =>
                  /\ step.state = "AwaitingUser" /\ step.introduction = Files
                  /\ step.effects = AskOnly
            /\ m = "Transferring" /\ f.type \in {"paired_key_encryption", "paired_key_result"} =>
                  /\ step.state = "Transferring" /\ step.introduction = intro
                  /\ step.effects = <<>>
<1> DEFINE step == Rcv!InboundOn(m, intro, Rcv!FrameEvent(f))
<1>1. step = Rcv!InboundOnFrame(m, intro, f)
  BY DEF Rcv!InboundOn, Rcv!FrameEvent, Rcv!is_over
<1>2. CASE f.type = "cancel"
  <2>1. step = Rcv!Step("Cancelled", intro, <<Rcv!Effect("cancelled")>>)
    BY <1>1, <1>2 DEF Rcv!InboundOnFrame
  <2> QED BY <1>2, <2>1, MachineWords DEF Rcv!Step
<1>3. CASE m = "PairedKey" /\ f.type = "paired_key_encryption"
  <2>1. step = Rcv!Step("PairedKey", intro, <<Rcv!SendEffect(Rcv!Frame("paired_key_result"))>>)
    BY <1>1, <1>3 DEF Rcv!InboundOnFrame
  <2> QED BY <1>3, <2>1, MachineWords DEF Rcv!Step
<1>4. CASE m = "PairedKey" /\ f.type = "paired_key_result"
  <2>1. step = Rcv!Step("Introduction", intro, <<>>)
    BY <1>1, <1>4 DEF Rcv!InboundOnFrame
  <2> QED BY <1>4, <2>1 DEF Rcv!Step
<1>5. CASE m = "Introduction" /\ f.type = "introduction" /\ f.files = Files
  <2>1. step = Rcv!Step("AwaitingUser", Files, <<Rcv!AskUser(Files)>>)
    BY <1>1, <1>5, PairAssumption DEF Rcv!InboundOnFrame
  <2> QED BY <1>5, <2>1, MachineWords DEF Rcv!Step
<1>6. CASE m = "Transferring" /\ f.type \in {"paired_key_encryption", "paired_key_result"}
  <2>1. step = Rcv!Step("Transferring", intro, <<>>)
    BY <1>1, <1>6 DEF Rcv!InboundOnFrame, Rcv!Ignore
  <2> QED BY <1>6, <2>1 DEF Rcv!Step
<1> QED BY <1>2, <1>3, <1>4, <1>5, <1>6

\* What it makes of a cancel, of the person's answer and of the last file.
LEMMA ReceiverTold ==
  ASSUME NEW intro
  PROVE  /\ \A m \in {"PairedKey", "Introduction", "AwaitingUser", "Transferring"} :
              LET step == Rcv!InboundOn(m, intro, Rcv!Event("user_cancelled"))
              IN /\ step.state = "Cancelled" /\ step.introduction = intro
                 /\ step.effects = TellCancel
         /\ \A m \in {"Done", "Cancelled"} :
              \A e \in {"user_cancelled", "user_accepted", "user_rejected", "transfer_complete"} :
                LET step == Rcv!InboundOn(m, intro, Rcv!Event(e))
                IN step.state = m /\ step.introduction = intro /\ step.effects = <<>>
         /\ LET step == Rcv!InboundOn("AwaitingUser", Files, Rcv!Event("user_accepted"))
            IN /\ step.state = "Transferring" /\ step.introduction = Files
               /\ step.effects = AcceptReceive
         /\ LET step == Rcv!InboundOn("AwaitingUser", intro, Rcv!Event("user_rejected"))
            IN step.state = "Done" /\ step.introduction = intro /\ step.effects = RefuseDone
         /\ LET step == Rcv!InboundOn("Transferring", intro, Rcv!Event("transfer_complete"))
            IN step.state = "Done" /\ step.introduction = intro /\ step.effects = DoneOnly
<1>1. ASSUME NEW m \in {"PairedKey", "Introduction", "AwaitingUser", "Transferring"}
      PROVE  LET step == Rcv!InboundOn(m, intro, Rcv!Event("user_cancelled"))
             IN /\ step.state = "Cancelled" /\ step.introduction = intro
                /\ step.effects = TellCancel
  <2>1. Rcv!InboundOn(m, intro, Rcv!Event("user_cancelled"))
           = Rcv!Step("Cancelled", intro,
                      <<Rcv!SendEffect(Rcv!Frame("cancel")), Rcv!Effect("cancelled")>>)
    BY <1>1 DEF Rcv!InboundOn, Rcv!Event, Rcv!is_over
  <2> QED BY <2>1, MachineWords DEF Rcv!Step
<1>2. ASSUME NEW m \in {"Done", "Cancelled"},
             NEW e \in {"user_cancelled", "user_accepted", "user_rejected", "transfer_complete"}
      PROVE  LET step == Rcv!InboundOn(m, intro, Rcv!Event(e))
             IN step.state = m /\ step.introduction = intro /\ step.effects = <<>>
  <2>1. Rcv!InboundOn(m, intro, Rcv!Event(e)) = Rcv!Step(m, intro, <<>>)
    BY <1>2 DEF Rcv!InboundOn, Rcv!Event, Rcv!is_over, Rcv!Ignore
  <2> QED BY <2>1 DEF Rcv!Step
<1>3. LET step == Rcv!InboundOn("AwaitingUser", Files, Rcv!Event("user_accepted"))
      IN /\ step.state = "Transferring" /\ step.introduction = Files
         /\ step.effects = AcceptReceive
  <2>1. Rcv!InboundOn("AwaitingUser", Files, Rcv!Event("user_accepted"))
           = Rcv!Step("Transferring", Files,
                      <<Rcv!SendEffect(Rcv!Frame("accept")), Rcv!BeginReceiving(Files)>>)
    BY DEF Rcv!InboundOn, Rcv!Event, Rcv!is_over
  <2> QED BY <2>1, MachineWords DEF Rcv!Step
<1>4. LET step == Rcv!InboundOn("AwaitingUser", intro, Rcv!Event("user_rejected"))
      IN step.state = "Done" /\ step.introduction = intro /\ step.effects = RefuseDone
  <2>1. Rcv!InboundOn("AwaitingUser", intro, Rcv!Event("user_rejected"))
           = Rcv!Step("Done", intro,
                      <<Rcv!SendEffect(Rcv!Frame("refuse")), Rcv!Effect("done")>>)
    BY DEF Rcv!InboundOn, Rcv!Event, Rcv!is_over
  <2> QED BY <2>1, MachineWords DEF Rcv!Step
<1>5. LET step == Rcv!InboundOn("Transferring", intro, Rcv!Event("transfer_complete"))
      IN step.state = "Done" /\ step.introduction = intro /\ step.effects = DoneOnly
  <2>1. Rcv!InboundOn("Transferring", intro, Rcv!Event("transfer_complete"))
           = Rcv!Step("Done", intro, <<Rcv!Effect("done")>>)
    BY DEF Rcv!InboundOn, Rcv!Event, Rcv!is_over
  <2> QED BY <2>1, MachineWords DEF Rcv!Step
<1> QED BY <1>1, <1>2, <1>3, <1>4, <1>5

-----------------------------------------------------------------------------
(* The sender *)

\* A step of the sender, seen from the wire: it writes nothing and keeps its
\* place in the greeting or leaves; or it writes one frame, the next of the
\* greeting while there is one.
SenderSilent ==
    /\ toReceiver' = toReceiver
    /\ s_pc' = "over" \/ Stage(s_batch') = Stage(s_batch)

SenderSpeaks(f) ==
    /\ toReceiver' = Append(toReceiver, f)
    /\ Letter(f, s_begun', s_sent', Left')
    /\ \/ /\ Stage(s_batch) < 3 /\ Stage(s_batch') = Stage(s_batch) + 1
          /\ f = Greeting[Stage(s_batch) + 1]
       \/ /\ Stage(s_batch) = 3 /\ (s_pc' = "over" \/ Stage(s_batch') = 3)
          /\ f.type # "introduction"

SenderMoves ==
    /\ s_pc # "over"
    /\ SenderSilent \/ \E f \in PairFrames : SenderSpeaks(f)
    /\ s_begun \subseteq s_begun' /\ s_sent \subseteq s_sent'
    /\ s_fsm' = "Done" => s_fsm = "Done" \/ s_sent' = Files \/ TurnedDown

\* What makes a frame one the sender may write.
LEMMA PlainLetter ==
  ASSUME NEW t \in {"paired_key_encryption", "paired_key_result", "introduction", "cancel"},
         NEW fs \in SUBSET Files, NEW begun, NEW sent, NEW left
  PROVE  Letter([type |-> t, files |-> fs], begun, sent, left)
<1> DEFINE f == [type |-> t, files |-> fs]
<1>1. f.type = t /\ f \in PairFrames
  BY DEF PairFrames, LetterTypes
<1> HIDE DEF f
<1>2. Letter(f, begun, sent, left)
  BY <1>1 DEF Letter, LetterTypes
<1> QED BY <1>2 DEF f

\* A farewell, of one that has left.
LEMMA FarewellLetter ==
  ASSUME NEW t \in {"disconnect", "disconnect_safe"}, NEW begun, NEW sent, NEW left, left
  PROVE  Letter([type |-> t, files |-> {}], begun, sent, left)
<1> DEFINE f == [type |-> t, files |-> {}]
<1>1. f.type = t /\ f \in PairFrames
  BY DEF PairFrames, LetterTypes
<1> HIDE DEF f
<1>2. Letter(f, begun, sent, left)
  BY <1>1 DEF Letter, LetterTypes
<1> QED BY <1>2 DEF f

\* Bytes of a file begun, the end of a file sent.
LEMMA PayloadLetter ==
  ASSUME NEW t \in {"chunk", "last_chunk"}, NEW a \in Files, NEW begun, NEW sent, NEW left,
         IF t = "chunk" THEN a \in begun ELSE a \in sent
  PROVE  Letter([type |-> t, files |-> {a}], begun, sent, left)
<1> DEFINE f == [type |-> t, files |-> {a}]
<1>1. f.type = t /\ f.files = {a} /\ f \in PairFrames
  BY DEF PairFrames, LetterTypes
<1> HIDE DEF f
<1>2. Letter(f, begun, sent, left)
  BY <1>1 DEF Letter, LetterTypes
<1> QED BY <1>2 DEF f

\* The greeting is made of such frames.
LEMMA GreetingLetters ==
  ASSUME NEW begun, NEW sent, NEW left
  PROVE  /\ Letter(Greeting[1], begun, sent, left) /\ Letter(Greeting[2], begun, sent, left)
         /\ Letter(Greeting[3], begun, sent, left)
<1>1. /\ Greeting[1] = [type |-> "paired_key_encryption", files |-> {}]
      /\ Greeting[2] = [type |-> "paired_key_result", files |-> {}]
      /\ Greeting[3] = [type |-> "introduction", files |-> Files]
  BY DEF Greeting
<1> QED BY <1>1, PlainLetter

\* The places in which the sender's next effect is to write a frame.
LEMMA SenderSendPlaces ==
  ASSUME SenderPlace, Snd!Doing("send")
  PROVE  \/ SenderAt("effects", "Introduction", GreetAll, <<>>)
         \/ SenderAt("effects", "Introduction", GreetTwo, <<>>)
         \/ SenderAt("effects", "Introduction", GreetIntro, <<>>)
         \/ SenderAt("effects", "Cancelled", TellCancel, <<>>)
  BY SenderQueues DEF SenderPlace, SenderGreets, SenderStreams, SenderEnds, SenderAt, Snd!Doing

\* The greeting, or the word that it is cancelled.
LEMMA SenderSends ==
  ASSUME SenderPart, Snd!DoSend
  PROVE  SenderPart' /\ SenderMoves
<1>1. /\ Snd!Doing("send")
      /\ toReceiver' = Append(toReceiver, Head(s_batch).frame) /\ s_batch' = Tail(s_batch)
      /\ s_pc' = s_pc /\ s_fsm' = s_fsm /\ s_pending' = s_pending /\ s_deferred' = s_deferred
      /\ s_deadline' = s_deadline /\ s_begun' = s_begun /\ s_sent' = s_sent
      /\ s_cancelled' = s_cancelled /\ s_outcome' = s_outcome
  BY Zenon DEF Snd!DoSend, Snd!Write, Snd!asking, Snd!payload
<1>2. \/ SenderAt("effects", "Introduction", GreetAll, <<>>)
      \/ SenderAt("effects", "Introduction", GreetTwo, <<>>)
      \/ SenderAt("effects", "Introduction", GreetIntro, <<>>)
      \/ SenderAt("effects", "Cancelled", TellCancel, <<>>)
  BY <1>1, SenderSendPlaces DEF SenderPart
<1>3. s_batch' # BeginTellCancel
  BY <1>1, <1>2, SenderQueues, SenderStages DEF SenderAt
<1>4. SenderData'
  BY <1>1, <1>2, <1>3 DEF SenderAt, SenderPart, SenderData
<1>5. SenderPlace'
  BY <1>1, <1>2, SenderQueues DEF SenderAt, SenderPlace, SenderGreets, SenderEnds
<1>6. \A f \in {Greeting[1], Greeting[2], Greeting[3], [type |-> "cancel", files |-> {}]} :
         Letter(f, s_begun', s_sent', Left')
  BY GreetingLetters, PlainLetter
<1>7. ASSUME NEW f, Letter(f, s_begun', s_sent', Left')
      PROVE  f \in PairFrames
  BY <1>7 DEF Letter
<1>8. s_pc # "over"
  BY <1>1 DEF Snd!Doing
<1>9. CASE SenderAt("effects", "Introduction", GreetAll, <<>>)
  <2>1. /\ Head(s_batch).frame = Greeting[1] /\ Stage(s_batch) = 0 /\ Stage(s_batch') = 1
    BY <1>1, <1>9, SenderQueues, SenderStages DEF SenderAt
  <2>2. SenderSpeaks(Greeting[1])
    BY <1>1, <1>6, <2>1 DEF SenderSpeaks
  <2> QED BY <1>1, <1>4, <1>5, <1>6, <1>7, <1>8, <2>2 DEF SenderPart, SenderMoves
<1>10. CASE SenderAt("effects", "Introduction", GreetTwo, <<>>)
  <2>1. /\ Head(s_batch).frame = Greeting[2] /\ Stage(s_batch) = 1 /\ Stage(s_batch') = 2
    BY <1>1, <1>10, SenderQueues, SenderStages DEF SenderAt
  <2>2. SenderSpeaks(Greeting[2])
    BY <1>1, <1>6, <2>1 DEF SenderSpeaks
  <2> QED BY <1>1, <1>4, <1>5, <1>6, <1>7, <1>8, <2>2 DEF SenderPart, SenderMoves
<1>11. CASE SenderAt("effects", "Introduction", GreetIntro, <<>>)
  <2>1. /\ Head(s_batch).frame = Greeting[3] /\ Stage(s_batch) = 2 /\ Stage(s_batch') = 3
    BY <1>1, <1>11, SenderQueues, SenderStages DEF SenderAt
  <2>2. SenderSpeaks(Greeting[3])
    BY <1>1, <1>6, <2>1 DEF SenderSpeaks
  <2> QED BY <1>1, <1>4, <1>5, <1>6, <1>7, <1>8, <2>2 DEF SenderPart, SenderMoves
<1>12. CASE SenderAt("effects", "Cancelled", TellCancel, <<>>)
  <2> DEFINE f == [type |-> "cancel", files |-> {}]
  <2>1. /\ Head(s_batch).frame = f /\ Stage(s_batch) = 3 /\ Stage(s_batch') = 3
    BY <1>1, <1>12, SenderQueues, SenderStages DEF SenderAt
  <2>2. Letter(f, s_begun', s_sent', Left') /\ f.type # "introduction"
    BY <1>6
  <2> HIDE DEF f
  <2>3. SenderSpeaks(f)
    BY <1>1, <2>1, <2>2 DEF SenderSpeaks
  <2> QED BY <1>1, <1>4, <1>5, <2>2, <1>7, <1>8, <2>3 DEF SenderPart, SenderMoves
<1> QED BY <1>2, <1>9, <1>10, <1>11, <1>12

\* The sender is never in the middle of the greeting but at its beginning.
LEMMA SenderStarts ==
  ASSUME SenderPlace
  PROVE  /\ s_fsm \in {"Introduction", "Transferring", "Done", "Cancelled"}
         /\ s_pc # "over" /\ s_batch \notin {GreetAll, GreetTwo, GreetIntro} => Stage(s_batch) = 3
  BY SenderStages DEF SenderPlace, SenderGreets, SenderStreams, SenderEnds, SenderAt, Stage

\* Returning leaves the wire alone, or adds the farewell of one that has left.
LEMMA SenderReturns ==
  ASSUME SenderPart, s_pc # "over", s_pc' = "over", s_fsm' = s_fsm,
         s_deferred' = s_deferred, s_deadline' = s_deadline, s_begun' = s_begun, s_sent' = s_sent,
         s_cancelled' = s_cancelled,
         s_outcome' = "false" => s_fsm \in {"Introduction", "Cancelled"},
         s_outcome' = "true" => s_fsm = "Done",
         \/ toReceiver' = toReceiver
         \/ /\ s_fsm \in {"Introduction", "Done"} /\ Stage(s_batch) = 3
            /\ \E t \in {"disconnect", "disconnect_safe"} :
                  toReceiver' = Append(toReceiver, [type |-> t, files |-> {}])
  PROVE  SenderPart' /\ SenderMoves
<1>1. s_fsm \in {"Introduction", "Transferring", "Done", "Cancelled"}
  BY SenderStarts DEF SenderPart
<1>2. SenderPlace'
  BY <1>1 DEF SenderPlace
<1>3. SenderData'
  BY DEF SenderData, SenderPart
<1>4. s_begun \subseteq s_begun' /\ s_sent \subseteq s_sent'
  OBVIOUS
<1>5. CASE toReceiver' = toReceiver
  BY <1>2, <1>3, <1>4, <1>5 DEF SenderPart, SenderMoves, SenderSilent
<1>6. CASE /\ s_fsm \in {"Introduction", "Done"} /\ Stage(s_batch) = 3
           /\ \E t \in {"disconnect", "disconnect_safe"} :
                 toReceiver' = Append(toReceiver, [type |-> t, files |-> {}])
  <2>1. PICK t \in {"disconnect", "disconnect_safe"} :
                toReceiver' = Append(toReceiver, [type |-> t, files |-> {}])
    BY <1>6
  <2> DEFINE f == [type |-> t, files |-> {}]
  <2>2. Left'
    BY <1>6 DEF Left
  <2>3. Letter(f, s_begun', s_sent', Left') /\ f.type # "introduction"
    BY <2>1, <2>2, FarewellLetter
  <2>4. toReceiver' = Append(toReceiver, f)
    BY <2>1
  <2> HIDE DEF f
  <2>5. f \in PairFrames /\ SenderSpeaks(f)
    BY <1>6, <2>3, <2>4 DEF SenderSpeaks, Letter
  <2> QED BY <1>2, <1>3, <1>4, <2>5 DEF SenderPart, SenderMoves
<1> QED BY <1>5, <1>6

\* The acceptance is acted on.
LEMMA SenderBegins ==
  ASSUME SenderPart, Snd!DoBeginSending
  PROVE  SenderPart' /\ SenderMoves
<1>1. /\ Snd!Doing("begin_sending") /\ s_batch' = Tail(s_batch)
      /\ s_pc' = IF s_deadline THEN "waiting" ELSE "streaming"
      /\ s_deadline' = FALSE /\ s_fsm' = s_fsm /\ s_pending' = s_pending
      /\ s_deferred' = s_deferred /\ s_begun' = s_begun /\ s_sent' = s_sent
      /\ s_cancelled' = s_cancelled /\ s_outcome' = s_outcome /\ toReceiver' = toReceiver
  BY Zenon DEF Snd!DoBeginSending, Snd!payload
<1>2. \/ SenderAt("effects", "Transferring", BeginOnly, <<>>)
      \/ SenderAt("effects", "Cancelled", BeginTellCancel, <<>>)
  BY <1>1, SenderQueues DEF SenderPart, SenderPlace, SenderGreets, SenderStreams, SenderEnds,
                            SenderAt, Snd!Doing
<1>3. s_pc' = "streaming"
  BY <1>1 DEF SenderPart, SenderData
<1>4. SenderPlace'
  BY <1>1, <1>2, <1>3, SenderQueues DEF SenderAt, SenderPlace, SenderStreams, SenderEnds
<1>5. SenderData'
  BY <1>1, <1>2, <1>3, SenderStages DEF SenderAt, SenderPart, SenderData
<1>6. Stage(s_batch') = Stage(s_batch)
  BY <1>1, <1>2, SenderQueues, SenderStages DEF SenderAt
<1> QED BY <1>1, <1>2, <1>4, <1>5, <1>6 DEF SenderPart, SenderMoves, SenderSilent, SenderAt

\* The sender is done, and says goodbye.
LEMMA SenderDone ==
  ASSUME SenderPart, Snd!DoDone
  PROVE  SenderPart' /\ SenderMoves
<1>1. /\ Snd!Doing("done") /\ s_pc' = "over"
      /\ toReceiver' = Append(toReceiver, Snd!Frame("disconnect_safe"))
      /\ s_outcome' = IF s_fsm = "Done" /\ Files \ {} # {} THEN "true" ELSE "false"
      /\ s_fsm' = s_fsm /\ s_deferred' = s_deferred /\ s_deadline' = s_deadline
      /\ s_begun' = s_begun /\ s_sent' = s_sent /\ s_cancelled' = s_cancelled
  BY Zenon DEF Snd!DoDone, Snd!Write, Snd!Return, Snd!asking, Snd!payload
<1>2. SenderAt("effects", "Done", DoneOnly, <<>>)
  BY <1>1, SenderQueues DEF SenderPart, SenderPlace, SenderGreets, SenderStreams, SenderEnds,
                            SenderAt, Snd!Doing
<1>3. s_outcome' = "true"
  BY <1>1, <1>2, PairAssumption DEF SenderAt
<1>4. Stage(s_batch) = 3 /\ s_pc # "over" /\ s_fsm = "Done"
  BY <1>2, SenderStages DEF SenderAt
<1>5. toReceiver' = Append(toReceiver, [type |-> "disconnect_safe", files |-> {}])
  BY <1>1 DEF Snd!Frame
<1> QED BY <1>1, <1>3, <1>4, <1>5, SenderReturns

\* The sender ends cancelled.
LEMMA SenderStops ==
  ASSUME SenderPart, Snd!DoCancelled
  PROVE  SenderPart' /\ SenderMoves
<1>1. /\ Snd!Doing("cancelled") /\ s_pc' = "over" /\ s_outcome' = "false"
      /\ toReceiver' = toReceiver
      /\ s_fsm' = s_fsm /\ s_deferred' = s_deferred /\ s_deadline' = s_deadline
      /\ s_begun' = s_begun /\ s_sent' = s_sent /\ s_cancelled' = s_cancelled
  BY Zenon DEF Snd!DoCancelled, Snd!Return, Snd!asking, Snd!payload
<1>2. SenderAt("effects", "Cancelled", CancelOnly, <<>>)
  BY <1>1, SenderQueues DEF SenderPart, SenderPlace, SenderGreets, SenderStreams, SenderEnds,
                            SenderAt, Snd!Doing
<1>3. s_pc # "over" /\ s_fsm = "Cancelled"
  BY <1>2 DEF SenderAt
<1> QED BY <1>1, <1>3, SenderReturns

\* A write, a file or a read fails.
LEMMA SenderBreaks ==
  ASSUME SenderPart, Snd!IoFails \/ Snd!ReadFails
  PROVE  SenderPart' /\ SenderMoves
<1>1. /\ s_pc' = "over" /\ s_outcome' = "error" /\ toReceiver' = toReceiver
      /\ s_fsm' = s_fsm /\ s_deferred' = s_deferred /\ s_deadline' = s_deadline
      /\ s_begun' = s_begun /\ s_sent' = s_sent /\ s_cancelled' = s_cancelled
  BY Zenon DEF Snd!IoFails, Snd!ReadFails, Snd!Return, Snd!asking, Snd!payload
<1>2. s_pc # "over"
  BY DEF Snd!IoFails, Snd!ReadFails, Snd!Doing, Snd!Adopting
<1> QED BY <1>1, <1>2, SenderReturns

\* Somebody cancels the send.
LEMMA SenderCancelled ==
  ASSUME SenderPart, Snd!Cancel
  PROVE  SenderPart' /\ SenderMoves
<1>1. /\ s_pc # "over" /\ s_cancelled' = TRUE /\ s_pc' = s_pc /\ s_fsm' = s_fsm
      /\ s_batch' = s_batch /\ s_pending' = s_pending
      /\ s_deferred' = s_deferred /\ s_deadline' = s_deadline
      /\ s_begun' = s_begun /\ s_sent' = s_sent /\ s_outcome' = s_outcome
      /\ toReceiver' = toReceiver
  BY Zenon DEF Snd!Cancel, Snd!queues, Snd!asking, Snd!payload
<1>2. SenderPlace'
  BY <1>1 DEF SenderPart, SenderPlace, SenderGreets, SenderStreams, SenderEnds, SenderAt
<1>3. SenderData'
  BY <1>1 DEF SenderPart, SenderData
<1> QED BY <1>1, <1>2, <1>3 DEF SenderPart, SenderMoves, SenderSilent

\* While it streams, it is in one of two places, and past the greeting.
LEMMA StreamPlaces ==
  ASSUME SenderPart, s_pc = "streaming"
  PROVE  /\ \/ SenderAt("streaming", "Transferring", <<>>, <<>>)
            \/ /\ SenderAt("streaming", "Cancelled", TellCancel, <<>>)
               /\ s_begun = {} /\ s_sent = {} /\ s_cancelled = TRUE
         /\ Stage(s_batch) = 3
<1>1. \/ SenderAt("streaming", "Transferring", <<>>, <<>>)
      \/ SenderAt("streaming", "Cancelled", TellCancel, <<>>)
  BY DEF SenderPart, SenderPlace, SenderGreets, SenderStreams, SenderEnds, SenderAt
<1>2. s_fsm = "Cancelled" => s_begun = {} /\ s_sent = {} /\ s_cancelled = TRUE
  BY DEF SenderPart, SenderData
<1>3. Stage(s_batch) = 3
  BY <1>1, SenderStages DEF SenderAt
<1> QED BY <1>1, <1>2, <1>3 DEF SenderAt

\* A chunk of a file.
LEMMA SenderStreamsChunk ==
  ASSUME SenderPart, Snd!StreamChunk
  PROVE  SenderPart' /\ SenderMoves
<1>1. /\ s_pc = "streaming" /\ ~s_cancelled /\ s_pc' = s_pc /\ s_fsm' = s_fsm
      /\ s_batch' = s_batch /\ s_pending' = s_pending
      /\ s_deferred' = s_deferred /\ s_deadline' = s_deadline /\ s_sent' = s_sent
      /\ s_cancelled' = s_cancelled /\ s_outcome' = s_outcome
      /\ \E f \in Files \ (s_sent \cup {}) :
            /\ toReceiver' = Append(toReceiver, Snd!Chunk(f)) /\ s_begun' = s_begun \cup {f}
  BY Zenon DEF Snd!StreamChunk, Snd!Write, Snd!queues, Snd!asking
<1>2. PICK a \in Files : /\ toReceiver' = Append(toReceiver, [type |-> "chunk", files |-> {a}])
                         /\ s_begun' = s_begun \cup {a}
  BY <1>1 DEF Snd!Chunk
<1>3. SenderAt("streaming", "Transferring", <<>>, <<>>) /\ Stage(s_batch) = 3
  BY <1>1, StreamPlaces
<1>4. SenderPlace'
  BY <1>1, <1>3 DEF SenderAt, SenderPlace, SenderStreams
<1>5. SenderData'
  BY <1>1, <1>2, <1>3 DEF SenderAt, SenderPart, SenderData
<1> DEFINE f == [type |-> "chunk", files |-> {a}]
<1>6. Letter(f, s_begun', s_sent', Left') /\ f.type # "introduction"
  BY <1>2, PayloadLetter
<1>7. toReceiver' = Append(toReceiver, f)
  BY <1>2
<1> HIDE DEF f
<1>8. f \in PairFrames /\ SenderSpeaks(f)
  BY <1>1, <1>3, <1>6, <1>7 DEF SenderSpeaks, Letter
<1>9. s_begun \subseteq s_begun' /\ s_sent \subseteq s_sent' /\ s_pc # "over" /\ s_fsm' = s_fsm
  BY <1>1, <1>2
<1> QED BY <1>4, <1>5, <1>8, <1>9 DEF SenderPart, SenderMoves

\* The terminator of one.
LEMMA SenderStreamsLast ==
  ASSUME SenderPart, Snd!StreamLast
  PROVE  SenderPart' /\ SenderMoves
<1>1. /\ s_pc = "streaming" /\ s_pc' = s_pc /\ s_fsm' = s_fsm
      /\ s_batch' = s_batch /\ s_pending' = s_pending
      /\ s_deferred' = s_deferred /\ s_deadline' = s_deadline /\ s_begun' = s_begun
      /\ s_cancelled' = s_cancelled /\ s_outcome' = s_outcome
      /\ \E f \in Files \ s_sent :
            /\ f \in s_begun \cup {}
            /\ toReceiver' = Append(toReceiver, Snd!LastChunk(f)) /\ s_sent' = s_sent \cup {f}
  BY Zenon DEF Snd!StreamLast, Snd!Write, Snd!queues, Snd!asking
<1>2. PICK a \in Files : /\ toReceiver' = Append(toReceiver, [type |-> "last_chunk", files |-> {a}])
                         /\ s_sent' = s_sent \cup {a} /\ a \in s_begun
  BY <1>1 DEF Snd!LastChunk
<1>3. SenderAt("streaming", "Transferring", <<>>, <<>>) /\ Stage(s_batch) = 3
  BY <1>1, <1>2, StreamPlaces
<1>4. SenderPlace'
  BY <1>1, <1>3 DEF SenderAt, SenderPlace, SenderStreams
<1>5. SenderData'
  BY <1>1, <1>2, <1>3 DEF SenderAt, SenderPart, SenderData
<1> DEFINE f == [type |-> "last_chunk", files |-> {a}]
<1>6. Letter(f, s_begun', s_sent', Left') /\ f.type # "introduction"
  BY <1>2, PayloadLetter
<1>7. toReceiver' = Append(toReceiver, f)
  BY <1>2
<1> HIDE DEF f
<1>8. f \in PairFrames /\ SenderSpeaks(f)
  BY <1>1, <1>3, <1>6, <1>7 DEF SenderSpeaks, Letter
<1>9. s_begun \subseteq s_begun' /\ s_sent \subseteq s_sent' /\ s_pc # "over" /\ s_fsm' = s_fsm
  BY <1>1, <1>2
<1> QED BY <1>4, <1>5, <1>8, <1>9 DEF SenderPart, SenderMoves

\* The stream ends, complete or cancelled.
LEMMA SenderStreamEnds ==
  ASSUME SenderPart, Snd!StreamEnd
  PROVE  SenderPart' /\ SenderMoves
<1> DEFINE e == IF s_sent = Files THEN "transfer_complete" ELSE "user_cancelled"
           step == Snd!OutboundOn(s_fsm, Files, Snd!Event(e))
<1>1. /\ s_pc = "streaming" /\ (s_sent = Files \/ s_cancelled) /\ s_pc' = "effects"
      /\ s_fsm' = step.state /\ s_pending' = s_pending \o step.effects
      /\ s_batch' = s_batch
      /\ s_deferred' = s_deferred /\ s_deadline' = s_deadline /\ s_begun' = s_begun
      /\ s_sent' = s_sent
      /\ s_cancelled' = s_cancelled /\ s_outcome' = s_outcome /\ toReceiver' = toReceiver
  BY Zenon DEF Snd!StreamEnd, Snd!Feed, Snd!asking, Snd!payload
<1>2. /\ Stage(s_batch) = 3
      /\ \/ SenderAt("streaming", "Transferring", <<>>, <<>>)
         \/ /\ SenderAt("streaming", "Cancelled", TellCancel, <<>>)
            /\ s_begun = {} /\ s_sent = {} /\ s_cancelled = TRUE
  BY <1>1, StreamPlaces
<1>3. SenderPlace' /\ (s_fsm' = "Cancelled" => s_sent # Files)
      /\ s_fsm' \in {"Done", "Cancelled"} /\ s_batch' \in {<<>>, TellCancel}
      /\ (s_fsm' = "Done" => s_sent = Files)
  <2>1. CASE SenderAt("streaming", "Transferring", <<>>, <<>>) /\ s_sent = Files
    <3>1. e = "transfer_complete" /\ step.state = "Done" /\ step.effects = DoneOnly
      BY <2>1, SenderTold DEF SenderAt
    <3>2. SenderAt("effects", "Done", <<>>, DoneOnly)'
      BY <1>1, <2>1, <3>1, QueuesJoined DEF SenderAt
    <3> QED BY <2>1, <3>2 DEF SenderAt, SenderPlace, SenderEnds
  <2>2. CASE SenderAt("streaming", "Transferring", <<>>, <<>>) /\ s_sent # Files
    <3>1. e = "user_cancelled" /\ step.state = "Cancelled" /\ step.effects = TellCancel
      BY <2>2, SenderTold DEF SenderAt
    <3>2. SenderAt("effects", "Cancelled", <<>>, TellCancel)'
      BY <1>1, <2>2, <3>1, QueuesJoined DEF SenderAt
    <3> QED BY <2>2, <3>2 DEF SenderAt, SenderPlace, SenderEnds
  <2>3. CASE SenderAt("streaming", "Cancelled", TellCancel, <<>>) /\ s_sent = {}
    <3>1. e = "user_cancelled" /\ step.state = "Cancelled" /\ step.effects = <<>>
      BY <2>3, SenderTold, PairAssumption DEF SenderAt
    <3>2. SenderAt("effects", "Cancelled", TellCancel, <<>>)'
      BY <1>1, <2>3, <3>1, QueuesJoined DEF SenderAt
    <3> QED BY <2>3, <3>2, PairAssumption DEF SenderAt, SenderPlace, SenderEnds
  <2> QED BY <1>2, <2>1, <2>2, <2>3
<1>4. SenderData'
  BY <1>1, <1>3, SenderStages DEF SenderPart, SenderData
<1>5. s_begun \subseteq s_begun' /\ s_sent \subseteq s_sent' /\ s_pc # "over"
  BY <1>1
<1> QED BY <1>1, <1>3, <1>4, <1>5 DEF SenderPart, SenderMoves, SenderSilent

\* The places in which a batch is over.
LEMMA SenderIdle ==
  ASSUME SenderPlace, s_pc = "effects", s_batch = <<>>
  PROVE  \/ SenderAt("effects", "Introduction", <<>>, <<>>)
         \/ SenderAt("effects", "Transferring", <<>>, BeginOnly)
         \/ SenderAt("effects", "Done", <<>>, DoneOnly)
         \/ SenderAt("effects", "Cancelled", <<>>, CancelOnly)
         \/ SenderAt("effects", "Cancelled", <<>>, TellCancel)
  BY SenderQueues DEF SenderPlace, SenderGreets, SenderStreams, SenderEnds, SenderAt

\* The end of a batch: a cancel is noticed, more is queued, or the peer is heard.
LEMMA SenderGoesRound ==
  ASSUME SenderPart, Snd!EndOfBatch
  PROVE  SenderPart' /\ SenderMoves
<1> DEFINE step == Snd!OutboundOn(s_fsm, Files, Snd!Event("user_cancelled"))
<1>1. /\ s_pc = "effects" /\ s_batch = <<>>
      /\ \/ /\ s_cancelled /\ s_fsm' = step.state /\ s_batch' = s_pending \o step.effects
            /\ s_pending' = <<>> /\ s_pc' = s_pc
         \/ /\ s_pending # <<>> /\ s_batch' = s_pending /\ s_pending' = <<>>
            /\ s_pc' = s_pc /\ s_fsm' = s_fsm
         \/ /\ s_pending = <<>> /\ s_pc' = "read" /\ s_fsm' = s_fsm
            /\ s_batch' = s_batch /\ s_pending' = s_pending
      /\ s_deferred' = s_deferred /\ s_deadline' = s_deadline /\ s_begun' = s_begun
      /\ s_sent' = s_sent
      /\ s_cancelled' = s_cancelled /\ s_outcome' = s_outcome /\ toReceiver' = toReceiver
  BY Zenon DEF Snd!EndOfBatch, Snd!queues, Snd!payload
<1>2. \/ SenderAt("effects", "Introduction", <<>>, <<>>)
      \/ SenderAt("effects", "Transferring", <<>>, BeginOnly)
      \/ SenderAt("effects", "Done", <<>>, DoneOnly)
      \/ SenderAt("effects", "Cancelled", <<>>, CancelOnly)
      \/ SenderAt("effects", "Cancelled", <<>>, TellCancel)
  BY <1>1, SenderIdle DEF SenderPart
<1> DEFINE Onwards ==
             \/ SenderAt("effects", "Cancelled", TellCancel, <<>>)
             \/ SenderAt("effects", "Cancelled", BeginTellCancel, <<>>) /\ s_begun = {} /\ s_cancelled
             \/ SenderAt("effects", "Cancelled", CancelOnly, <<>>)
             \/ SenderAt("effects", "Done", DoneOnly, <<>>)
             \/ SenderAt("effects", "Transferring", BeginOnly, <<>>)
             \/ SenderAt("read", "Introduction", <<>>, <<>>)
<1>3. s_fsm \in {"Introduction", "Transferring"} => s_begun = {} /\ s_sent = {}
  BY <1>1 DEF SenderPart, SenderData
<1>4. Onwards' /\ (s_fsm' = "Cancelled" => s_fsm = "Cancelled" \/ s_begun = {})
      /\ (s_fsm' = "Transferring" => s_fsm = "Transferring")
      /\ (s_fsm' = "Done" => s_fsm = "Done")
  <2>1. CASE /\ s_cancelled /\ s_fsm' = step.state /\ s_batch' = s_pending \o step.effects
             /\ s_pending' = <<>> /\ s_pc' = s_pc
    <3>1. CASE SenderAt("effects", "Introduction", <<>>, <<>>)
      <4>1. step.state = "Cancelled" /\ step.effects = TellCancel
        BY <3>1, SenderTold DEF SenderAt
      <4> QED BY <1>1, <1>3, <2>1, <3>1, <4>1, QueuesJoined DEF SenderAt
    <3>2. CASE SenderAt("effects", "Transferring", <<>>, BeginOnly)
      <4>1. step.state = "Cancelled" /\ step.effects = TellCancel
        BY <3>2, SenderTold DEF SenderAt
      <4> QED BY <1>1, <1>3, <2>1, <3>2, <4>1, QueuesJoined DEF SenderAt
    <3>3. CASE \/ SenderAt("effects", "Done", <<>>, DoneOnly)
               \/ SenderAt("effects", "Cancelled", <<>>, CancelOnly)
               \/ SenderAt("effects", "Cancelled", <<>>, TellCancel)
      <4>1. step.state = s_fsm /\ step.effects = <<>>
        BY <3>3, SenderTold DEF SenderAt
      <4> QED BY <1>1, <1>3, <2>1, <3>3, <4>1, QueuesJoined DEF SenderAt
    <3> QED BY <1>2, <3>1, <3>2, <3>3
  <2>2. CASE /\ s_pending # <<>> /\ s_batch' = s_pending /\ s_pending' = <<>>
             /\ s_pc' = s_pc /\ s_fsm' = s_fsm
    BY <1>1, <1>2, <2>2 DEF SenderAt
  <2>3. CASE /\ s_pending = <<>> /\ s_pc' = "read" /\ s_fsm' = s_fsm
             /\ s_batch' = s_batch /\ s_pending' = s_pending
    BY <1>1, <1>2, <2>3, SenderQueues DEF SenderAt
  <2> QED BY <1>1, <2>1, <2>2, <2>3
<1>5. SenderPlace'
  BY <1>4 DEF SenderPlace, SenderGreets, SenderStreams, SenderEnds, SenderAt
<1>6. s_batch' = BeginTellCancel => s_begun' = {} /\ s_cancelled'
  BY <1>1, <1>4, SenderStages DEF SenderAt
<1>7. s_fsm' = "Cancelled" => s_sent' # Files
  BY <1>1, <1>3, <1>4, PairAssumption DEF SenderPart, SenderData
<1>8. s_fsm' \in {"Introduction", "Transferring"} => s_begun' = {}
  BY <1>1, <1>2, <1>3, <1>4 DEF SenderAt
<1>9. s_pc' \in {"effects", "read"}
  BY <1>4 DEF SenderAt
<1>10. s_outcome' \notin {"false", "true"}
  BY <1>1 DEF SenderPart, SenderData
<1>11. SenderData'
  BY <1>1, <1>6, <1>7, <1>8, <1>9, <1>10 DEF SenderPart, SenderData
<1>12. Stage(s_batch) = 3 /\ Stage(s_batch') = 3
  BY <1>1, <1>4, SenderStages DEF SenderAt
<1>13. s_begun \subseteq s_begun' /\ s_sent \subseteq s_sent' /\ s_pc # "over"
  BY <1>1
<1> QED BY <1>1, <1>4, <1>5, <1>11, <1>12, <1>13 DEF SenderPart, SenderMoves, SenderSilent

\* A reply of the receiver.
LEMMA SenderListens ==
  ASSUME SenderPart, NEW f, Reply(f, TurnedDown), Snd!Receive(f)
  PROVE  SenderPart' /\ SenderMoves
<1>1. s_pc = "read" /\ s_deferred' = s_deferred /\ Snd!Handle(f)
  BY Zenon DEF Snd!Receive
<1>2. SenderAt("read", "Introduction", <<>>, <<>>)
  BY <1>1 DEF SenderPart, SenderPlace, SenderGreets, SenderStreams, SenderEnds, SenderAt
<1>3. Stage(s_batch) = 3 /\ s_begun = {} /\ s_sent = {} /\ s_pc # "over"
  BY <1>2, SenderStages DEF SenderAt, SenderPart, SenderData
<1>4. Snd!OnSharing(f) \/ Snd!OnDisconnect(f)
  BY <1>1 DEF Snd!Handle, Snd!OnUpgrade, Snd!OnOther, Snd!OnBad, Snd!UpgradeFrames, Reply, Replies
<1>5. CASE Snd!OnSharing(f)
  <2> DEFINE step == Snd!OutboundOn(s_fsm, Files, Snd!FrameEvent(f))
  <2>1. /\ f.type \in Snd!PlainFrames \cup {"introduction"}
        /\ s_fsm' = step.state /\ s_pending' = s_pending \o step.effects
        /\ s_pc' = "effects" /\ s_batch' = s_batch /\ s_deadline' = s_deadline
        /\ s_begun' = s_begun /\ s_sent' = s_sent /\ s_cancelled' = s_cancelled
        /\ s_outcome' = s_outcome /\ toReceiver' = toReceiver
    BY <1>5, Zenon DEF Snd!OnSharing, Snd!Feed, Snd!asking, Snd!payload
  <2>2. f.type \in {"paired_key_encryption", "paired_key_result", "accept", "refuse", "cancel"}
    BY <2>1 DEF Reply, Replies, Snd!PlainFrames
  <2>3. \/ step.state = "Introduction" /\ step.effects = <<>>
        \/ step.state = "Transferring" /\ step.effects = BeginOnly
        \/ step.state = "Done" /\ step.effects = DoneOnly /\ TurnedDown
        \/ step.state = "Cancelled" /\ step.effects = CancelOnly
    BY <1>2, <2>2, SenderHears DEF SenderAt, Reply
  <2> HIDE DEF step
  <2>4. \/ SenderAt("effects", "Introduction", <<>>, <<>>)'
        \/ SenderAt("effects", "Transferring", <<>>, BeginOnly)'
        \/ SenderAt("effects", "Done", <<>>, DoneOnly)'
        \/ SenderAt("effects", "Cancelled", <<>>, CancelOnly)'
    BY <1>2, <2>1, <2>3, QueuesJoined DEF SenderAt
  <2>5. SenderPlace'
    BY <2>4 DEF SenderPlace, SenderGreets, SenderStreams, SenderEnds, SenderAt
  <2>6. s_batch' # BeginTellCancel
    BY <1>2, <2>1, SenderStages DEF SenderAt
  <2>7. SenderData'
    BY <1>1, <1>3, <2>1, <2>6, PairAssumption DEF SenderPart, SenderData
  <2>8. s_begun \subseteq s_begun' /\ s_sent \subseteq s_sent' /\ Stage(s_batch') = Stage(s_batch)
    BY <2>1
  <2>9. s_fsm' = "Done" => TurnedDown
    BY <2>1, <2>3
  <2> QED BY <1>3, <2>1, <2>5, <2>7, <2>8, <2>9 DEF SenderPart, SenderMoves, SenderSilent
<1>6. CASE Snd!OnDisconnect(f)
  <2>1. /\ f.type \in {"disconnect", "disconnect_safe"}
        /\ IF f.type = "disconnect_safe" THEN toReceiver' = Append(toReceiver, Snd!Frame("disconnect"))
                                         ELSE toReceiver' = toReceiver
        /\ s_pc' = "over" /\ s_outcome' = "false" /\ s_fsm' = s_fsm /\ s_deadline' = s_deadline
        /\ s_begun' = s_begun /\ s_sent' = s_sent /\ s_cancelled' = s_cancelled
    BY <1>6, Zenon DEF Snd!OnDisconnect, Snd!Write, Snd!Return, Snd!asking, Snd!payload
  <2>2. \/ toReceiver' = toReceiver
        \/ toReceiver' = Append(toReceiver, [type |-> "disconnect", files |-> {}])
    BY <2>1 DEF Snd!Frame
  <2>3. s_fsm = "Introduction"
    BY <1>2 DEF SenderAt
  <2> QED BY <1>1, <1>3, <2>1, <2>2, <2>3, SenderReturns
<1> QED BY <1>4, <1>5, <1>6

\* What the sender does without reading keeps its part.
LEMMA SenderActs ==
  ASSUME SenderPart, SenderWorks \/ SenderSeesClose \/ SenderWriteFails \/ SenderCancels
  PROVE  /\ SenderPart' /\ SenderMoves
         /\ UNCHANGED <<toSender, cut, receiver>>
<1>1. /\ UNCHANGED <<toSender, cut, receiver>>
      /\ \/ Snd!DoSend \/ Snd!DoBeginSending \/ Snd!DoDone \/ Snd!DoCancelled
         \/ Snd!StreamChunk \/ Snd!StreamLast \/ Snd!StreamEnd \/ Snd!EndOfBatch
         \/ Snd!IoFails \/ Snd!ReadFails \/ Snd!Cancel
  BY Zenon DEF SenderWorks, SenderSeesClose, SenderWriteFails, SenderCancels
<1>2. CASE Snd!DoSend
  BY <1>1, <1>2, SenderSends
<1>3. CASE Snd!DoBeginSending
  BY <1>1, <1>3, SenderBegins
<1>4. CASE Snd!DoDone
  BY <1>1, <1>4, SenderDone
<1>5. CASE Snd!DoCancelled
  BY <1>1, <1>5, SenderStops
<1>6. CASE Snd!StreamChunk
  BY <1>1, <1>6, SenderStreamsChunk
<1>7. CASE Snd!StreamLast
  BY <1>1, <1>7, SenderStreamsLast
<1>8. CASE Snd!StreamEnd
  BY <1>1, <1>8, SenderStreamEnds
<1>9. CASE Snd!EndOfBatch
  BY <1>1, <1>9, SenderGoesRound
<1>10. CASE Snd!IoFails \/ Snd!ReadFails
  BY <1>1, <1>10, SenderBreaks
<1>11. CASE Snd!Cancel
  BY <1>1, <1>11, SenderCancelled
<1> QED BY <1>1, <1>2, <1>3, <1>4, <1>5, <1>6, <1>7, <1>8, <1>9, <1>10, <1>11

-----------------------------------------------------------------------------
(* The receiver *)

\* A step of the receiver that reads nothing, seen from the wire: it may reply,
\* it does not lose its place in what it reads, and it stores nothing.
ReceiverSpeaks ==
    \/ toSender' = toSender
    \/ \E f \in PairFrames : Reply(f, TurnedDown') /\ toSender' = Append(toSender, f)

ReceiverKeeps ==
    /\ Listening' => /\ Listening
                     /\ \A n \in 0 .. 3 : HasRead(r_fsm, n) => HasRead(r_fsm', n)
    /\ TurnedDown => TurnedDown'

ReceiverMoves ==
    ReceiverSpeaks /\ ReceiverKeeps /\ r_whole' = r_whole /\ r_written' = r_written

\* What it says is a reply.
LEMMA ReplyFrames ==
  ASSUME NEW t \in Replies, NEW no, t = "refuse" => no
  PROVE  /\ [type |-> t, files |-> {}] \in PairFrames
         /\ Reply([type |-> t, files |-> {}], no)
<1>1. [type |-> t, files |-> {}].type = t
  OBVIOUS
<1> QED BY <1>1 DEF PairFrames, Reply

\* The machine is in one of six states, and has not failed.
LEMMA ReceiverKnown ==
  ASSUME ReceiverPlace
  PROVE  r_fsm \in ReceiverStates
  BY DEF ReceiverPlace, ReceiverGreets, ReceiverTakes, ReceiverEnds, ReceiverAt, ReceiverStates

\* Returning.
LEMMA ReceiverReturns ==
  ASSUME ReceiverPart, r_pc' = "over", r_fsm' = r_fsm, r_introduction' = r_introduction,
         r_deferred' = r_deferred, r_whole' = r_whole, r_written' = r_written,
         r_cancelled' = r_cancelled, r_approved' = r_approved, Left => Left',
         r_outcome' = "received" => r_fsm = "Done" \/ Left, ReceiverSpeaks
  PROVE  ReceiverPart' /\ ReceiverMoves
<1>1. r_fsm \in ReceiverStates
  BY ReceiverKnown DEF ReceiverPart
<1>2. ReceiverPlace'
  BY <1>1 DEF ReceiverPlace
<1>3. ReceiverData'
  BY DEF ReceiverPart, ReceiverData
<1>4. ReceiverKeeps
  BY DEF ReceiverKeeps, TurnedDown, Listening
<1> QED BY <1>2, <1>3, <1>4 DEF ReceiverPart, ReceiverMoves

\* A frame is written.
LEMMA ReceiverSends ==
  ASSUME ReceiverPart, Rcv!DoSend, Left => Left'
  PROVE  ReceiverPart' /\ ReceiverMoves
<1>1. /\ Rcv!Doing("send")
      /\ toSender' = Append(toSender, Head(r_batch).frame) /\ r_batch' = Tail(r_batch)
      /\ r_pc' = r_pc /\ r_fsm' = r_fsm /\ r_introduction' = r_introduction
      /\ r_pending' = r_pending /\ r_deferred' = r_deferred /\ r_expected' = r_expected
      /\ r_written' = r_written /\ r_whole' = r_whole
      /\ r_cancelled' = r_cancelled /\ r_outcome' = r_outcome /\ r_approved' = r_approved
  BY Zenon DEF Rcv!DoSend, Rcv!Write, Rcv!machine, Rcv!files, Rcv!consent
<1>2. \/ ReceiverAt("effects", "PairedKey", ClaimOnly, <<>>)
      \/ ReceiverAt("effects", "PairedKey", VerdictOnly, <<>>)
      \/ ReceiverAt("effects", "Transferring", AcceptReceive, <<>>)
      \/ ReceiverAt("effects", "Done", RefuseDone, <<>>) /\ r_approved = {}
      \/ ReceiverAt("effects", "Cancelled", TellCancel, <<>>)
      \/ ReceiverAt("effects", "Cancelled", VerdictTellCancel, <<>>)
      \/ ReceiverAt("effects", "Cancelled", AcceptTellCancel, <<>>)
  BY <1>1, ReceiverQueues, SenderQueues DEF ReceiverPart, ReceiverPlace, ReceiverGreets,
     ReceiverTakes, ReceiverEnds, ReceiverAt, Rcv!Doing
<1>3. \/ ReceiverAt("effects", "PairedKey", <<>>, <<>>)'
      \/ ReceiverAt("effects", "Transferring", ReceiveOnly, <<>>)'
      \/ ReceiverAt("effects", "Done", DoneOnly, <<>>)'
      \/ ReceiverAt("effects", "Cancelled", CancelOnly, <<>>)'
      \/ ReceiverAt("effects", "Cancelled", TellCancel, <<>>)'
      \/ ReceiverAt("effects", "Cancelled", ReceiveTellCancel, <<>>)'
  BY <1>1, <1>2, ReceiverQueues, SenderQueues DEF ReceiverAt
<1>4. ReceiverPlace'
  BY <1>3 DEF ReceiverPlace, ReceiverGreets, ReceiverTakes, ReceiverEnds, ReceiverAt
<1>5. r_fsm' = "Transferring" => r_batch' # <<>>
  BY <1>3, ReceiverQueues DEF ReceiverAt
<1>6. ReceiverData'
  BY <1>1, <1>5 DEF ReceiverPart, ReceiverData
<1>7. \E t \in Replies : /\ Head(r_batch).frame = [type |-> t, files |-> {}]
                         /\ t = "refuse" => TurnedDown'
  <2>1. \/ Head(r_batch).frame = [type |-> "paired_key_encryption", files |-> {}]
        \/ Head(r_batch).frame = [type |-> "paired_key_result", files |-> {}]
        \/ Head(r_batch).frame = [type |-> "accept", files |-> {}]
        \/ Head(r_batch).frame = [type |-> "refuse", files |-> {}] /\ TurnedDown'
        \/ Head(r_batch).frame = [type |-> "cancel", files |-> {}]
    BY <1>1, <1>2, ReceiverQueues, SenderQueues DEF ReceiverAt, TurnedDown
  <2> QED BY <2>1 DEF Replies
<1>8. ReceiverSpeaks
  <2>1. PICK t \in Replies : /\ Head(r_batch).frame = [type |-> t, files |-> {}]
                             /\ t = "refuse" => TurnedDown'
    BY <1>7
  <2>2. /\ [type |-> t, files |-> {}] \in PairFrames
        /\ Reply([type |-> t, files |-> {}], TurnedDown')
    BY <2>1, ReplyFrames
  <2> QED BY <1>1, <2>1, <2>2 DEF ReceiverSpeaks
<1>9. ReceiverKeeps
  BY <1>1 DEF ReceiverKeeps, TurnedDown, Listening
<1> QED BY <1>1, <1>4, <1>6, <1>8, <1>9 DEF ReceiverPart, ReceiverMoves

\* The person is asked.
LEMMA ReceiverAsks ==
  ASSUME ReceiverPart, Rcv!DoAskUser, Left => Left'
  PROVE  ReceiverPart' /\ ReceiverMoves
<1>1. /\ Rcv!Doing("ask_user") /\ toSender' = toSender /\ r_batch' = Tail(r_batch)
      /\ r_pc' = "asking" /\ r_fsm' = r_fsm /\ r_introduction' = r_introduction
      /\ r_pending' = r_pending /\ r_deferred' = r_deferred /\ r_expected' = r_expected
      /\ r_written' = r_written /\ r_whole' = r_whole
      /\ r_cancelled' = r_cancelled /\ r_outcome' = r_outcome /\ r_approved' = r_approved
  BY Zenon DEF Rcv!DoAskUser, Rcv!machine, Rcv!files
<1>2. \/ ReceiverAt("effects", "AwaitingUser", AskOnly, <<>>)
      \/ ReceiverAt("effects", "Cancelled", AskTellCancel, <<>>)
  BY <1>1, ReceiverQueues, SenderQueues DEF ReceiverPart, ReceiverPlace, ReceiverGreets,
     ReceiverTakes, ReceiverEnds, ReceiverAt, Rcv!Doing
<1>3. \/ ReceiverAt("asking", "AwaitingUser", <<>>, <<>>)'
      \/ ReceiverAt("asking", "Cancelled", TellCancel, <<>>)'
  BY <1>1, <1>2, ReceiverQueues DEF ReceiverAt
<1>4. ReceiverPlace'
  BY <1>3 DEF ReceiverPlace, ReceiverGreets, ReceiverEnds, ReceiverAt
<1>5. ReceiverData'
  BY <1>1, <1>3 DEF ReceiverPart, ReceiverData, ReceiverAt
<1>6. ReceiverKeeps
  BY <1>1, <1>2 DEF ReceiverKeeps, TurnedDown, Listening, ReceiverAt
<1> QED BY <1>1, <1>4, <1>5, <1>6 DEF ReceiverPart, ReceiverMoves, ReceiverSpeaks

\* The announced files are expected.
LEMMA ReceiverBegins ==
  ASSUME ReceiverPart, Rcv!DoBeginReceiving, Left => Left'
  PROVE  ReceiverPart' /\ ReceiverMoves
<1>1. /\ Rcv!Doing("begin_receiving") /\ toSender' = toSender /\ r_batch' = Tail(r_batch)
      /\ r_expected' = r_expected \cup (Head(r_batch).frame.files \cap Files)
      /\ r_pc' = r_pc /\ r_fsm' = r_fsm /\ r_introduction' = r_introduction
      /\ r_pending' = r_pending /\ r_deferred' = r_deferred
      /\ r_written' = r_written /\ r_whole' = r_whole
      /\ r_cancelled' = r_cancelled /\ r_outcome' = r_outcome /\ r_approved' = r_approved
  BY Zenon DEF Rcv!DoBeginReceiving, Rcv!machine, Rcv!consent
<1>2. \/ ReceiverAt("effects", "Transferring", ReceiveOnly, <<>>)
      \/ ReceiverAt("effects", "Cancelled", ReceiveTellCancel, <<>>)
  BY <1>1, ReceiverQueues, SenderQueues DEF ReceiverPart, ReceiverPlace, ReceiverGreets,
     ReceiverTakes, ReceiverEnds, ReceiverAt, Rcv!Doing
<1>3. \/ ReceiverAt("effects", "Transferring", <<>>, <<>>)' /\ Files \subseteq r_expected'
      \/ ReceiverAt("effects", "Cancelled", TellCancel, <<>>)'
  <2>1. \/ ReceiverAt("effects", "Transferring", <<>>, <<>>)' /\ r_batch = ReceiveOnly
        \/ ReceiverAt("effects", "Cancelled", TellCancel, <<>>)'
    BY <1>1, <1>2, ReceiverQueues DEF ReceiverAt
  <2>2. ASSUME r_batch = ReceiveOnly
        PROVE  Files \subseteq r_expected'
    <3>1. Head(r_batch).frame = [type |-> "introduction", files |-> Files]
      BY <2>2, ReceiverQueues
    <3>2. Head(r_batch).frame.files = Files
      BY <3>1
    <3> QED BY <1>1, <3>2
  <2> QED BY <2>1, <2>2
<1>4. ReceiverPlace'
  BY <1>3 DEF ReceiverPlace, ReceiverTakes, ReceiverEnds, ReceiverAt
<1>5. r_fsm' = "Transferring" => Files \subseteq r_expected' \cup r_whole'
  BY <1>3 DEF ReceiverAt
<1>6. ReceiverData'
  BY <1>1, <1>5 DEF ReceiverPart, ReceiverData
<1>7. ReceiverKeeps
  BY <1>1 DEF ReceiverKeeps, TurnedDown, Listening
<1> QED BY <1>1, <1>4, <1>6, <1>7 DEF ReceiverPart, ReceiverMoves, ReceiverSpeaks

\* The receiver is done, and says goodbye.
LEMMA ReceiverDone ==
  ASSUME ReceiverPart, Rcv!DoDone, Left => Left'
  PROVE  ReceiverPart' /\ ReceiverMoves
<1>1. /\ Rcv!Doing("done") /\ toSender' = Append(toSender, Rcv!Frame("disconnect_safe"))
      /\ r_pc' = "over" /\ r_outcome' = "received" /\ r_fsm' = r_fsm
      /\ r_introduction' = r_introduction
      /\ r_deferred' = r_deferred /\ r_written' = r_written /\ r_whole' = r_whole
      /\ r_cancelled' = r_cancelled /\ r_approved' = r_approved
  BY Zenon DEF Rcv!DoDone, Rcv!Write, Rcv!Return, Rcv!machine, Rcv!files, Rcv!consent
<1>2. r_fsm = "Done"
  BY <1>1, ReceiverQueues, SenderQueues DEF ReceiverPart, ReceiverPlace, ReceiverGreets,
     ReceiverTakes, ReceiverEnds, ReceiverAt, Rcv!Doing
<1>3. ReceiverSpeaks
  <2>1. "disconnect_safe" \in Replies
    BY DEF Replies
  <2> QED BY <1>1, <2>1, ReplyFrames DEF ReceiverSpeaks, Rcv!Frame
<1> QED BY <1>1, <1>2, <1>3, ReceiverReturns

\* The receiver ends cancelled.
LEMMA ReceiverStops ==
  ASSUME ReceiverPart, Rcv!DoCancelled, Left => Left'
  PROVE  ReceiverPart' /\ ReceiverMoves
<1>1. /\ toSender' = toSender
      /\ r_pc' = "over" /\ r_outcome' = "cancelled" /\ r_fsm' = r_fsm
      /\ r_introduction' = r_introduction
      /\ r_deferred' = r_deferred /\ r_written' = r_written /\ r_whole' = r_whole
      /\ r_cancelled' = r_cancelled /\ r_approved' = r_approved
  BY Zenon DEF Rcv!DoCancelled, Rcv!Return, Rcv!machine, Rcv!consent
<1> QED BY <1>1, ReceiverReturns DEF ReceiverSpeaks

\* A write or a read fails.
LEMMA ReceiverBreaks ==
  ASSUME ReceiverPart, Rcv!WriteFails \/ Rcv!ReadFails, Left => Left'
  PROVE  ReceiverPart' /\ ReceiverMoves
<1>1. /\ toSender' = toSender
      /\ r_pc' = "over" /\ r_outcome' = "error" /\ r_fsm' = r_fsm
      /\ r_introduction' = r_introduction
      /\ r_deferred' = r_deferred /\ r_written' = r_written /\ r_whole' = r_whole
      /\ r_cancelled' = r_cancelled /\ r_approved' = r_approved
  BY Zenon DEF Rcv!WriteFails, Rcv!ReadFails, Rcv!Return, Rcv!machine, Rcv!files, Rcv!consent
<1> QED BY <1>1, ReceiverReturns DEF ReceiverSpeaks

\* Somebody cancels the receive.
LEMMA ReceiverCancelled ==
  ASSUME ReceiverPart, Rcv!Cancel, Left => Left'
  PROVE  ReceiverPart' /\ ReceiverMoves
<1>1. /\ r_cancelled' = TRUE /\ toSender' = toSender
      /\ r_pc' = r_pc /\ r_fsm' = r_fsm /\ r_introduction' = r_introduction
      /\ r_batch' = r_batch /\ r_pending' = r_pending /\ r_deferred' = r_deferred
      /\ r_expected' = r_expected /\ r_written' = r_written /\ r_whole' = r_whole
      /\ r_outcome' = r_outcome /\ r_approved' = r_approved
  BY Zenon DEF Rcv!Cancel, Rcv!machine, Rcv!queues, Rcv!files, Rcv!consent
<1>2. ReceiverPlace'
  BY <1>1 DEF ReceiverPart, ReceiverPlace, ReceiverGreets, ReceiverTakes, ReceiverEnds, ReceiverAt
<1>3. ReceiverData'
  BY <1>1 DEF ReceiverPart, ReceiverData
<1>4. ReceiverKeeps
  BY <1>1 DEF ReceiverKeeps, TurnedDown, Listening
<1> QED BY <1>1, <1>2, <1>3, <1>4 DEF ReceiverPart, ReceiverMoves, ReceiverSpeaks

\* The person's answer.
LEMMA ReceiverAnswered ==
  ASSUME ReceiverPart, NEW yes \in BOOLEAN, Rcv!Answered(yes), Left => Left'
  PROVE  ReceiverPart' /\ ReceiverMoves
<1> DEFINE e == IF yes THEN "user_accepted" ELSE "user_rejected"
           step == Rcv!InboundOn(r_fsm, r_introduction, Rcv!Event(e))
<1>1. /\ r_pc = "asking" /\ r_approved' = (IF yes THEN r_shown ELSE r_approved)
      /\ r_fsm' = step.state /\ r_introduction' = step.introduction
      /\ r_pending' = r_pending \o step.effects /\ r_pc' = "effects"
      /\ r_batch' = r_batch /\ r_deferred' = r_deferred /\ r_expected' = r_expected
      /\ r_written' = r_written /\ r_whole' = r_whole
      /\ r_cancelled' = r_cancelled /\ r_outcome' = r_outcome /\ toSender' = toSender
  BY Zenon DEF Rcv!Answered, Rcv!Feed, Rcv!files
<1>2. \/ ReceiverAt("asking", "AwaitingUser", <<>>, <<>>)
      \/ ReceiverAt("asking", "Cancelled", TellCancel, <<>>)
  BY <1>1 DEF ReceiverPart, ReceiverPlace, ReceiverGreets, ReceiverTakes, ReceiverEnds, ReceiverAt
<1>3. r_outcome # "received" \/ Left
  BY <1>2 DEF ReceiverPart, ReceiverData, ReceiverAt
<1>4. CASE ReceiverAt("asking", "AwaitingUser", <<>>, <<>>) /\ yes
  <2>1. r_introduction = Files /\ r_written = {}
    BY <1>4 DEF ReceiverPart, ReceiverData, ReceiverAt
  <2>2. step.state = "Transferring" /\ step.introduction = Files /\ step.effects = AcceptReceive
    BY <1>4, <2>1, ReceiverTold DEF ReceiverAt
  <2>3. ReceiverAt("effects", "Transferring", <<>>, AcceptReceive)'
    BY <1>1, <1>4, <2>2, QueuesJoined DEF ReceiverAt
  <2>4. ReceiverPlace'
    BY <2>3 DEF ReceiverPlace, ReceiverTakes, ReceiverAt
  <2>5. r_pending' # <<>> /\ r_fsm' = "Transferring" /\ r_introduction' = Files
    BY <1>1, <2>2, <2>3, ReceiverQueues DEF ReceiverAt
  <2>6. ReceiverData'
    BY <1>1, <1>3, <2>5 DEF ReceiverPart, ReceiverData
  <2>7. ReceiverKeeps
    BY <1>4, <2>5 DEF ReceiverKeeps, TurnedDown, Listening, HasRead, ReceiverAt
  <2> QED BY <1>1, <2>4, <2>6, <2>7 DEF ReceiverPart, ReceiverMoves, ReceiverSpeaks
<1>5. CASE ReceiverAt("asking", "AwaitingUser", <<>>, <<>>) /\ ~yes
  <2>1. r_written = {} /\ r_approved = {}
    BY <1>5 DEF ReceiverPart, ReceiverData, ReceiverAt
  <2>2. step.state = "Done" /\ step.effects = RefuseDone
    BY <1>5, <2>1, ReceiverTold DEF ReceiverAt
  <2>3. ReceiverAt("effects", "Done", <<>>, RefuseDone)'
    BY <1>1, <1>5, <2>2, QueuesJoined DEF ReceiverAt
  <2>5. r_fsm' = "Done" /\ r_approved' = {}
    BY <1>1, <1>5, <2>1, <2>2
  <2>4. ReceiverPlace'
    BY <2>3, <2>5 DEF ReceiverPlace, ReceiverEnds, ReceiverAt
  <2>6. ReceiverData'
    BY <1>1, <1>3, <2>1, <2>5 DEF ReceiverPart, ReceiverData
  <2>7. ReceiverKeeps
    BY <2>5 DEF ReceiverKeeps, TurnedDown, Listening
  <2> QED BY <1>1, <2>4, <2>6, <2>7 DEF ReceiverPart, ReceiverMoves, ReceiverSpeaks
<1>6. CASE ReceiverAt("asking", "Cancelled", TellCancel, <<>>)
  <2>1. e \in {"user_cancelled", "user_accepted", "user_rejected", "transfer_complete"}
    OBVIOUS
  <2>2. step.state = "Cancelled" /\ step.effects = <<>>
    BY <1>6, <2>1, ReceiverTold DEF ReceiverAt
  <2>3. ReceiverAt("effects", "Cancelled", TellCancel, <<>>)'
    BY <1>1, <1>6, <2>2, QueuesJoined DEF ReceiverAt
  <2>4. ReceiverPlace'
    BY <2>3 DEF ReceiverPlace, ReceiverEnds, ReceiverAt
  <2>5. r_fsm' = "Cancelled"
    BY <1>1, <2>2
  <2>6. ReceiverData'
    BY <1>1, <1>3, <2>5 DEF ReceiverPart, ReceiverData
  <2>7. ReceiverKeeps
    BY <1>6, <2>5 DEF ReceiverKeeps, TurnedDown, Listening, ReceiverAt
  <2> QED BY <1>1, <2>4, <2>6, <2>7 DEF ReceiverPart, ReceiverMoves, ReceiverSpeaks
<1> QED BY <1>2, <1>4, <1>5, <1>6

\* The places in which a batch is over.
LEMMA ReceiverIdle ==
  ASSUME ReceiverPlace, r_pc = "effects", r_batch = <<>>
  PROVE  \/ ReceiverAt("effects", "PairedKey", <<>>, <<>>)
         \/ ReceiverAt("effects", "PairedKey", <<>>, VerdictOnly)
         \/ ReceiverAt("effects", "Introduction", <<>>, <<>>)
         \/ ReceiverAt("effects", "AwaitingUser", <<>>, AskOnly)
         \/ ReceiverAt("effects", "Transferring", <<>>, AcceptReceive)
         \/ ReceiverAt("effects", "Transferring", <<>>, <<>>)
         \/ ReceiverAt("effects", "Done", <<>>, RefuseDone) /\ r_approved = {}
         \/ ReceiverAt("effects", "Done", <<>>, DoneOnly)
         \/ ReceiverAt("effects", "Cancelled", <<>>, CancelOnly)
  BY ReceiverQueues, SenderQueues DEF ReceiverPlace, ReceiverGreets, ReceiverTakes, ReceiverEnds,
                                      ReceiverAt

\* The end of a batch: a cancel is noticed, more is queued, or the peer is heard.
LEMMA ReceiverGoesRound ==
  ASSUME ReceiverPart, Rcv!EndOfBatch, Left => Left'
  PROVE  ReceiverPart' /\ ReceiverMoves
<1> DEFINE step == Rcv!InboundOn(r_fsm, r_introduction, Rcv!Event("user_cancelled"))
<1>1. /\ r_pc = "effects" /\ r_batch = <<>>
      /\ \/ /\ r_cancelled /\ r_fsm' = step.state /\ r_introduction' = step.introduction
            /\ r_batch' = r_pending \o step.effects /\ r_pending' = <<>> /\ r_pc' = r_pc
         \/ /\ r_pending # <<>> /\ r_batch' = r_pending /\ r_pending' = <<>>
            /\ r_pc' = r_pc /\ r_fsm' = r_fsm /\ r_introduction' = r_introduction
         \/ /\ r_pending = <<>> /\ r_pc' = "read" /\ r_fsm' = r_fsm
            /\ r_introduction' = r_introduction
            /\ r_batch' = r_batch /\ r_pending' = r_pending
      /\ r_deferred' = r_deferred /\ r_expected' = r_expected
      /\ r_written' = r_written /\ r_whole' = r_whole /\ r_approved' = r_approved
      /\ r_cancelled' = r_cancelled /\ r_outcome' = r_outcome /\ toSender' = toSender
  BY Zenon DEF Rcv!EndOfBatch, Rcv!machine, Rcv!queues, Rcv!files, Rcv!consent
<1>2. \/ ReceiverAt("effects", "PairedKey", <<>>, <<>>)
      \/ ReceiverAt("effects", "PairedKey", <<>>, VerdictOnly)
      \/ ReceiverAt("effects", "Introduction", <<>>, <<>>)
      \/ ReceiverAt("effects", "AwaitingUser", <<>>, AskOnly)
      \/ ReceiverAt("effects", "Transferring", <<>>, AcceptReceive)
      \/ ReceiverAt("effects", "Transferring", <<>>, <<>>)
      \/ ReceiverAt("effects", "Done", <<>>, RefuseDone) /\ r_approved = {}
      \/ ReceiverAt("effects", "Done", <<>>, DoneOnly)
      \/ ReceiverAt("effects", "Cancelled", <<>>, CancelOnly)
  BY <1>1, ReceiverIdle DEF ReceiverPart
<1>3. r_outcome # "received" \/ r_fsm = "Done" \/ Left
  BY DEF ReceiverPart, ReceiverData
<1>4. CASE /\ r_cancelled /\ r_fsm' = step.state /\ r_introduction' = step.introduction
           /\ r_batch' = r_pending \o step.effects /\ r_pending' = <<>> /\ r_pc' = r_pc
  <2>1. CASE r_fsm \in {"PairedKey", "Introduction", "AwaitingUser", "Transferring"}
    <3>1. step.state = "Cancelled" /\ step.effects = TellCancel
      BY <2>1, ReceiverTold
    <3> HIDE DEF step
    <3>2. \/ ReceiverAt("effects", "Cancelled", TellCancel, <<>>)'
          \/ ReceiverAt("effects", "Cancelled", VerdictTellCancel, <<>>)'
          \/ ReceiverAt("effects", "Cancelled", AskTellCancel, <<>>)'
          \/ ReceiverAt("effects", "Cancelled", AcceptTellCancel, <<>>)'
      BY <1>1, <1>2, <1>4, <2>1, <3>1, QueuesJoined DEF ReceiverAt
    <3>3. ReceiverPlace'
      BY <3>2 DEF ReceiverPlace, ReceiverEnds, ReceiverAt
    <3>4. r_fsm' = "Cancelled"
      BY <1>4, <3>1
    <3>5. ReceiverData'
      BY <1>1, <1>3, <2>1, <3>4 DEF ReceiverPart, ReceiverData
    <3>6. ReceiverKeeps
      BY <2>1, <3>4 DEF ReceiverKeeps, TurnedDown, Listening
    <3> QED BY <1>1, <3>3, <3>5, <3>6 DEF ReceiverPart, ReceiverMoves, ReceiverSpeaks
  <2>2. CASE r_fsm \in {"Done", "Cancelled"}
    <3>1. step.state = r_fsm /\ step.effects = <<>>
      BY <2>2, ReceiverTold
    <3> HIDE DEF step
    <3>2. \/ ReceiverAt("effects", "Done", RefuseDone, <<>>)' /\ r_approved' = {}
          \/ ReceiverAt("effects", "Done", DoneOnly, <<>>)'
          \/ ReceiverAt("effects", "Cancelled", CancelOnly, <<>>)'
      BY <1>1, <1>2, <1>4, <2>2, <3>1, QueuesJoined DEF ReceiverAt
    <3>3. ReceiverPlace'
      BY <3>2 DEF ReceiverPlace, ReceiverEnds, ReceiverAt
    <3>4. r_fsm' = r_fsm
      BY <1>4, <3>1
    <3>5. ReceiverData'
      BY <1>1, <1>3, <2>2, <3>4 DEF ReceiverPart, ReceiverData
    <3>6. ReceiverKeeps
      BY <1>1, <2>2, <3>4 DEF ReceiverKeeps, TurnedDown, Listening
    <3> QED BY <1>1, <3>3, <3>5, <3>6 DEF ReceiverPart, ReceiverMoves, ReceiverSpeaks
  <2> QED BY <1>2, <2>1, <2>2 DEF ReceiverAt
<1>5. CASE /\ r_pending # <<>> /\ r_batch' = r_pending /\ r_pending' = <<>>
           /\ r_pc' = r_pc /\ r_fsm' = r_fsm /\ r_introduction' = r_introduction
  <2>1. ReceiverPlace'
    BY <1>1, <1>2, <1>5 DEF ReceiverAt, ReceiverPlace, ReceiverGreets, ReceiverTakes, ReceiverEnds
  <2>2. ReceiverData'
    BY <1>1, <1>5 DEF ReceiverPart, ReceiverData
  <2>3. ReceiverKeeps
    BY <1>1, <1>5 DEF ReceiverKeeps, TurnedDown, Listening
  <2> QED BY <1>1, <2>1, <2>2, <2>3 DEF ReceiverPart, ReceiverMoves, ReceiverSpeaks
<1>6. CASE /\ r_pending = <<>> /\ r_pc' = "read" /\ r_fsm' = r_fsm
           /\ r_introduction' = r_introduction
           /\ r_batch' = r_batch /\ r_pending' = r_pending
  <2>1. ReceiverPlace'
    BY <1>1, <1>2, <1>6, ReceiverQueues, SenderQueues
       DEF ReceiverAt, ReceiverPlace, ReceiverGreets, ReceiverTakes
  <2>2. ReceiverData'
    BY <1>1, <1>6 DEF ReceiverPart, ReceiverData
  <2>3. ReceiverKeeps
    BY <1>1, <1>6 DEF ReceiverKeeps, TurnedDown, Listening
  <2> QED BY <1>1, <2>1, <2>2, <2>3 DEF ReceiverPart, ReceiverMoves, ReceiverSpeaks
<1> QED BY <1>1, <1>4, <1>5, <1>6

\* What the receiver does without reading keeps its part.
LEMMA ReceiverActs ==
  ASSUME ReceiverPart,
         ReceiverWorks \/ ReceiverSeesClose \/ ReceiverWriteFails \/ ReceiverCancels
  PROVE  /\ ReceiverPart' /\ ReceiverMoves
         /\ UNCHANGED <<toReceiver, cut, sender>>
<1>1. /\ UNCHANGED <<toReceiver, cut, sender>>
      /\ \/ Rcv!DoSend \/ Rcv!DoAskUser \/ Rcv!DoBeginReceiving \/ Rcv!DoDone \/ Rcv!DoCancelled
         \/ Rcv!EndOfBatch \/ (\E yes \in BOOLEAN : Rcv!Answered(yes))
         \/ Rcv!WriteFails \/ Rcv!ReadFails \/ Rcv!Cancel
  BY Zenon DEF ReceiverWorks, ReceiverSeesClose, ReceiverWriteFails, ReceiverCancels
<1>2. Left => Left'
  BY <1>1 DEF Left, sender
<1>3. CASE Rcv!DoSend
  BY <1>1, <1>2, <1>3, ReceiverSends
<1>4. CASE Rcv!DoAskUser
  BY <1>1, <1>2, <1>4, ReceiverAsks
<1>5. CASE Rcv!DoBeginReceiving
  BY <1>1, <1>2, <1>5, ReceiverBegins
<1>6. CASE Rcv!DoDone
  BY <1>1, <1>2, <1>6, ReceiverDone
<1>7. CASE Rcv!DoCancelled
  BY <1>1, <1>2, <1>7, ReceiverStops
<1>8. CASE Rcv!EndOfBatch
  BY <1>1, <1>2, <1>8, ReceiverGoesRound
<1>9. CASE \E yes \in BOOLEAN : Rcv!Answered(yes)
  BY <1>1, <1>2, <1>9, ReceiverAnswered
<1>10. CASE Rcv!WriteFails \/ Rcv!ReadFails
  BY <1>1, <1>2, <1>10, ReceiverBreaks
<1>11. CASE Rcv!Cancel
  BY <1>1, <1>2, <1>11, ReceiverCancelled
<1> QED BY <1>1, <1>3, <1>4, <1>5, <1>6, <1>7, <1>8, <1>9, <1>10, <1>11

\* How many frames of the greeting are behind the receiver after one more.
OneMore(n) == IF n < 3 THEN n + 1 ELSE 3

\* A frame the receiver reads, next in its turn.
NextFrame(f, n) ==
    /\ Letter(f, s_begun, s_sent, Left) /\ HasRead(r_fsm, n)
    /\ n < 3 => f = Greeting[n + 1]
    /\ n >= 3 => f.type # "introduction"

\* What it may make of it.
ReceiverTook(n) ==
    /\ ReceiverSpeaks
    /\ Listening' => HasRead(r_fsm', OneMore(n))
    /\ TurnedDown => TurnedDown'
    /\ r_whole' \subseteq r_whole \cup s_sent
    /\ r_written' \subseteq r_written \cup s_begun \cup s_sent

\* The three places in which it reads.
LEMMA ReceiverReadPlaces ==
  ASSUME ReceiverPart, r_pc = "read"
  PROVE  \/ ReceiverAt("read", "PairedKey", <<>>, <<>>)
         \/ ReceiverAt("read", "Introduction", <<>>, <<>>)
         \/ ReceiverAt("read", "Transferring", <<>>, <<>>)
  BY DEF ReceiverPart, ReceiverPlace, ReceiverGreets, ReceiverTakes, ReceiverEnds, ReceiverAt

\* The frame and the state of the machine match.
LEMMA FrameInTurn ==
  ASSUME ReceiverPart, r_pc = "read", NEW f, NEW n \in 0 .. 3, NextFrame(f, n)
  PROVE  \/ r_fsm = "PairedKey" /\ f.type = "paired_key_encryption" /\ n = 0
         \/ r_fsm = "PairedKey" /\ f.type = "paired_key_result" /\ n = 1
         \/ r_fsm = "Introduction" /\ f.type = "introduction" /\ f.files = Files /\ n = 2
         \/ r_fsm = "Transferring" /\ f.type # "introduction" /\ n = 3
<1>1. /\ Greeting[1].type = "paired_key_encryption" /\ Greeting[2].type = "paired_key_result"
      /\ Greeting[3].type = "introduction" /\ Greeting[3].files = Files
  BY DEF Greeting
<1>2. r_fsm \in {"PairedKey", "Introduction", "Transferring"}
  BY ReceiverReadPlaces DEF ReceiverAt
<1>3. /\ r_fsm = "PairedKey" => n = 0 \/ n = 1
      /\ r_fsm = "Introduction" => n = 2
      /\ r_fsm = "Transferring" => n = 3
  BY DEF NextFrame, HasRead
<1>4. n = 0 => f = Greeting[1]
  BY DEF NextFrame
<1>5. n = 1 => f = Greeting[2]
  BY DEF NextFrame
<1>6. n = 2 => f = Greeting[3]
  BY DEF NextFrame
<1>7. n = 3 => f.type # "introduction"
  BY DEF NextFrame
<1> QED BY <1>1, <1>2, <1>3, <1>4, <1>5, <1>6, <1>7

\* A frame of the exchange.
LEMMA ReceiverHearsSharing ==
  ASSUME ReceiverPart, r_pc = "read", r_deferred' = r_deferred, Left => Left',
         NEW f, NEW n \in 0 .. 3, NextFrame(f, n), Rcv!OnSharing(f)
  PROVE  ReceiverPart' /\ ReceiverTook(n)
<1> DEFINE step == Rcv!InboundOn(r_fsm, r_introduction, Rcv!FrameEvent(f))
<1>1. /\ f.type \in Rcv!PlainFrames \cup {"introduction"}
      /\ r_fsm' = step.state /\ r_introduction' = step.introduction
      /\ r_pending' = r_pending \o step.effects /\ r_pc' = "effects"
      /\ r_batch' = r_batch /\ r_expected' = r_expected
      /\ r_written' = r_written /\ r_whole' = r_whole /\ r_approved' = r_approved
      /\ r_cancelled' = r_cancelled /\ r_outcome' = r_outcome /\ toSender' = toSender
  BY Zenon DEF Rcv!OnSharing, Rcv!Feed, Rcv!files, Rcv!consent
<1>2. r_batch = <<>> /\ r_pending = <<>>
  BY ReceiverReadPlaces DEF ReceiverAt
<1>3. \/ r_fsm = "PairedKey" /\ f.type = "paired_key_encryption" /\ n = 0
      \/ r_fsm = "PairedKey" /\ f.type = "paired_key_result" /\ n = 1
      \/ r_fsm = "Introduction" /\ f.type = "introduction" /\ f.files = Files /\ n = 2
      \/ r_fsm = "Transferring" /\ f.type # "introduction" /\ n = 3
  BY FrameInTurn
<1>4. \/ /\ r_fsm = "PairedKey" /\ n = 0 /\ step.state = "PairedKey"
         /\ step.introduction = r_introduction /\ step.effects = VerdictOnly
      \/ /\ r_fsm = "PairedKey" /\ n = 1 /\ step.state = "Introduction"
         /\ step.introduction = r_introduction /\ step.effects = <<>>
      \/ /\ r_fsm = "Introduction" /\ n = 2 /\ step.state = "AwaitingUser"
         /\ step.introduction = Files /\ step.effects = AskOnly
      \/ /\ r_fsm = "Transferring" /\ n = 3 /\ step.state = "Transferring"
         /\ step.introduction = r_introduction /\ step.effects = <<>>
      \/ /\ r_fsm = "Transferring" /\ n = 3 /\ step.state = "Cancelled"
         /\ step.introduction = r_introduction /\ step.effects = CancelOnly
  <2>1. r_fsm = "Transferring" => f.type \in {"paired_key_encryption", "paired_key_result", "cancel"}
    BY <1>1, <1>3 DEF NextFrame, Letter, LetterTypes, Rcv!PlainFrames
  <2>2. CASE r_fsm = "PairedKey" /\ f.type = "paired_key_encryption" /\ n = 0
    BY <2>2, ReceiverHears
  <2>3. CASE r_fsm = "PairedKey" /\ f.type = "paired_key_result" /\ n = 1
    BY <2>3, ReceiverHears
  <2>4. CASE r_fsm = "Introduction" /\ f.type = "introduction" /\ f.files = Files /\ n = 2
    BY <2>4, ReceiverHears
  <2>5. CASE r_fsm = "Transferring" /\ n = 3 /\ f.type \in {"paired_key_encryption", "paired_key_result"}
    BY <2>5, ReceiverHears
  <2>6. CASE r_fsm = "Transferring" /\ n = 3 /\ f.type = "cancel"
    BY <2>6, ReceiverHears
  <2> QED BY <1>3, <2>1, <2>2, <2>3, <2>4, <2>5, <2>6
<1> HIDE DEF step
<1>5. \/ /\ r_fsm = "PairedKey" /\ n = 0 /\ ReceiverAt("effects", "PairedKey", <<>>, VerdictOnly)'
         /\ r_introduction' = r_introduction
      \/ /\ r_fsm = "PairedKey" /\ n = 1 /\ ReceiverAt("effects", "Introduction", <<>>, <<>>)'
         /\ r_introduction' = r_introduction
      \/ /\ r_fsm = "Introduction" /\ n = 2 /\ ReceiverAt("effects", "AwaitingUser", <<>>, AskOnly)'
         /\ r_introduction' = Files
      \/ /\ r_fsm = "Transferring" /\ n = 3 /\ ReceiverAt("effects", "Transferring", <<>>, <<>>)'
         /\ r_introduction' = r_introduction
      \/ /\ r_fsm = "Transferring" /\ n = 3 /\ ReceiverAt("effects", "Cancelled", <<>>, CancelOnly)'
         /\ r_introduction' = r_introduction
  BY <1>1, <1>2, <1>4, QueuesJoined DEF ReceiverAt
<1>6. ReceiverPlace'
  BY <1>5 DEF ReceiverPlace, ReceiverGreets, ReceiverTakes, ReceiverEnds, ReceiverAt
<1>7. ReceiverData'
  BY <1>1, <1>2, <1>5 DEF ReceiverPart, ReceiverData, ReceiverAt
<1>8. Listening' => HasRead(r_fsm', OneMore(n))
  BY <1>5 DEF Listening, HasRead, OneMore, ReceiverAt
<1>9. ~TurnedDown
  BY <1>3 DEF TurnedDown
<1> QED BY <1>1, <1>6, <1>7, <1>8, <1>9 DEF ReceiverPart, ReceiverTook, ReceiverSpeaks

\* Bytes of a file, or its end.
LEMMA ReceiverHearsChunk ==
  ASSUME ReceiverPart, r_pc = "read", r_deferred' = r_deferred, Left => Left',
         NEW f, NEW n \in 0 .. 3, NextFrame(f, n), Rcv!OnChunk(f)
  PROVE  ReceiverPart' /\ ReceiverTook(n)
<1> DEFINE step == Rcv!InboundOn(r_fsm, r_introduction, Rcv!Event("transfer_complete"))
           Refused == /\ r_pc' = "over" /\ r_outcome' = "error"
                      /\ r_fsm' = r_fsm /\ r_introduction' = r_introduction
                      /\ r_written' = r_written /\ r_whole' = r_whole
           Fails(a) == /\ r_pc' = "over" /\ r_outcome' = "error"
                       /\ r_fsm' = r_fsm /\ r_introduction' = r_introduction
                       /\ r_written' = r_written \cup {a} /\ r_whole' = r_whole
           Stays == r_fsm' = r_fsm /\ r_introduction' = r_introduction /\ r_pending' = r_pending
           Completes == /\ r_fsm' = step.state /\ r_introduction' = step.introduction
                        /\ r_pending' = r_pending \o step.effects
           Stored(a) == /\ a \in r_expected /\ r_written' = r_written \cup {a}
                        /\ r_pc' = "effects" /\ r_batch' = r_batch /\ r_outcome' = r_outcome
           Closes(a) == /\ f.type = "last_chunk" /\ r_expected' = r_expected \ {a}
                        /\ r_whole' = r_whole \cup {a}
           Fills == r_expected' = r_expected /\ r_whole' = r_whole /\ Stays
<1>1. /\ f.type \in {"chunk", "last_chunk"} /\ r_approved' = r_approved
      /\ r_cancelled' = r_cancelled /\ toSender' = toSender
      /\ \E a \in f.files :
            \/ Refused \/ Fails(a)
            \/ Stored(a) /\ Closes(a) /\ r_expected = {a} /\ Completes
            \/ Stored(a) /\ Closes(a) /\ r_expected # {a} /\ Stays
            \/ Stored(a) /\ f.type = "chunk" /\ Fills
  <2>1. /\ f.type \in {"chunk", "last_chunk"} /\ r_approved' = r_approved
        /\ r_cancelled' = r_cancelled /\ toSender' = toSender
    BY Zenon DEF Rcv!OnChunk, Rcv!consent
  <2>2. PICK a \in f.files :
          \/ /\ a \notin r_expected
             /\ Rcv!Return("error")
             /\ UNCHANGED <<Rcv!machine, Rcv!files>>
          \/ /\ a \in r_expected
             /\ a \notin r_sinks
             /\ Rcv!Return("error")
             /\ UNCHANGED <<Rcv!machine, Rcv!files>>
          \/ /\ r_written' = r_written \cup {a}
             /\ Rcv!Return("error")
             /\ UNCHANGED <<Rcv!machine, r_expected, r_whole>>
          \/ /\ a \in r_expected
             /\ r_written' = r_written \cup {a}
             /\ r_inbox' = r_inbox \cup {a}
             /\ r_pc' = "effects"
             /\ IF f.type = "last_chunk"
                THEN /\ r_sinks' = r_sinks \ {a}
                     /\ r_expected' = r_expected \ {a}
                     /\ r_whole' = r_whole \cup {a}
                     /\ IF r_expected = {a} THEN Rcv!Feed(Rcv!Event("transfer_complete"))
                                            ELSE UNCHANGED <<Rcv!machine, r_pending>>
                ELSE /\ r_sinks' = r_sinks \cup {a}
                     /\ UNCHANGED <<Rcv!machine, r_pending, r_expected, r_whole>>
             /\ UNCHANGED <<r_batch, r_outcome>>
    BY Zenon DEF Rcv!OnChunk
  <2>3. ASSUME Rcv!Return("error"), UNCHANGED <<Rcv!machine, Rcv!files>>
        PROVE  Refused
    BY <2>3, Zenon DEF Rcv!Return, Rcv!machine, Rcv!files
  <2>4. ASSUME Rcv!Feed(Rcv!Event("transfer_complete"))
        PROVE  Completes
    BY <2>4, Zenon DEF Rcv!Feed
  <2>5. ASSUME UNCHANGED <<Rcv!machine, r_pending>>
        PROVE  Stays
    BY <2>5, Zenon DEF Rcv!machine
  <2>6. ASSUME Rcv!Return("error"), r_written' = r_written \cup {a},
               UNCHANGED <<Rcv!machine, r_expected, r_whole>>
        PROVE  Fails(a)
    BY <2>6, Zenon DEF Rcv!Return, Rcv!machine
  <2> HIDE DEF Refused, Fails, Stays, Completes
  <2> QED BY <2>1, <2>2, <2>3, <2>4, <2>5, <2>6
<1>2. /\ r_fsm = "Transferring" /\ n = 3
  BY <1>1, FrameInTurn
<1>3. /\ r_batch = <<>> /\ r_pending = <<>> /\ r_introduction = Files
      /\ Files \subseteq r_expected \cup r_whole /\ (r_outcome = "received" => Left)
  <2>1. r_batch = <<>> /\ r_pending = <<>>
    BY ReceiverReadPlaces DEF ReceiverAt
  <2> QED BY <1>2, <2>1 DEF ReceiverPart, ReceiverData
<1>4. f.files \subseteq s_begun \cup s_sent /\ (f.type = "last_chunk" => f.files \subseteq s_sent)
  BY <1>1 DEF NextFrame, Letter
<1>5. PICK a \in f.files :
            \/ Refused \/ Fails(a)
            \/ Stored(a) /\ Closes(a) /\ r_expected = {a} /\ Completes
            \/ Stored(a) /\ Closes(a) /\ r_expected # {a} /\ Stays
            \/ Stored(a) /\ f.type = "chunk" /\ Fills
  BY <1>1
<1>6. CASE Refused
  <2>1. ReceiverPart' /\ ReceiverMoves
    BY <1>1, <1>6, ReceiverReturns DEF ReceiverSpeaks
  <2> QED BY <1>6, <2>1 DEF ReceiverMoves, ReceiverKeeps, ReceiverTook, Listening
<1>9. CASE Fails(a)
  <2>1. ReceiverPlace'
    BY <1>2, <1>9 DEF ReceiverPlace, ReceiverStates
  <2>2. ReceiverData'
    BY <1>1, <1>2, <1>9 DEF ReceiverPart, ReceiverData
  <2>3. r_written' \subseteq r_written \cup s_begun \cup s_sent
    BY <1>4, <1>9
  <2>4. ReceiverTook(n)
    BY <1>1, <1>2, <1>9, <2>3 DEF ReceiverTook, ReceiverSpeaks, Listening, TurnedDown
  <2> QED BY <2>1, <2>2, <2>4 DEF ReceiverPart
<1>7. CASE Stored(a) /\ Closes(a) /\ r_expected = {a} /\ Completes
  <2>1. step.state = "Done" /\ step.effects = DoneOnly
    BY <1>2, ReceiverTold
  <2>2. ReceiverAt("effects", "Done", <<>>, DoneOnly)'
    BY <1>3, <1>7, <2>1, QueuesJoined DEF ReceiverAt
  <2>3. ReceiverPlace'
    BY <2>2 DEF ReceiverPlace, ReceiverEnds, ReceiverAt
  <2>4. Files \subseteq r_whole'
    BY <1>3, <1>7
  <2>5. r_fsm' = "Done"
    BY <2>2 DEF ReceiverAt
  <2>6. ReceiverData'
    BY <1>1, <1>3, <2>4, <2>5 DEF ReceiverPart, ReceiverData
  <2>7. ReceiverTook(n)
    BY <1>1, <1>2, <1>4, <1>7, <2>5 DEF ReceiverTook, ReceiverSpeaks, Listening, TurnedDown
  <2> QED BY <2>3, <2>6, <2>7 DEF ReceiverPart
<1>8. CASE \/ Stored(a) /\ Closes(a) /\ r_expected # {a} /\ Stays
           \/ Stored(a) /\ f.type = "chunk" /\ Fills
  <2>1. ReceiverAt("effects", "Transferring", <<>>, <<>>)'
    BY <1>2, <1>3, <1>8 DEF ReceiverAt
  <2>2. ReceiverPlace'
    BY <2>1 DEF ReceiverPlace, ReceiverTakes, ReceiverAt
  <2>3. Files \subseteq r_expected' \cup r_whole'
    BY <1>3, <1>8
  <2>4. r_fsm' = "Transferring" /\ r_introduction' = Files /\ r_outcome' = r_outcome
    BY <1>2, <1>3, <1>8
  <2>5. ReceiverData'
    BY <1>1, <1>3, <2>3, <2>4 DEF ReceiverPart, ReceiverData
  <2>6. HasRead(r_fsm', OneMore(n))
    BY <1>2, <2>4 DEF HasRead, OneMore
  <2>7. r_whole' \subseteq r_whole \cup s_sent /\ r_written' \subseteq r_written \cup s_begun \cup s_sent
    BY <1>4, <1>8
  <2>8. ReceiverTook(n)
    BY <1>1, <1>2, <2>6, <2>7 DEF ReceiverTook, ReceiverSpeaks, TurnedDown
  <2> QED BY <2>2, <2>5, <2>8 DEF ReceiverPart
<1> HIDE DEF Refused, Fails, Stored, Closes, Completes, Stays, Fills
<1> QED BY <1>5, <1>6, <1>7, <1>8, <1>9

\* A farewell.
LEMMA ReceiverHearsFarewell ==
  ASSUME ReceiverPart, r_pc = "read", r_deferred' = r_deferred, Left => Left',
         NEW f, NEW n \in 0 .. 3, NextFrame(f, n), Rcv!OnDisconnect(f)
  PROVE  ReceiverPart' /\ ReceiverTook(n)
<1>1. /\ f.type \in {"disconnect", "disconnect_safe"}
      /\ toSender' = toSender \/ toSender' = Append(toSender, Rcv!Frame("disconnect"))
      /\ r_pc' = "over" /\ r_fsm' = r_fsm /\ r_introduction' = r_introduction
      /\ r_written' = r_written /\ r_whole' = r_whole
      /\ r_cancelled' = r_cancelled /\ r_approved' = r_approved
  BY Zenon DEF Rcv!OnDisconnect, Rcv!Write, Rcv!Return, Rcv!machine, Rcv!files, Rcv!consent
<1>2. Left
  BY <1>1 DEF NextFrame, Letter
<1>3. ReceiverSpeaks
  <2>1. "disconnect" \in Replies
    BY DEF Replies
  <2> QED BY <1>1, <2>1, ReplyFrames DEF ReceiverSpeaks, Rcv!Frame
<1>4. ReceiverPart' /\ ReceiverMoves
  BY <1>1, <1>2, <1>3, ReceiverReturns
<1> QED BY <1>1, <1>4 DEF ReceiverMoves, ReceiverKeeps, ReceiverTook, Listening

\* Reading the next frame keeps the receiver's part.
LEMMA ReceiverListens ==
  ASSUME ReceiverPart, Left => Left', NEW f, NEW n \in 0 .. 3, NextFrame(f, n), Rcv!Receive(f)
  PROVE  ReceiverPart' /\ ReceiverTook(n)
<1>1. r_pc = "read" /\ r_deferred' = r_deferred /\ Rcv!Handle(f)
  BY Zenon DEF Rcv!Receive
<1>2. Rcv!OnSharing(f) \/ Rcv!OnChunk(f) \/ Rcv!OnDisconnect(f)
  BY <1>1 DEF Rcv!Handle, Rcv!OnPayloadCancel, Rcv!OnPathRequest, Rcv!OnControl, Rcv!OnBad,
              NextFrame, Letter, LetterTypes
<1> QED BY <1>1, <1>2, ReceiverHearsSharing, ReceiverHearsChunk, ReceiverHearsFarewell

-----------------------------------------------------------------------------
(* The wires *)

\* A wire with one frame more: where each frame stands.
LEMMA WireAppend ==
  ASSUME NEW q \in Seq(PairFrames), NEW f \in PairFrames
  PROVE  /\ Append(q, f) \in Seq(PairFrames) /\ Len(Append(q, f)) = Len(q) + 1
         /\ \A i \in 1 .. Len(q) : Append(q, f)[i] = q[i]
         /\ Append(q, f)[Len(q) + 1] = f
         /\ Len(q) \in Nat
  OBVIOUS

\* A wire with its first frame read.
LEMMA WireTail ==
  ASSUME NEW q \in Seq(PairFrames), q # <<>>
  PROVE  /\ Tail(q) \in Seq(PairFrames) /\ Len(Tail(q)) = Len(q) - 1 /\ Len(q) \in Nat
         /\ Len(q) >= 1 /\ Head(q) = q[1]
         /\ \A i \in 1 .. Len(q) - 1 : Tail(q)[i] = q[i + 1]
  OBVIOUS

\* A letter stays one while its sender goes on.
LEMMA LettersGrow ==
  ASSUME NEW q, NEW b1, NEW s1, NEW l1, NEW b2, NEW s2, NEW l2,
         Letters(q, b1, s1, l1), b1 \subseteq b2, s1 \subseteq s2, l1 => l2
  PROVE  Letters(q, b2, s2, l2)
<1>1. ASSUME NEW f, Letter(f, b1, s1, l1)
      PROVE  Letter(f, b2, s2, l2)
  BY <1>1 DEF Letter
<1> QED BY <1>1 DEF Letters

\* One more is written.
LEMMA LettersAppend ==
  ASSUME NEW q, NEW f, NEW b, NEW s, NEW l, Letters(q, b, s, l), Letter(f, b, s, l)
  PROVE  Letters(Append(q, f), b, s, l)
<1>1. q \in Seq(PairFrames) /\ f \in PairFrames
  BY DEF Letters, Letter
<1>2. /\ Append(q, f) \in Seq(PairFrames) /\ Len(Append(q, f)) = Len(q) + 1
      /\ \A i \in 1 .. Len(q) : Append(q, f)[i] = q[i]
      /\ Append(q, f)[Len(q) + 1] = f /\ Len(q) \in Nat
  BY <1>1, WireAppend
<1>3. ASSUME NEW i \in 1 .. Len(q) + 1
      PROVE  Letter(Append(q, f)[i], b, s, l)
  <2>1. i \in 1 .. Len(q) \/ i = Len(q) + 1
    BY <1>2
  <2> QED BY <1>2, <2>1 DEF Letters
<1> QED BY <1>2, <1>3 DEF Letters

\* The first is read.
LEMMA LettersTail ==
  ASSUME NEW q, NEW b, NEW s, NEW l, Letters(q, b, s, l), q # <<>>
  PROVE  Letters(Tail(q), b, s, l) /\ Letter(Head(q), b, s, l)
<1>1. q \in Seq(PairFrames)
  BY DEF Letters
<1>2. /\ Tail(q) \in Seq(PairFrames) /\ Len(Tail(q)) = Len(q) - 1 /\ Len(q) \in Nat
      /\ Len(q) >= 1 /\ Head(q) = q[1]
      /\ \A i \in 1 .. Len(q) - 1 : Tail(q)[i] = q[i + 1]
  BY <1>1, WireTail
<1>3. ASSUME NEW i \in 1 .. Len(q) - 1
      PROVE  Letter(Tail(q)[i], b, s, l)
  <2>1. i + 1 \in 1 .. Len(q)
    BY <1>2
  <2> QED BY <1>2, <2>1 DEF Letters
<1>4. 1 \in 1 .. Len(q)
  BY <1>2
<1> QED BY <1>2, <1>3, <1>4 DEF Letters

\* The greeting keeps coming in order when it is continued.
LEMMA UnreadAppend ==
  ASSUME NEW q \in Seq(PairFrames), NEW f \in PairFrames, NEW n \in 0 .. 3, Unread(q, n),
         n + Len(q) < 3 => f = Greeting[n + Len(q) + 1],
         n + Len(q) >= 3 => f.type # "introduction"
  PROVE  Unread(Append(q, f), n)
<1>1. /\ Len(Append(q, f)) = Len(q) + 1 /\ Len(q) \in Nat
      /\ \A i \in 1 .. Len(q) : Append(q, f)[i] = q[i]
      /\ Append(q, f)[Len(q) + 1] = f
  BY WireAppend
<1>2. ASSUME NEW i \in 1 .. Len(q) + 1
      PROVE  /\ n + i =< 3 => Append(q, f)[i] = Greeting[n + i]
             /\ n + i > 3 => Append(q, f)[i].type # "introduction"
  <2>1. CASE i \in 1 .. Len(q)
    BY <1>1, <2>1 DEF Unread
  <2>2. CASE i = Len(q) + 1
    <3>1. n + i = n + Len(q) + 1 /\ Append(q, f)[i] = f
      BY <1>1, <2>2
    <3>2. /\ n + i =< 3 => n + Len(q) < 3
          /\ n + i > 3 => n + Len(q) >= 3
      BY <1>1, <2>2
    <3> QED BY <3>1, <3>2
  <2> QED BY <1>1, <2>1, <2>2
<1> QED BY <1>1, <1>2 DEF Unread

\* And when it is read.
LEMMA UnreadTail ==
  ASSUME NEW q \in Seq(PairFrames), q # <<>>, NEW n \in 0 .. 3, Unread(q, n)
  PROVE  /\ Unread(Tail(q), OneMore(n))
         /\ n < 3 => Head(q) = Greeting[n + 1]
         /\ n >= 3 => Head(q).type # "introduction"
<1>1. /\ Len(Tail(q)) = Len(q) - 1 /\ Len(q) \in Nat /\ Len(q) >= 1 /\ Head(q) = q[1]
      /\ \A i \in 1 .. Len(q) - 1 : Tail(q)[i] = q[i + 1]
  BY WireTail
<1>2. 1 \in 1 .. Len(q)
  BY <1>1
<1>3. /\ n < 3 => Head(q) = Greeting[n + 1]
      /\ n >= 3 => Head(q).type # "introduction"
  BY <1>1, <1>2 DEF Unread
<1>4. ASSUME NEW i \in 1 .. Len(q) - 1
      PROVE  /\ OneMore(n) + i =< 3 => Tail(q)[i] = Greeting[OneMore(n) + i]
             /\ OneMore(n) + i > 3 => Tail(q)[i].type # "introduction"
  <2>1. i + 1 \in 1 .. Len(q)
    BY <1>1
  <2>2. Tail(q)[i] = q[i + 1]
    BY <1>1
  <2>3. /\ n + (i + 1) =< 3 => q[i + 1] = Greeting[n + (i + 1)]
        /\ n + (i + 1) > 3 => q[i + 1].type # "introduction"
    BY <2>1 DEF Unread
  <2>4. CASE n < 3
    <3>1. OneMore(n) + i = n + (i + 1)
      BY <1>1, <2>4 DEF OneMore
    <3> QED BY <2>2, <2>3, <3>1
  <2>5. CASE n = 3
    <3>1. OneMore(n) + i > 3 /\ n + (i + 1) > 3 /\ ~(OneMore(n) + i =< 3)
      BY <1>1, <2>5 DEF OneMore
    <3> QED BY <2>2, <2>3, <3>1
  <2> QED BY <2>4, <2>5
<1> QED BY <1>1, <1>3, <1>4 DEF Unread

\* A step of the sender leaves the receiver the right frames to read.
LEMMA SenderKeepsWire ==
  ASSUME SenderPart, ToReceiver, SenderMoves, r_pc' = r_pc, r_fsm' = r_fsm
  PROVE  ToReceiver'
<1>1. s_pc # "over" /\ s_begun \subseteq s_begun' /\ s_sent \subseteq s_sent' /\ ~Left
  BY DEF SenderMoves, Left
<1>2. Letters(toReceiver, s_begun', s_sent', Left')
  BY <1>1, LettersGrow DEF ToReceiver
<1>3. toReceiver \in Seq(PairFrames) /\ Len(toReceiver) \in Nat
  BY <1>2 DEF Letters
<1>4. Stage(s_batch) \in 0 .. 3
  BY DEF Stage
<1>5. Listening' <=> Listening
  BY DEF Listening
<1>6. CASE SenderSilent
  <2>1. Letters(toReceiver', s_begun', s_sent', Left')
    BY <1>2, <1>6 DEF SenderSilent
  <2>2. ASSUME NEW n \in 0 .. 3, Expecting(n)
        PROVE  Expecting(n)'
    BY <1>1, <1>6, <2>2 DEF Expecting, SenderSilent
  <2> QED BY <1>5, <2>1, <2>2 DEF ToReceiver
<1>7. CASE \E f \in PairFrames : SenderSpeaks(f)
  <2>1. PICK f \in PairFrames : SenderSpeaks(f)
    BY <1>7
  <2>2. toReceiver' = Append(toReceiver, f) /\ Letter(f, s_begun', s_sent', Left')
    BY <2>1 DEF SenderSpeaks
  <2>3. Letters(toReceiver', s_begun', s_sent', Left')
    BY <1>2, <2>2, LettersAppend
  <2>4. Len(toReceiver') = Len(toReceiver) + 1
    BY <1>3, <2>2, WireAppend
  <2>5. ASSUME NEW n \in 0 .. 3, Expecting(n)
        PROVE  Expecting(n)'
    <3>1. Sofar(Stage(s_batch), n, Len(toReceiver)) /\ Unread(toReceiver, n) /\ HasRead(r_fsm, n)
      BY <1>1, <2>5 DEF Expecting
    <3>2. CASE /\ Stage(s_batch) < 3 /\ Stage(s_batch') = Stage(s_batch) + 1
               /\ f = Greeting[Stage(s_batch) + 1]
      <4>1. n + Len(toReceiver) = Stage(s_batch)
        BY <3>1, <3>2 DEF Sofar
      <4>2. n + Len(toReceiver) < 3 /\ f = Greeting[n + Len(toReceiver) + 1]
        BY <3>2, <4>1
      <4>3. Unread(toReceiver', n)
        BY <1>3, <1>4, <2>2, <3>1, <4>2, UnreadAppend
      <4>4. Sofar(Stage(s_batch'), n, Len(toReceiver'))
        BY <1>3, <1>4, <2>4, <3>2, <4>1 DEF Sofar
      <4> QED BY <3>1, <4>3, <4>4 DEF Expecting
    <3>3. CASE /\ Stage(s_batch) = 3 /\ (s_pc' = "over" \/ Stage(s_batch') = 3)
               /\ f.type # "introduction"
      <4>1. n + Len(toReceiver) >= 3
        BY <3>1, <3>3 DEF Sofar
      <4>2. Unread(toReceiver', n)
        BY <1>3, <2>2, <3>1, <3>3, <4>1, UnreadAppend
      <4>3. s_pc' # "over" => Sofar(Stage(s_batch'), n, Len(toReceiver'))
        BY <1>3, <2>4, <3>3, <4>1 DEF Sofar
      <4> QED BY <3>1, <4>2, <4>3 DEF Expecting
    <3> QED BY <2>1, <3>2, <3>3 DEF SenderSpeaks
  <2> QED BY <1>5, <2>3, <2>5 DEF ToReceiver
<1> QED BY <1>6, <1>7 DEF SenderMoves

\* So does a step of the receiver that reads nothing.
LEMMA ReceiverKeepsWire ==
  ASSUME ToReceiver, ReceiverKeeps, UNCHANGED <<toReceiver, cut, sender>>
  PROVE  ToReceiver'
<1>1. /\ toReceiver' = toReceiver /\ s_pc' = s_pc /\ s_fsm' = s_fsm /\ s_batch' = s_batch
      /\ s_begun' = s_begun /\ s_sent' = s_sent
  BY Zenon DEF sender
<1>2. Letters(toReceiver, s_begun, s_sent, Left)'
  BY <1>1 DEF ToReceiver, Left
<1>3. ASSUME Listening', NEW n \in 0 .. 3, Expecting(n)
      PROVE  Expecting(n)'
  BY <1>1, <1>3 DEF ReceiverKeeps, Expecting
<1> QED BY <1>2, <1>3 DEF ToReceiver, ReceiverKeeps

\* The frame the receiver reads is the next in its turn, and the rest follow.
LEMMA ReceiverReadsInTurn ==
  ASSUME ReceiverPart, ToReceiver, r_pc = "read", toReceiver # <<>>
  PROVE  \E n \in 0 .. 3 : NextFrame(Head(toReceiver), n) /\ Expecting(n)
<1>1. Letters(toReceiver, s_begun, s_sent, Left) /\ toReceiver \in Seq(PairFrames)
  BY DEF ToReceiver, Letters
<1>2. Listening
  BY ReceiverReadPlaces DEF Listening, ReceiverAt
<1>3. PICK n \in 0 .. 3 : Expecting(n)
  BY <1>2 DEF ToReceiver
<1>4. /\ n < 3 => Head(toReceiver) = Greeting[n + 1]
      /\ n >= 3 => Head(toReceiver).type # "introduction"
  BY <1>1, <1>3, UnreadTail DEF Expecting
<1>5. Letter(Head(toReceiver), s_begun, s_sent, Left)
  BY <1>1, LettersTail
<1> QED BY <1>3, <1>4, <1>5 DEF NextFrame, Expecting

\* Reading leaves the right frames to read.
LEMMA ReadingKeepsWire ==
  ASSUME ToReceiver, NEW n \in 0 .. 3, Expecting(n), ReceiverTook(n), toReceiver # <<>>,
         toReceiver' = Tail(toReceiver), UNCHANGED <<cut, sender>>
  PROVE  ToReceiver'
<1>1. /\ s_pc' = s_pc /\ s_fsm' = s_fsm /\ s_batch' = s_batch
      /\ s_begun' = s_begun /\ s_sent' = s_sent
  BY Zenon DEF sender
<1>2. Letters(toReceiver, s_begun, s_sent, Left) /\ toReceiver \in Seq(PairFrames)
  BY DEF ToReceiver, Letters
<1>3. Letters(Tail(toReceiver), s_begun, s_sent, Left)
  BY <1>2, LettersTail
<1>4. Letters(toReceiver, s_begun, s_sent, Left)'
  BY <1>1, <1>3 DEF Left
<1>5. /\ Len(toReceiver') = Len(toReceiver) - 1 /\ Len(toReceiver) \in Nat
      /\ Len(toReceiver) >= 1
  BY <1>2, WireTail
<1>6. Unread(toReceiver', OneMore(n))
  BY <1>2, UnreadTail DEF Expecting
<1>7. OneMore(n) \in 0 .. 3
  BY DEF OneMore
<1>8. s_pc' # "over" => Sofar(Stage(s_batch'), OneMore(n), Len(toReceiver'))
  <2>1. s_pc' # "over" => Sofar(Stage(s_batch'), n, Len(toReceiver))
    BY <1>1 DEF Expecting
  <2> QED BY <1>5, <2>1 DEF Sofar, OneMore, Stage
<1>9. Listening' => Expecting(OneMore(n))'
  BY <1>6, <1>8 DEF ReceiverTook, Expecting
<1> QED BY <1>4, <1>7, <1>9 DEF ToReceiver

\* The other wire.
LEMMA RepliesKept ==
  ASSUME ToTheSender, ReceiverSpeaks, TurnedDown => TurnedDown'
  PROVE  ToTheSender'
<1>1. CASE toSender' = toSender
  BY <1>1 DEF ToTheSender, Reply
<1>2. CASE \E f \in PairFrames : Reply(f, TurnedDown') /\ toSender' = Append(toSender, f)
  <2>1. PICK f \in PairFrames : Reply(f, TurnedDown') /\ toSender' = Append(toSender, f)
    BY <1>2
  <2>2. toSender \in Seq(PairFrames)
    BY DEF ToTheSender
  <2>3. /\ toSender' \in Seq(PairFrames) /\ Len(toSender') = Len(toSender) + 1
        /\ \A i \in 1 .. Len(toSender) : toSender'[i] = toSender[i]
        /\ toSender'[Len(toSender) + 1] = f /\ Len(toSender) \in Nat
    BY <2>1, <2>2, WireAppend
  <2>4. ASSUME NEW i \in 1 .. Len(toSender) + 1
        PROVE  Reply(toSender'[i], TurnedDown')
    <3>1. i \in 1 .. Len(toSender) \/ i = Len(toSender) + 1
      BY <2>3
    <3> QED BY <2>1, <2>3, <3>1 DEF ToTheSender, Reply
  <2> QED BY <2>3, <2>4 DEF ToTheSender
<1> QED BY <1>1, <1>2 DEF ReceiverSpeaks

\* A reply is read.
LEMMA RepliesRead ==
  ASSUME ToTheSender, toSender # <<>>
  PROVE  /\ Reply(Head(toSender), TurnedDown)
         /\ toSender' = Tail(toSender) /\ (TurnedDown => TurnedDown') => ToTheSender'
<1>1. toSender \in Seq(PairFrames)
  BY DEF ToTheSender
<1>2. /\ Tail(toSender) \in Seq(PairFrames) /\ Len(Tail(toSender)) = Len(toSender) - 1
      /\ Len(toSender) \in Nat /\ Len(toSender) >= 1 /\ Head(toSender) = toSender[1]
      /\ \A i \in 1 .. Len(toSender) - 1 : Tail(toSender)[i] = toSender[i + 1]
  BY <1>1, WireTail
<1>3. 1 \in 1 .. Len(toSender) /\ \A i \in 1 .. Len(toSender) - 1 : i + 1 \in 1 .. Len(toSender)
  BY <1>2
<1>4. \A i \in 1 .. Len(toSender) - 1 : Reply(Tail(toSender)[i], TurnedDown)
  BY <1>2, <1>3 DEF ToTheSender
<1>5. Reply(Head(toSender), TurnedDown)
  BY <1>2, <1>3 DEF ToTheSender
<1> QED BY <1>2, <1>4, <1>5 DEF ToTheSender, Reply

-----------------------------------------------------------------------------
(* The two together *)

\* It holds at the start.
LEMMA PairStart == PairInit => PairInv
<1> SUFFICES ASSUME PairInit
             PROVE  PairInv
  OBVIOUS
<1>1. /\ s_pc = "effects" /\ s_fsm = Snd!OutboundStart(Files).state
      /\ s_batch = Snd!OutboundStart(Files).effects /\ s_pending = <<>> /\ s_deferred = <<>>
      /\ s_deadline = FALSE /\ s_begun = {} /\ s_sent = {} /\ s_cancelled = FALSE
      /\ s_outcome = "none" /\ toReceiver = <<>>
  BY Zenon DEF PairInit, Snd!Init
<1>2. /\ r_pc = "effects" /\ r_fsm = Rcv!InboundStart.state
      /\ r_introduction = Rcv!InboundStart.introduction
      /\ r_batch = Rcv!InboundStart.effects /\ r_pending = <<>> /\ r_deferred = <<>>
      /\ r_expected = {} /\ r_written = {} /\ r_whole = {} /\ r_cancelled = FALSE
      /\ r_outcome = "none" /\ r_approved = {} /\ toSender = <<>>
  BY Zenon DEF PairInit, Rcv!Init
<1>3. s_fsm = "Introduction" /\ s_batch = GreetAll
  <2>1. /\ \A t : Snd!SendEffect(Snd!Frame(t)) = Utter(t)
        /\ Snd!SendEffect(Snd!IntroductionFrame(Files)) = With("send")
    BY Zenon DEF Snd!SendEffect, Snd!Frame, Snd!IntroductionFrame, Utter, With
  <2>2. /\ Snd!OutboundStart(Files).state = "Introduction"
        /\ Snd!OutboundStart(Files).effects
              = <<Snd!SendEffect(Snd!Frame("paired_key_encryption")),
                  Snd!SendEffect(Snd!Frame("paired_key_result")),
                  Snd!SendEffect(Snd!IntroductionFrame(Files))>>
    BY DEF Snd!OutboundStart, Snd!Step
  <2> QED BY <1>1, <2>1, <2>2, Zenon DEF GreetAll
<1>4. r_fsm = "PairedKey" /\ r_batch = ClaimOnly
  <2>1. Rcv!SendEffect(Rcv!Frame("paired_key_encryption")) = Utter("paired_key_encryption")
    BY Zenon DEF Rcv!SendEffect, Rcv!Frame, Utter
  <2>2. /\ Rcv!InboundStart.state = "PairedKey"
        /\ Rcv!InboundStart.effects = <<Rcv!SendEffect(Rcv!Frame("paired_key_encryption"))>>
    BY DEF Rcv!InboundStart, Rcv!Step
  <2> QED BY <1>2, <2>1, <2>2, Zenon DEF ClaimOnly
<1>5. SenderPart
  <2>1. s_batch # BeginTellCancel
    BY <1>3, SenderStages
  <2> QED BY <1>1, <1>3, <2>1, PairAssumption
          DEF SenderPart, SenderPlace, SenderGreets, SenderAt, SenderData
<1>6. ReceiverPart
  BY <1>2, <1>4 DEF ReceiverPart, ReceiverPlace, ReceiverGreets, ReceiverAt, ReceiverData
<1>7. ToReceiver
  <2>1. Len(toReceiver) = 0 /\ toReceiver \in Seq(PairFrames)
    BY <1>1
  <2>2. Expecting(0)
    <3>1. Sofar(Stage(s_batch), 0, Len(toReceiver))
      BY <1>3, <2>1, SenderStages DEF Sofar
    <3> QED BY <1>4, <2>1, <3>1 DEF Expecting, HasRead, Unread
  <2> QED BY <2>1, <2>2 DEF ToReceiver, Letters
<1>8. ToTheSender
  BY <1>2 DEF ToTheSender
<1>9. Finishes
  BY <1>3 DEF Finishes
<1> QED BY <1>1, <1>2, <1>5, <1>6, <1>7, <1>8, <1>9 DEF PairInv, Harvest

\* Every step of either side, of the wires and of the network keeps it.
LEMMA PairStep == PairInv /\ [PairNext]_pairVars => PairInv'
<1> SUFFICES ASSUME PairInv, [PairNext]_pairVars
             PROVE  PairInv'
  OBVIOUS
<1>0. /\ SenderPart /\ ReceiverPart /\ ToReceiver /\ ToTheSender /\ Finishes /\ Harvest
      /\ s_sent \subseteq s_begun
  BY DEF PairInv, SenderPart, SenderData
<1>1. ASSUME SenderPart', SenderMoves, UNCHANGED receiver, ToTheSender'
      PROVE  PairInv'
  <2>1. /\ r_pc' = r_pc /\ r_fsm' = r_fsm /\ r_introduction' = r_introduction
        /\ r_batch' = r_batch /\ r_pending' = r_pending /\ r_deferred' = r_deferred
        /\ r_expected' = r_expected /\ r_written' = r_written /\ r_whole' = r_whole
        /\ r_cancelled' = r_cancelled /\ r_outcome' = r_outcome /\ r_approved' = r_approved
    BY <1>1, Zenon DEF receiver
  <2>2. s_begun \subseteq s_begun' /\ s_sent \subseteq s_sent' /\ ~Left
    BY <1>1 DEF SenderMoves, Left
  <2>3. ReceiverPlace'
    BY <1>0, <2>1 DEF ReceiverPart, ReceiverPlace, ReceiverGreets, ReceiverTakes, ReceiverEnds,
                      ReceiverAt
  <2>4. ReceiverData'
    BY <1>0, <2>1, <2>2 DEF ReceiverPart, ReceiverData
  <2>5. ToReceiver'
    BY <1>0, <1>1, <2>1, SenderKeepsWire
  <2>6. Harvest'
    BY <1>0, <2>1, <2>2 DEF Harvest
  <2>7. Finishes'
    <3>1. s_sent = Files => s_sent' = Files
      BY <1>1, <2>2 DEF SenderPart, SenderData
    <3>2. s_fsm' = "Done" => s_fsm = "Done" \/ s_sent' = Files \/ TurnedDown
      BY <1>1 DEF SenderMoves
    <3>3. TurnedDown' = TurnedDown
      BY <2>1 DEF TurnedDown
    <3> QED BY <1>0, <3>1, <3>2, <3>3 DEF Finishes
  <2> QED BY <1>1, <2>3, <2>4, <2>5, <2>6, <2>7 DEF PairInv, ReceiverPart
<1>2. ASSUME ReceiverPart', UNCHANGED sender
      PROVE  /\ SenderPart' /\ (Harvest /\ r_whole' = r_whole /\ r_written' = r_written => Harvest')
             /\ (TurnedDown => TurnedDown') => Finishes'
  <2>1. /\ s_pc' = s_pc /\ s_fsm' = s_fsm /\ s_batch' = s_batch /\ s_pending' = s_pending
        /\ s_deferred' = s_deferred /\ s_deadline' = s_deadline /\ s_begun' = s_begun
        /\ s_sent' = s_sent /\ s_cancelled' = s_cancelled /\ s_outcome' = s_outcome
    BY <1>2, Zenon DEF sender
  <2>2. SenderPlace'
    BY <1>0, <2>1 DEF SenderPart, SenderPlace, SenderGreets, SenderStreams, SenderEnds, SenderAt
  <2>3. SenderData'
    BY <1>0, <2>1 DEF SenderPart, SenderData
  <2> QED BY <1>0, <2>1, <2>2, <2>3 DEF SenderPart, Harvest, Finishes
<1>3. CASE SenderWorks \/ SenderSeesClose \/ SenderWriteFails \/ SenderCancels
  <2>1. SenderPart' /\ SenderMoves /\ toSender' = toSender /\ UNCHANGED receiver
    BY <1>0, <1>3, SenderActs
  <2>2. TurnedDown' = TurnedDown
    BY <2>1 DEF receiver, TurnedDown
  <2>3. ToTheSender'
    BY <1>0, <2>1, <2>2 DEF ToTheSender
  <2> QED BY <1>1, <2>1, <2>3
<1>4. CASE SenderReads
  <2>1. /\ toSender # <<>> /\ Snd!Receive(Head(toSender)) /\ toSender' = Tail(toSender)
        /\ UNCHANGED receiver
    BY <1>4 DEF SenderReads
  <2>0. TurnedDown' = TurnedDown
    BY <2>1 DEF receiver, TurnedDown
  <2>2. Reply(Head(toSender), TurnedDown) /\ ToTheSender'
    BY <1>0, <2>0, <2>1, RepliesRead
  <2>3. SenderPart' /\ SenderMoves
    BY <1>0, <2>1, <2>2, SenderListens
  <2> QED BY <1>1, <2>1, <2>2, <2>3
<1>5. CASE ReceiverWorks \/ ReceiverSeesClose \/ ReceiverWriteFails \/ ReceiverCancels
  <2>1. ReceiverPart' /\ ReceiverMoves /\ UNCHANGED <<toReceiver, cut, sender>>
    BY <1>0, <1>5, ReceiverActs
  <2>2. ToReceiver'
    BY <1>0, <2>1, ReceiverKeepsWire DEF ReceiverMoves
  <2>3. ToTheSender'
    BY <1>0, <2>1, RepliesKept DEF ReceiverMoves, ReceiverKeeps
  <2>4. SenderPart' /\ Finishes' /\ Harvest'
    BY <1>0, <1>2, <2>1 DEF ReceiverMoves, ReceiverKeeps
  <2> QED BY <2>1, <2>2, <2>3, <2>4 DEF PairInv
<1>6. CASE ReceiverReads
  <2>1. /\ toReceiver # <<>> /\ Rcv!Receive(Head(toReceiver)) /\ toReceiver' = Tail(toReceiver)
        /\ UNCHANGED <<cut, sender>>
    BY <1>6 DEF ReceiverReads
  <2>2. r_pc = "read"
    BY <2>1 DEF Rcv!Receive
  <2>3. PICK n \in 0 .. 3 : NextFrame(Head(toReceiver), n) /\ Expecting(n)
    BY <1>0, <2>1, <2>2, ReceiverReadsInTurn
  <2>4. Left => Left'
    BY <2>1 DEF Left, sender
  <2>5. ReceiverPart' /\ ReceiverTook(n)
    BY <1>0, <2>1, <2>3, <2>4, ReceiverListens
  <2>6. ToReceiver'
    BY <1>0, <2>1, <2>3, <2>5, ReadingKeepsWire
  <2>7. ToTheSender'
    BY <1>0, <2>5, RepliesKept DEF ReceiverTook
  <2>8. SenderPart' /\ Finishes'
    BY <1>2, <2>1, <2>5 DEF ReceiverTook
  <2>9. s_begun' = s_begun /\ s_sent' = s_sent
    BY <2>1 DEF sender
  <2>10. Harvest'
    BY <1>0, <2>5, <2>9 DEF Harvest, ReceiverTook
  <2> QED BY <2>5, <2>6, <2>7, <2>8, <2>10 DEF PairInv
<1>7. CASE Drop \/ UNCHANGED pairVars
  <2>1. UNCHANGED <<toReceiver, toSender, sender, receiver>>
    BY <1>7 DEF Drop, pairVars
  <2>2. /\ r_pc' = r_pc /\ r_fsm' = r_fsm /\ r_introduction' = r_introduction
        /\ r_batch' = r_batch /\ r_pending' = r_pending /\ r_deferred' = r_deferred
        /\ r_expected' = r_expected /\ r_written' = r_written /\ r_whole' = r_whole
        /\ r_cancelled' = r_cancelled /\ r_outcome' = r_outcome /\ r_approved' = r_approved
    BY <2>1, Zenon DEF receiver
  <2>3. /\ s_pc' = s_pc /\ s_fsm' = s_fsm /\ s_batch' = s_batch
        /\ s_begun' = s_begun /\ s_sent' = s_sent
    BY <2>1, Zenon DEF sender
  <2>4. ReceiverPlace'
    BY <1>0, <2>2 DEF ReceiverPart, ReceiverPlace, ReceiverGreets, ReceiverTakes, ReceiverEnds,
                      ReceiverAt
  <2>5. ReceiverData'
    BY <1>0, <2>2, <2>3 DEF ReceiverPart, ReceiverData, Left
  <2>6. ReceiverPart'
    BY <2>4, <2>5 DEF ReceiverPart
  <2>10. TurnedDown' = TurnedDown
    BY <2>2 DEF TurnedDown
  <2>7. SenderPart' /\ Finishes' /\ Harvest'
    BY <1>0, <1>2, <2>1, <2>2, <2>6, <2>10
  <2>8. ToReceiver'
    <3>1. Letters(toReceiver, s_begun, s_sent, Left)'
      BY <1>0, <2>1, <2>3 DEF ToReceiver, Left
    <3>2. ASSUME NEW n \in 0 .. 3, Expecting(n)
          PROVE  Expecting(n)'
      BY <2>1, <2>2, <2>3, <3>2 DEF Expecting
    <3>3. Listening' => Listening
      BY <2>2 DEF Listening
    <3> QED BY <1>0, <3>1, <3>2, <3>3 DEF ToReceiver
  <2>9. ToTheSender'
    BY <1>0, <2>1, <2>10 DEF ToTheSender
  <2> QED BY <2>6, <2>7, <2>8, <2>9 DEF PairInv
<1> QED BY <1>3, <1>4, <1>5, <1>6, <1>7 DEF PairNext

\* What each side of a transfer reports about the other, for any files, whoever
\* cancels when, whatever the person answers and whenever the network goes: a
\* finished, approved receive has every file whole, a sender told "true" sent
\* everything or was refused, one told "false" did not deliver everything, and
\* what is stored was sent.
THEOREM PairAgrees == PairSpec => []Agreement
<1>1. PairInv => Agreement
  <2> SUFFICES ASSUME PairInv
               PROVE  Agreement
    OBVIOUS
  <2>1. SenderPart /\ ReceiverPart /\ Finishes /\ Harvest
    BY DEF PairInv
  <2>2. s_fsm \in {"Introduction", "Transferring", "Done", "Cancelled"}
    BY <2>1, SenderStarts DEF SenderPart
  <2>3. r_fsm \in ReceiverStates
    BY <2>1, ReceiverKnown DEF ReceiverPart
  <2>4. /\ r_whole \subseteq s_sent /\ r_written \subseteq s_begun
        /\ s_sent \subseteq s_begun /\ s_begun \subseteq Files
    BY <2>1 DEF Harvest, SenderPart, SenderData
  <2>5. r_fsm = "Done" => (r_approved = {} /\ r_written = {}) \/ Files \subseteq r_whole
    BY <2>1 DEF ReceiverPart, ReceiverData
  <2>6. s_outcome = "false" => s_sent # Files /\ (s_fsm = "Introduction" => s_begun = {})
    BY <2>1, PairAssumption DEF SenderPart, SenderData
  <2>7. s_outcome = "false" => s_pc = "over" /\ s_fsm \in {"Introduction", "Cancelled"}
    BY <2>1 DEF SenderPart, SenderData
  <2>8. r_outcome = "received" => r_fsm = "Done" \/ Left
    BY <2>1 DEF ReceiverPart, ReceiverData
  <2>9. s_outcome = "false" => r_whole # Files
    BY <2>4, <2>6
  <2>10. s_outcome = "false" /\ r_outcome = "received" => r_written = {}
    <3> SUFFICES ASSUME s_outcome = "false", r_outcome = "received"
                 PROVE  r_written = {}
      OBVIOUS
    <3>1. CASE r_fsm = "Done"
      BY <2>4, <2>5, <2>6, <3>1
    <3>2. CASE Left
      BY <2>4, <2>6, <2>7, <3>2 DEF Left
    <3> QED BY <2>8, <3>1, <3>2
  <2>11. r_outcome = "received" /\ r_fsm = "Done" /\ r_approved # {} =>
            r_whole = Files /\ s_sent = Files
    BY <2>4, <2>5
  <2>12. r_fsm # "Failed" /\ s_fsm # "Failed"
    BY <2>2, <2>3 DEF ReceiverStates
  <2>13. s_outcome = "true" => s_sent = Files \/ (r_fsm = "Done" /\ r_approved = {})
    BY <2>1 DEF SenderPart, SenderData, Finishes, TurnedDown
  <2> QED BY <2>4, <2>9, <2>10, <2>11, <2>12, <2>13 DEF Agreement
<1> QED BY <1>1, PairStart, PairStep, PTL DEF PairSpec
=============================================================================
