----------------------------- MODULE PeerTable -----------------------------
(***************************************************************************)
(* The AirDrop discovery loop of sharingd (start_discovery) and the mDNS   *)
(* Browser it owns: the peers it lists, and the advertisement by which     *)
(* this device is listed by others.                                        *)
(*                                                                         *)
(* tarishd creates and destroys the AWDL interface as the radio is taken   *)
(* and released, so the loop re-opens its socket whenever the interface    *)
(* index or its link-local address changes, or the socket goes dead.  Each *)
(* pass of the loop is a sequence of steps (pc); the binder calls and the  *)
(* interface may move between any two of them.  The end of a pass is one   *)
(* tick of the clock, and every duration below is in ticks.                *)
(***************************************************************************)
EXTENDS Naturals, FiniteSets

CONSTANTS
    Peer,             \* the instances other devices advertise
    LOST_UNANSWERED,  \* questions without an answer before a peer may be lost
    LOST_AFTER,       \* and the silence that must go with them
    Leases,           \* the leases ttl_of grants records that are no goodbye
    GRACE,            \* the floor the loop passes to expire
    DEBOUNCE,         \* LABEL_DEBOUNCE_TICKS
    FAILURES,         \* failed queries in a row that make a socket stale
    MaxMoves,         \* bound: changes and failures of the link, departures of peers
    MaxCalls          \* bound: calls of the app

ASSUME ConstantsAssumption ==
    /\ IsFiniteSet(Peer)
    /\ {LOST_UNANSWERED, LOST_AFTER, GRACE, DEBOUNCE, FAILURES} \subseteq Nat \ {0}
    /\ IsFiniteSet(Leases) /\ Leases # {} /\ Leases \subseteq Nat \ {0}
    \* 45 and 60 seconds: an age that stops at LOST_AFTER decides both rules.
    /\ GRACE <= LOST_AFTER
    /\ MaxMoves \in Nat
    /\ MaxCalls \in Nat

VARIABLES
    idx,              \* the interface's index, 0 when there is none
    addr,             \* its link-local address, 0 when it has none
    moves,            \* how often the world has moved; numbers indexes and addresses
    present,          \* the peers in range
    leaving,          \* peers that left with a goodbye that may still arrive
    calls,            \* calls made by the app
    discoverable, reset_identity, refresh_now,   \* the flags the calls set
    pc,               \* where the pass of the loop is
    sock,             \* the Browser's socket and its advertising flag
    bound_idx, bound_addr, was_advertising, failures,   \* the loop's locals
    instance,         \* the Browser's identity
    table,            \* Browser::peers
    gate,             \* probe_eviction and the age of eviction_since
    ticks,            \* unreceptive_ticks
    labelled,         \* the peers whose unreceptive_since is set
    peers, peers_idx, \* the published table, and the interface it was heard on
    standing,         \* history: identities announced and not withdrawn
    unsaid,           \* history: those of them no goodbye could be sent for any more
    vouch             \* history: ticks since BLE accounted for every listed peer

link == <<idx, addr, moves, present, leaving>>
flags == <<calls, discoverable, reset_identity, refresh_now>>
bound == <<bound_idx, bound_addr>>
browser == <<sock, table, gate, labelled>>
vars == <<link, flags, pc, browser, bound, was_advertising, failures, instance,
          ticks, peers, peers_idx, standing, unsaid, vouch>>

-----------------------------------------------------------------------------
(* The Browser.                                                            *)

None == [listed |-> FALSE]

Entry == [listed : {TRUE}, seen : 0 .. LOST_AFTER, lease : Nat,
          unanswered : 0 .. LOST_UNANSWERED, reach : BOOLEAN, withdrawn : BOOLEAN]

Least(a, b) == IF a < b THEN a ELSE b

Listed(t) == {p \in Peer : t[p].listed}

Empty == [p \in Peer |-> None]

GateOpened == [on |-> TRUE, age |-> 0]

\* A socket on the interface of this moment.  Another program may hold port
\* 5353, and then the socket cannot answer.
Open(can) == [idx |-> idx, addr |-> addr, alive |-> TRUE, can |-> can,
              advertising |-> FALSE]

\* Browser::new: an empty table, a gate that has just opened.  The old socket is
\* dropped without a goodbye: what it announced stands.
NewBrowser(can) ==
    /\ sock' = Open(can)
    /\ table' = Empty
    /\ gate' = GateOpened
    /\ labelled' = {}
    /\ unsaid' = standing /\ standing' = standing

\* A packet sent now leaves the device.
Sends == idx # 0 /\ sock.idx = idx /\ sock.alive

\* It also comes from an address that is still ours, so it can be answered.
Reaches == Sends /\ addr # 0 /\ sock.addr = addr

\* Every peer in s owes one more answer.
Owing(t, s) ==
    [p \in Peer |-> IF p \in s /\ t[p].listed
                    THEN [t[p] EXCEPT !.unanswered = Least(@ + 1, LOST_UNANSWERED)]
                    ELSE t[p]]

\* query: only a question that must be answered counts, and only if it went.
query(t, unicast) == IF unicast /\ Sends THEN Owing(t, Peer) ELSE t

\* probe: the same question to every peer whose address is known.
probe(t) == IF Sends THEN Owing(t, {p \in Listed(t) : t[p].reach}) ELSE t

\* announce: the identity stands on this link until it is withdrawn.
announce(o) == IF sock.advertising /\ Sends THEN o \cup {instance} ELSE o

\* stop_advertising: the goodbye, three times; a failure is at most logged.
stop_advertising ==
    /\ sock' = [sock EXCEPT !.advertising = FALSE]
    /\ standing' = IF Sends THEN standing \ {instance} ELSE standing
    /\ unsaid' = IF Sends THEN unsaid \ {instance} ELSE unsaid \cup {instance}

\* answer: a question about us is answered while we advertise.
Answers == sock.advertising /\ Reaches

\* absorb: what one packet of p does to its entry.  A goodbye marks it for good.
Absorb(e, k, lease) ==
    IF k = "none" THEN e
    ELSE [listed |-> TRUE, seen |-> 0, unanswered |-> 0,
          lease |-> IF k = "goodbye" THEN 1 ELSE lease,
          reach |-> (k = "full") \/ (e.listed /\ e.reach),
          withdrawn |-> (k = "goodbye") \/ (e.listed /\ e.withdrawn)]

\* Slip: the gate counts as soon as it opens.
RipeAtOnce == gate.on

\* eviction_ripe: BLE has not accounted for the listed peers for LOST_AFTER.
Ripe == gate.on /\ gate.age >= LOST_AFTER

\* Slip: the lease is trusted, and silence never removes a peer.
LostByLease(e) == e.lease = 0 /\ e.withdrawn

\* expire: the three ways a peer is lost.
Lost(e) ==
    \/ Ripe /\ e.unanswered >= LOST_UNANSWERED /\ e.seen >= LOST_AFTER
    \/ e.withdrawn /\ e.lease = 0
    \/ Ripe /\ e.lease = 0 /\ e.seen >= GRACE

Expire(t) == [p \in Peer |-> IF t[p].listed /\ Lost(t[p]) THEN None ELSE t[p]]

\* Half a second passes.
Older(t) ==
    [p \in Peer |-> IF t[p].listed
                    THEN [t[p] EXCEPT !.seen = Least(@ + 1, LOST_AFTER),
                                      !.lease = IF @ = 0 THEN 0 ELSE @ - 1]
                    ELSE t[p]]

-----------------------------------------------------------------------------
(* The pass.                                                               *)

Init ==
    /\ idx = 1 /\ addr = 1 /\ moves = 1
    /\ present = Peer /\ leaving = {}
    /\ calls = 0 /\ discoverable \in BOOLEAN /\ reset_identity = FALSE /\ refresh_now = FALSE
    /\ pc = "bind"
    /\ sock \in {Open(can) : can \in BOOLEAN}
    /\ table = Empty /\ gate = GateOpened /\ labelled = {}
    /\ bound_idx = 1 /\ bound_addr = 1 /\ was_advertising = FALSE /\ failures = 0
    /\ instance = 0 /\ ticks = 0
    /\ peers = {} /\ peers_idx = 1
    /\ standing = {} /\ unsaid = {} /\ vouch = LOST_AFTER

\* The interface is gone: nothing listed is reachable, wait for it to return.
Idle ==
    /\ pc = "bind" /\ idx = 0 /\ bound_idx # 0
    /\ bound_idx' = 0
    /\ was_advertising' = FALSE
    /\ peers' = {}
    /\ unsaid' = standing
    /\ UNCHANGED <<link, flags, pc, browser, bound_addr, failures, instance, ticks,
                   peers_idx, standing, vouch>>

\* A new interface.  Browser::new usually fails while it has no address, and
\* then the pass starts over.
Rebind ==
    /\ pc = "bind" /\ idx # 0 /\ idx # bound_idx
    /\ \E can \in BOOLEAN : NewBrowser(can)
    /\ bound_idx' = idx /\ bound_addr' = addr
    /\ failures' = 0
    /\ was_advertising' = FALSE
    /\ pc' = "reset"
    /\ UNCHANGED <<link, flags, instance, ticks, peers, peers_idx, vouch>>

\* Slip: the new socket is taken to be advertising because the old one was.
ReaddressKeepsFlag ==
    /\ pc = "bind" /\ idx # 0 /\ idx = bound_idx /\ addr \notin {0, bound_addr}
    /\ \E can \in BOOLEAN : NewBrowser(can)
    /\ bound_addr' = addr
    /\ pc' = "reset"
    /\ UNCHANGED <<link, flags, bound_idx, failures, was_advertising, instance, ticks,
                   peers, peers_idx, vouch>>

\* The same interface under a new address.
Readdress ==
    /\ pc = "bind" /\ idx # 0 /\ idx = bound_idx /\ addr \notin {0, bound_addr}
    /\ \E can \in BOOLEAN : NewBrowser(can)
    /\ bound_addr' = addr
    /\ was_advertising' = FALSE
    /\ pc' = "reset"
    /\ UNCHANGED <<link, flags, bound_idx, failures, instance, ticks, peers, peers_idx,
                   vouch>>

Settled ==
    /\ pc = "bind" /\ idx # 0 /\ idx = bound_idx /\ addr \in {0, bound_addr}
    /\ pc' = "reset"
    /\ UNCHANGED <<link, flags, browser, bound, was_advertising, failures, instance,
                   ticks, peers, peers_idx, standing, unsaid, vouch>>

\* Slip: the new identity is minted while the old one still stands.
ResetKeepsOld ==
    /\ pc = "reset"
    /\ reset_identity' = FALSE
    /\ IF reset_identity
       THEN /\ instance' = instance + 1
            /\ was_advertising' = FALSE
       ELSE UNCHANGED <<instance, was_advertising>>
    /\ pc' = "follow"
    /\ UNCHANGED <<link, calls, discoverable, refresh_now, browser, bound, failures,
                   ticks, peers, peers_idx, standing, unsaid, vouch>>

\* A requested identity reset: withdraw the old instance, then mint a new one.
Reset ==
    /\ pc = "reset"
    /\ reset_identity' = FALSE
    /\ IF reset_identity
       THEN /\ IF was_advertising THEN stop_advertising ELSE UNCHANGED <<sock, standing, unsaid>>
            /\ instance' = instance + 1
            /\ was_advertising' = FALSE
       ELSE UNCHANGED <<sock, standing, unsaid, instance, was_advertising>>
    /\ pc' = "follow"
    /\ UNCHANGED <<link, calls, discoverable, refresh_now, table, gate, labelled, bound,
                   failures, ticks, peers, peers_idx, vouch>>

\* advertise(): the flag is set before the announcement is tried, and the loop
\* counts the device as advertising only if the announcement went out.
Advertise ==
    /\ pc = "follow" /\ discoverable /\ ~was_advertising
    /\ sock' = [sock EXCEPT !.advertising = @ \/ sock.can]
    /\ was_advertising' = (sock.can /\ Sends)
    /\ standing' = IF sock.can /\ Sends THEN standing \cup {instance} ELSE standing
    /\ unsaid' = IF sock.can /\ Sends THEN unsaid \ {instance} ELSE unsaid
    /\ pc' = "ask"
    /\ UNCHANGED <<link, flags, table, gate, labelled, bound, failures, instance, ticks,
                   peers, peers_idx, vouch>>

\* Hiding is said, while the loop counts itself as advertising.
Withdraw ==
    /\ pc = "follow" /\ ~discoverable /\ was_advertising
    /\ stop_advertising
    /\ was_advertising' = FALSE
    /\ pc' = "ask"
    /\ UNCHANGED <<link, flags, table, gate, labelled, bound, failures, instance, ticks,
                   peers, peers_idx, vouch>>

\* The flag and the socket agree; while visible, announce again.
Announce ==
    /\ pc = "follow" /\ discoverable = was_advertising
    /\ standing' = IF was_advertising THEN announce(standing) ELSE standing
    /\ pc' = "ask"
    /\ UNCHANGED <<link, flags, browser, bound, was_advertising, failures, instance,
                   ticks, peers, peers_idx, unsaid, vouch>>

\* An explicit refresh forgets every peer; then the browse query, when its
\* backoff has run out.
Ask(due, unicast) ==
    /\ pc = "ask"
    /\ refresh_now' = FALSE
    /\ LET known == IF refresh_now THEN Empty ELSE table
       IN  table' = IF due THEN query(known, unicast) ELSE known
    /\ labelled' = IF refresh_now THEN {} ELSE labelled
    /\ peers' = IF refresh_now THEN {} ELSE peers
    /\ failures' = CASE due /\ Sends  -> 0
                     [] due /\ ~Sends -> Least(failures + 1, FAILURES)
                     [] OTHER         -> failures
    /\ pc' = "stale"
    /\ UNCHANGED <<link, calls, discoverable, reset_identity, sock, gate, bound,
                   was_advertising, instance, ticks, peers_idx, standing, unsaid, vouch>>

\* Too many failed queries: the socket is dead although the index is the same.
Stale ==
    /\ pc = "stale" /\ failures >= FAILURES /\ idx # 0
    /\ \E can \in BOOLEAN : NewBrowser(can)
    /\ bound_idx' = idx
    /\ failures' = 0
    /\ was_advertising' = FALSE
    /\ pc' = "look"
    /\ UNCHANGED <<link, flags, bound_addr, instance, ticks, peers, peers_idx, vouch>>

NotStale ==
    /\ pc = "stale" /\ (failures < FAILURES \/ idx = 0 \/ addr = 0)
    /\ pc' = "look"
    /\ UNCHANGED <<link, flags, browser, bound, was_advertising, failures, instance,
                   ticks, peers, peers_idx, standing, unsaid, vouch>>

\* What the app's scan has seen: is it reporting, how many Apple devices are
\* near, and how many of them are receptive.
Population ==
    {pop \in [live : BOOLEAN, present : 0 .. Cardinality(Peer), receptive : 0 .. Cardinality(Peer)] :
        /\ pop.receptive <= pop.present
        /\ pop.live \/ pop.present = 0}

\* The gate on the silence rules: while BLE accounts for every listed peer it
\* is shut, and its clock starts when it opens.
SetGate(vouched) ==
    gate' = CASE vouched             -> [on |-> FALSE, age |-> 0]
              [] ~vouched /\ gate.on -> gate
              [] OTHER               -> GateOpened

\* mark_unreceptive: the label is on every listed peer or on none.
Mark(s, on) == IF on THEN s ELSE {}

\* Probe the peers whose address is known, label, and set the gate.
Look(pop, probing) ==
    LET listed == Listed(table)
        n == Cardinality(listed)
        silent == pop.live /\ n > 0 /\ pop.receptive = 0 /\ pop.present >= n
        vouched == pop.live /\ pop.receptive >= n
    IN  /\ pc = "look"
        /\ table' = IF probing THEN probe(table) ELSE table
        /\ ticks' = IF silent THEN Least(ticks + 1, DEBOUNCE) ELSE 0
        /\ labelled' = Mark(listed, ticks' >= DEBOUNCE)
        /\ SetGate(vouched)
        /\ vouch' = IF vouched THEN 0 ELSE vouch
        /\ pc' = "hear"
        /\ UNCHANGED <<link, flags, sock, bound, was_advertising, failures, instance,
                       peers, peers_idx, standing, unsaid>>

\* poll, expire, publish: whatever reached the socket, and the end of the pass.
\* A peer may be heard while in range; of one that left, a goodbye or a late
\* record may still arrive.
Hear(got, granted) ==
    LET heard == [p \in Peer |-> Absorb(table[p], got[p], granted[p])]
        kept == Expire(heard)
    IN  /\ pc = "hear"
        /\ \A p \in Peer :
              /\ got[p] # "none" => Sends
              /\ got[p] \in {"ptr", "full"} => p \in present \cup leaving
              /\ got[p] = "goodbye" => p \in leaving
        /\ leaving' = {p \in leaving : got[p] # "goodbye"}
        /\ table' = Older(kept)
        /\ labelled' = labelled \cap Listed(kept)
        /\ peers' = Listed(kept)
        /\ peers_idx' = sock.idx
        /\ gate' = [gate EXCEPT !.age = IF gate.on THEN Least(@ + 1, LOST_AFTER) ELSE 0]
        /\ vouch' = Least(vouch + 1, LOST_AFTER)
        /\ pc' = "bind"
        /\ UNCHANGED <<idx, addr, moves, present, flags, sock, bound, was_advertising,
                       failures, instance, ticks, standing, unsaid>>

-----------------------------------------------------------------------------
(* The app.                                                                *)

Call == pc' = pc /\ calls < MaxCalls /\ calls' = calls + 1

SetDiscoverable ==
    /\ Call
    /\ discoverable' = ~discoverable
    /\ UNCHANGED <<link, reset_identity, refresh_now, browser, bound, was_advertising,
                   failures, instance, ticks, peers, peers_idx, standing, unsaid, vouch>>

ResetIdentity ==
    /\ Call
    /\ reset_identity' = TRUE
    /\ UNCHANGED <<link, discoverable, refresh_now, browser, bound, was_advertising,
                   failures, instance, ticks, peers, peers_idx, standing, unsaid, vouch>>

RefreshPeers ==
    /\ Call
    /\ refresh_now' = TRUE
    /\ peers' = {}
    /\ UNCHANGED <<link, discoverable, reset_identity, browser, bound, was_advertising,
                   failures, instance, ticks, peers_idx, standing, unsaid, vouch>>

-----------------------------------------------------------------------------
(* The link and the peers: what tarishd and the other devices do.          *)

Move == moves < MaxMoves /\ moves' = moves + 1

inside == <<flags, pc, table, gate, labelled, bound, was_advertising, failures,
            instance, ticks, peers, peers_idx, standing, unsaid, vouch>>

\* The radio is released.
LinkDown ==
    /\ Move /\ idx # 0
    /\ idx' = 0 /\ addr' = 0
    /\ UNCHANGED <<inside, sock, present, leaving>>

\* The radio is taken again: a new index, the address at once or later.
LinkUp ==
    /\ Move /\ idx = 0
    /\ idx' = moves'
    /\ addr' \in {0, moves'}
    /\ UNCHANGED <<inside, sock, present, leaving>>

\* The address arrives, or is assigned anew.
NewAddress ==
    /\ Move /\ idx # 0
    /\ addr' = moves'
    /\ UNCHANGED <<inside, sock, idx, present, leaving>>

\* The socket stops sending, or recovers, without the index changing.
SocketFault ==
    /\ Move
    /\ sock' = [sock EXCEPT !.alive = ~@]
    /\ UNCHANGED <<inside, idx, addr, present, leaving>>

\* Browser::new fails although there is an address: the pass goes on with the
\* old socket, until the next try.
NotReady ==
    /\ Move /\ idx # 0 /\ addr # 0
    /\ \/ pc = "bind" /\ idx = bound_idx /\ addr # bound_addr /\ pc' = "reset"
       \/ pc = "stale" /\ failures >= FAILURES /\ pc' = "look"
    /\ UNCHANGED <<idx, addr, present, leaving, flags, browser, bound, was_advertising,
                   failures, instance, ticks, peers, peers_idx, standing, unsaid, vouch>>

\* A peer leaves, with a goodbye on its way or without a word; or comes back.
Leave(p) ==
    /\ Move /\ p \in present
    /\ present' = present \ {p}
    /\ leaving' \in {leaving, leaving \cup {p}}
    /\ UNCHANGED <<inside, sock, idx, addr>>

Return(p) ==
    /\ Move /\ p \notin present
    /\ present' = present \cup {p}
    /\ UNCHANGED <<inside, sock, idx, addr, leaving>>

AskDue == \E unicast \in BOOLEAN : Ask(TRUE, unicast)
LookAny == \E pop \in Population, probing \in BOOLEAN : Look(pop, probing)
HearAny ==
    \E got \in [Peer -> {"none", "ptr", "full", "goodbye"}], granted \in [Peer -> Leases] :
        Hear(got, granted)

Loop ==
    \/ Idle \/ (addr # 0 /\ Rebind) \/ Readdress \/ Settled
    \/ Reset \/ Advertise \/ Withdraw \/ Announce
    \/ AskDue \/ Ask(FALSE, FALSE) \/ (addr # 0 /\ Stale) \/ NotStale
    \/ LookAny \/ HearAny

Next ==
    \/ Idle \/ Rebind \/ Readdress \/ Settled
    \/ Reset \/ Advertise \/ Withdraw \/ Announce
    \/ AskDue \/ Ask(FALSE, FALSE) \/ Stale \/ NotStale
    \/ LookAny \/ HearAny
    \/ SetDiscoverable \/ ResetIdentity \/ RefreshPeers
    \/ LinkDown \/ LinkUp \/ NewAddress \/ SocketFault \/ NotReady
    \/ \E p \in Peer : Leave(p) \/ Return(p)

\* The loop is a thread of its own and never waits for anyone; Browser::new
\* does not fail for ever on an interface that has its address; and the query
\* backoff is capped, so a query is due again and again.
Spec == Init /\ [][Next]_vars /\ WF_vars(Loop) /\ SF_vars(AskDue)

-----------------------------------------------------------------------------
(* What the loop must guarantee.                                           *)

\* Every variable has its type: ages and counters stay within the bounds the
\* code gives them, and what is published is a set of peers.
TypeOK ==
    /\ idx \in 0 .. MaxMoves /\ addr \in 0 .. MaxMoves /\ moves \in 1 .. MaxMoves
    /\ present \subseteq Peer /\ leaving \subseteq Peer
    /\ calls \in 0 .. MaxCalls
    /\ discoverable \in BOOLEAN /\ reset_identity \in BOOLEAN /\ refresh_now \in BOOLEAN
    /\ pc \in {"bind", "reset", "follow", "ask", "stale", "look", "hear"}
    /\ sock \in [idx : 1 .. MaxMoves, addr : 0 .. MaxMoves, alive : BOOLEAN,
                 can : BOOLEAN, advertising : BOOLEAN]
    /\ bound_idx \in 0 .. MaxMoves /\ bound_addr \in 0 .. MaxMoves
    /\ was_advertising \in BOOLEAN /\ failures \in 0 .. FAILURES
    /\ instance \in 0 .. MaxCalls
    /\ \A p \in Peer : table[p] \in Entry \cup {None}
    /\ gate \in [on : BOOLEAN, age : 0 .. LOST_AFTER]
    /\ ticks \in 0 .. DEBOUNCE
    /\ labelled \subseteq Peer /\ peers \subseteq Peer
    /\ peers_idx \in 1 .. MaxMoves
    /\ standing \subseteq 0 .. MaxCalls /\ unsaid \subseteq 0 .. MaxCalls
    /\ vouch \in 0 .. LOST_AFTER

\* An identity that stands in the peers' lists is the current one, and only while
\* the loop counts itself as advertising: a reset, or hiding, says goodbye for it
\* first (mdns.rs, reset_identity: "The caller MUST withdraw the old instance").
\* Two ways to leave one standing are the code's own and excepted: a goodbye
\* that could not be sent, and a socket replaced or lost since the announcement.
NoGhost ==
    /\ standing \ unsaid \subseteq {instance}
    /\ standing \ unsaid # {} => was_advertising

\* A peer that did not say goodbye is removed by the loop's own judgement only
\* when BLE has failed to account for the listed peers for a whole LOST_AFTER:
\* one missed report must not remove a peer that has merely been quiet.
VouchedStays ==
    [][\A p \in Peer :
          (/\ pc = "hear" /\ table[p].listed /\ ~table'[p].listed
           /\ ~table[p].withdrawn) => vouch >= LOST_AFTER]_vars

\* With discoverability on and the link settled, the device ends up advertising
\* on a socket whose packets leave it from its present address, however often
\* the interface, its address or the socket changed before.
BecomesVisible ==
    <>[](discoverable /\ idx # 0 /\ addr # 0 /\ sock.can)
        => <>[](was_advertising /\ Answers)

\* An announcement is about to fail on a socket already marked as advertising.
AnnounceFails ==
    pc = "follow" /\ discoverable /\ ~was_advertising /\ sock.can /\ ~Sends

\* With discoverability off for good, the responder falls silent, provided that
\* no announcement failed.  (Advertising "follows the flag", start_discovery.)
BecomesHidden ==
    (<>[]~discoverable /\ []~AnnounceFails) => <>[]~Answers

\* Advertising follows the flag, both ways.
AdvertisingFollows == BecomesVisible /\ BecomesHidden

\* A peer that left without a word is not offered for ever: once BLE no longer
\* accounts for the listed peers, silence removes it.
DepartedGoes ==
    \A p \in Peer :
        (<>[](p \notin present \cup leaving) /\ <>[](vouch > 0)) => <>[](p \notin peers)

\* A peer that said goodbye and was not heard again is removed whatever BLE
\* says of the devices near by.
GoodbyeRemoves ==
    \A p \in Peer :
        (table[p].listed /\ table[p].withdrawn) ~>
            (~table[p].listed \/ p \in present \cup leaving \/ idx = 0)

\* What is offered to the app was heard on the interface that exists now, or
\* soon will not be offered, unless a new interface waits for its address.
OfferedIsReachable ==
    (peers # {} /\ peers_idx # idx) ~> (peers = {} \/ peers_idx = idx \/ (idx # 0 /\ addr = 0))

\* A peer that keeps being heard, in the sight of a BLE scan that finds
\* receptive devices for all of the list, is offered and unlabelled for good.
PresentIsOffered ==
    \A p \in Peer :
        ([]<>(table[p].listed /\ table[p].seen = 1) /\ <>[](vouch <= 1) /\ <>[](idx = sock.idx))
            => <>[](p \in peers /\ p \notin labelled)

\* The list follows who is there: the departed go, by silence, by goodbye or
\* with the interface, and those who stay are offered.
ListFollows == DepartedGoes /\ GoodbyeRemoves /\ OfferedIsReachable /\ PresentIsOffered
=============================================================================
