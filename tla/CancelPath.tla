----------------------------- MODULE CancelPath ------------------------------
(***************************************************************************)
(* What reaches a transfer from outside while it runs: a cancel (the flag, *)
(* and the grace thread that shuts the armed socket down) and the client's *)
(* answers to onGroupNeeded and onUpgradeNeeded (TransferState in          *)
(* sharingd's main.rs).  The transfers are an AirDrop send (send.rs), a    *)
(* Quick Share receive that hosts a group and a Quick Share send that      *)
(* joins one; what they say to their peer is left to the other modules.    *)
(*                                                                         *)
(* Cells are shared by all transfers: a transfer's thread, binder threads  *)
(* and grace threads of this and of earlier transfers all touch them.      *)
(***************************************************************************)
EXTENDS Integers, FiniteSets

CONSTANTS
    MaxId,         \* bound: transfers
    MaxHost,       \* bound: group requests of one transfer
    MaxCancel,     \* bound: taps on cancel
    MaxAnswer      \* bound: answers by clients

ASSUME CancelAssumption ==
    MaxId \in Nat \ {0} /\ MaxHost \in Nat /\ MaxCancel \in Nat /\ MaxAnswer \in Nat

Ids == 1 .. MaxId
Kinds == {"air", "in", "out"}
Nobody == [id |-> 0, ok |-> FALSE]

VARIABLES
    last,          \* ids handed out so far
    current, cancelled,
    abort,         \* whose socket is armed, 0 if none
    shut,          \* transfers whose armed socket was shut down
    rides,         \* transfers that run over the socket they armed
    reclaiming,    \* transfers a claimant has begun to finish for stale
    kind, pc,      \* each transfer's thread
    hosts,         \* group requests each has made
    groupWanted, group,
    storing,       \* provide_group calls past their check
    upgrade,       \* upgrade_socket: whose answer is parked, a socket or a decline
    grace,         \* grace threads that sleep
    forcing,       \* grace threads past their look at `current`
    taps, answers, \* counters for the bounds
    tapped,        \* history: transfers somebody cancelled
    parked,        \* history: the answer in `upgrade` came after its transfer's end
    robbed         \* history: transfers whose slot or armed socket another one took

cells == <<current, cancelled, abort, shut, rides, reclaiming, robbed>>
mail == <<groupWanted, group, storing, upgrade, answers, parked>>
graces == <<grace, forcing, taps, tapped>>
vars == <<last, current, cancelled, abort, shut, rides, reclaiming, kind, pc, hosts,
          groupWanted, group, storing, upgrade, grace, forcing, taps, answers, tapped,
          parked, robbed>>

Init ==
    /\ last = 0 /\ current = 0 /\ cancelled = 0 /\ abort = 0 /\ shut = {}
    /\ rides = {} /\ reclaiming = {} /\ robbed = {}
    /\ kind \in [Ids -> Kinds] /\ pc = [i \in Ids |-> "unborn"] /\ hosts = [i \in Ids |-> 0]
    /\ groupWanted = 0 /\ group = Nobody /\ storing = {} /\ upgrade = 0
    /\ grace = {} /\ forcing = {} /\ taps = 0 /\ answers = 0 /\ tapped = {}
    /\ parked = FALSE

Go(i, p) == pc' = [pc EXCEPT ![i] = p]
is_cancelled(i) == cancelled = i

\* Where the thread of a transfer works on its socket.
Working == {"ask", "upload", "run"}
-----------------------------------------------------------------------------
(* Threads: begin, work, end. *)

\* try_begin, once the slot is free.
Begin(i) ==
    /\ i = last + 1 /\ current = 0
    /\ last' = i /\ current' = i
    /\ Go(i, IF kind[i] = "air" THEN "connect" ELSE "run")
    /\ UNCHANGED <<cancelled, abort, shut, rides, reclaiming, robbed, kind, hosts, mail, graces>>

\* try_begin finds the holder stale and finishes it; its thread goes on, so from
\* here two threads share the cells.
Reclaim(i) ==
    /\ i = current /\ last < MaxId
    /\ current' = 0 /\ reclaiming' = reclaiming \cup {i} /\ robbed' = robbed \cup {i}
    /\ UNCHANGED <<last, cancelled, abort, shut, rides, kind, pc, hosts, mail, graces>>

\* arm_abort(id, Some): over whatever is armed; nothing is if the descriptor
\* cannot be duplicated.
Arm(i) ==
    /\ abort' \in {i, 0} /\ shut' = shut \ {i}
    /\ robbed' = IF abort \in {i, 0} THEN robbed ELSE robbed \cup {abort}

\* send.rs, connect: bounded; the socket is armed once the handshake is over.
Connect(i) ==
    /\ pc[i] = "connect" /\ Go(i, "ask") /\ Arm(i) /\ rides' = rides \cup {i}
    /\ UNCHANGED <<last, current, cancelled, reclaiming, kind, hosts, mail, graces>>

\* Refused, or no handshake.
ConnectFails(i) ==
    /\ pc[i] = "connect" /\ Go(i, "end")
    /\ UNCHANGED <<last, cells, kind, hosts, mail, graces>>

AskAccepted(i) ==
    /\ pc[i] = "ask" /\ i \notin shut /\ Go(i, "upload")
    /\ UNCHANGED <<last, cells, kind, hosts, mail, graces>>

\* Over: refused or never answered, all sent, the peer is done.
Completes(i) ==
    /\ pc[i] \in Working /\ Go(i, "end")
    /\ UNCHANGED <<last, cells, kind, hosts, mail, graces>>

\* The flag, polled between slices of the wait, between reads of the source
\* and before each frame.
SeesCancel(i) ==
    /\ pc[i] \in Working /\ is_cancelled(i) /\ Go(i, "end")
    /\ UNCHANGED <<last, cells, kind, hosts, mail, graces>>

\* A system call that does not come back: a crawling write, a silent peer.  The
\* offer is written, and its answer read, without a look at the flag before.
Blocks(i) ==
    /\ \/ pc[i] = "ask" /\ Go(i, "stuck")
       \/ pc[i] \in {"upload", "run"} /\ ~is_cancelled(i) /\ Go(i, "blocked")
    /\ UNCHANGED <<last, cells, kind, hosts, mail, graces>>

\* The peer moves after all.
Unblocks(i) ==
    /\ \/ pc[i] = "stuck" /\ Go(i, "ask")
       \/ pc[i] = "blocked" /\ Go(i, IF kind[i] = "air" THEN "upload" ELSE "run")
    /\ UNCHANGED <<last, cells, kind, hosts, mail, graces>>

\* The socket a transfer runs over was shut: whatever call it is in fails.
Errors(i) ==
    /\ pc[i] \in Working \cup {"stuck", "blocked"} /\ i \in shut \cap rides /\ Go(i, "end")
    /\ UNCHANGED <<last, cells, kind, hosts, mail, graces>>

\* Slip: whatever is armed is disarmed.
DisarmBlind(i) == 0

\* arm_abort(id, None).
Disarm(i) == IF abort = i THEN 0 ELSE abort

\* finish: what is armed drains (bounded), then `current` is let go.
Finish(i) ==
    /\ pc[i] = "end" /\ Go(i, "finish")
    /\ current' = IF current = i THEN 0 ELSE current
    /\ abort' = IF kind[i] = "air" THEN Disarm(i) ELSE abort
    /\ UNCHANGED <<last, cancelled, shut, rides, reclaiming, robbed, kind, hosts, mail, graces>>

\* clear_upgrade(id).
clear_upgrade(i) == IF upgrade = i THEN 0 ELSE upgrade

\* Then clear_upgrade and arm_abort(None), by now perhaps under the next
\* transfer.
FinishRest(i) ==
    /\ pc[i] = "finish" /\ Go(i, "gone")
    /\ upgrade' = clear_upgrade(i) /\ abort' = Disarm(i)
    /\ UNCHANGED <<last, current, cancelled, shut, rides, reclaiming, robbed, kind, hosts,
                   groupWanted, group, storing, answers, parked, graces>>

\* The same for a transfer found stale, by the claimant.
ReclaimRest(i) ==
    /\ i \in reclaiming /\ reclaiming' = reclaiming \ {i}
    /\ upgrade' = clear_upgrade(i) /\ abort' = Disarm(i)
    /\ UNCHANGED <<last, current, cancelled, shut, rides, robbed, kind, pc, hosts,
                   groupWanted, group, storing, answers, parked, graces>>
-----------------------------------------------------------------------------
(* A group, for a receive. *)

\* offer_group starts; arm_wifi_direct is TransferSlot's.
HostGroup(i) ==
    /\ pc[i] = "run" /\ kind[i] = "in" /\ i \notin rides /\ hosts[i] < MaxHost
    /\ Go(i, "want") /\ hosts' = [hosts EXCEPT ![i] = @ + 1]
    /\ UNCHANGED <<last, cells, kind, mail, graces>>

\* The request is open before anybody is asked; it is repeated until GROUP_WAIT.
WantGroup(i) ==
    /\ pc[i] = "want" /\ Go(i, "group") /\ groupWanted' = i
    /\ UNCHANGED <<last, cells, kind, hosts, group, storing, upgrade, answers, parked, graces>>

\* Slip: giving up leaves the request open.
GroupDeadlineOpen(i) ==
    /\ pc[i] = "want" /\ Go(i, "run")
    /\ UNCHANGED <<last, cells, kind, hosts, mail, graces>>

GroupDeadline(i) ==
    /\ pc[i] = "want" /\ Go(i, "run") /\ groupWanted' = 0
    /\ UNCHANGED <<last, cells, kind, hosts, group, storing, upgrade, answers, parked, graces>>

\* An answer addressed to this transfer.
ForMe(i) == group.id = i

\* await_group: it is taken; a decline does not stop the asking.
TakeGroup(i) ==
    /\ pc[i] = "group" /\ ForMe(i)
    /\ group' = Nobody /\ Go(i, IF group.ok THEN "closing" ELSE "want")
    /\ UNCHANGED <<last, cells, kind, hosts, groupWanted, storing, upgrade, answers, parked, graces>>

\* stop_wanting_group: whoever's request it is by now.
CloseGroup(i) ==
    /\ pc[i] = "closing" /\ Go(i, "hosting") /\ groupWanted' = 0
    /\ UNCHANGED <<last, cells, kind, hosts, group, storing, upgrade, answers, parked, graces>>

\* Cancelled, or GROUP_ASK_INTERVAL is over: around again.
AskAgain(i) ==
    /\ pc[i] = "group" /\ ~ForMe(i) /\ Go(i, "want")
    /\ UNCHANGED <<last, cells, kind, hosts, mail, graces>>

\* The sender joins and its socket is armed, whether or not the transfer then
\* moves to it.
Joined(i) ==
    /\ pc[i] = "hosting" /\ Go(i, "run")
    /\ Arm(i) /\ rides' \in {rides, rides \cup {i}}
    /\ UNCHANGED <<last, current, cancelled, reclaiming, kind, hosts, mail, graces>>

\* It never does.
NobodyJoined(i) ==
    /\ pc[i] = "hosting" /\ Go(i, "run")
    /\ UNCHANGED <<last, cells, kind, hosts, mail, graces>>
-----------------------------------------------------------------------------
(* A socket, for a send. *)

JoinWifi(i) ==
    /\ pc[i] = "run" /\ kind[i] = "out" /\ hosts[i] < MaxHost
    /\ Go(i, "join") /\ hosts' = [hosts EXCEPT ![i] = @ + 1]
    /\ UNCHANGED <<last, cells, kind, mail, graces>>

\* await_upgrade, then clear_upgrade.
TakeUpgrade(i) ==
    /\ pc[i] = "join" /\ upgrade = i /\ Go(i, "run")
    /\ upgrade' = 0
    /\ UNCHANGED <<last, cells, kind, hosts, groupWanted, group, storing, answers, parked, graces>>

\* Cancelled, or nobody answered in thirty seconds.
JoinGivesUp(i) ==
    /\ pc[i] = "join" /\ upgrade # i /\ Go(i, "run")
    /\ UNCHANGED <<last, cells, kind, hosts, mail, graces>>
-----------------------------------------------------------------------------
(* Binder and grace threads. *)

\* provide_group: only while a request is open, which is looked at first.
GroupCheck(i, ok) ==
    /\ answers < MaxAnswer /\ groupWanted = i
    /\ storing' = storing \cup {[id |-> i, ok |-> ok]} /\ answers' = answers + 1
    /\ UNCHANGED <<last, cells, kind, pc, hosts, groupWanted, group, upgrade, parked, graces>>

GroupStore(a) ==
    /\ a \in storing /\ group' = a /\ storing' = storing \ {a}
    /\ UNCHANGED <<last, cells, kind, pc, hosts, groupWanted, upgrade, answers, parked, graces>>

\* provide_upgrade: for a request made at some time, however long ago.
ProvideUpgrade(i) ==
    /\ answers < MaxAnswer /\ kind[i] = "out" /\ hosts[i] > 0
    /\ upgrade' = i /\ answers' = answers + 1 /\ parked' = (pc[i] = "gone")
    /\ UNCHANGED <<last, cells, kind, pc, hosts, groupWanted, group, storing, graces>>

\* cancelTransfer: of the transfer that runs or, late, of an earlier one.
Cancel(i) ==
    /\ taps < MaxCancel /\ i \in 1 .. last
    /\ cancelled' = i /\ grace' = grace \cup {i} /\ taps' = taps + 1 /\ tapped' = tapped \cup {i}
    /\ UNCHANGED <<last, current, abort, shut, rides, reclaiming, robbed, kind, pc, hosts, mail, forcing>>

\* CANCEL_GRACE is over: nothing to force if it ended by itself.
GraceLooks(i) ==
    /\ i \in grace /\ grace' = grace \ {i}
    /\ forcing' = IF current = i THEN forcing \cup {i} ELSE forcing
    /\ UNCHANGED <<last, cells, kind, pc, hosts, mail, taps, tapped>>

\* Slip: whatever is armed by now is shut down.
GraceShutsAny(i) ==
    /\ i \in forcing /\ forcing' = forcing \ {i}
    /\ abort' = 0 /\ shut' = IF abort = 0 THEN shut ELSE shut \cup {abort}
    /\ UNCHANGED <<last, current, cancelled, rides, reclaiming, robbed, kind, pc, hosts, mail, grace, taps, tapped>>

GraceShuts(i) ==
    /\ i \in forcing /\ forcing' = forcing \ {i}
    /\ abort' = Disarm(i) /\ shut' = IF abort = i THEN shut \cup {i} ELSE shut
    /\ UNCHANGED <<last, current, cancelled, rides, reclaiming, robbed, kind, pc, hosts, mail, grace, taps, tapped>>

\* What a transfer's thread does without waiting for anybody.
Thread(i) ==
    \/ Connect(i) \/ ConnectFails(i) \/ SeesCancel(i) \/ Errors(i) \/ Finish(i) \/ FinishRest(i)
    \/ WantGroup(i) \/ GroupDeadline(i) \/ TakeGroup(i) \/ CloseGroup(i) \/ AskAgain(i)
    \/ Joined(i) \/ NobodyJoined(i) \/ TakeUpgrade(i) \/ JoinGivesUp(i)

\* What it does when the peer or the exchange gets that far.
Peer(i) == AskAccepted(i) \/ Completes(i) \/ Blocks(i) \/ Unblocks(i) \/ HostGroup(i) \/ JoinWifi(i)

Client(i) == Cancel(i) \/ ProvideUpgrade(i) \/ \E ok \in BOOLEAN : GroupCheck(i, ok)

Next ==
    \/ \E i \in Ids :
        \/ Begin(i) \/ Reclaim(i) \/ ReclaimRest(i) \/ Thread(i) \/ Peer(i) \/ Client(i)
        \/ GraceLooks(i) \/ GraceShuts(i)
    \/ \E a \in storing : GroupStore(a)

\* Every thread runs; peers and clients need not do anything.
Fairness == \A i \in Ids : WF_vars(Thread(i)) /\ WF_vars(GraceLooks(i)) /\ WF_vars(GraceShuts(i))

Spec == Init /\ [][Next]_vars /\ Fairness
-----------------------------------------------------------------------------
\* Every variable keeps its type: each cell names a transfer or nobody.
TypeOK ==
    /\ last \in 0 .. MaxId /\ current \in 0 .. MaxId /\ cancelled \in 0 .. MaxId
    /\ abort \in 0 .. MaxId /\ kind \in [Ids -> Kinds]
    /\ shut \subseteq Ids /\ rides \subseteq Ids /\ reclaiming \subseteq Ids
    /\ pc \in [Ids -> {"unborn", "connect", "ask", "stuck", "upload", "blocked", "run", "want",
                       "group", "closing", "hosting", "join", "end", "finish", "gone"}]
    /\ hosts \in [Ids -> 0 .. MaxHost] /\ groupWanted \in 0 .. MaxId
    /\ group.id \in 0 .. MaxId /\ upgrade \in 0 .. MaxId
    /\ storing \subseteq [id : Ids, ok : BOOLEAN]
    /\ grace \subseteq Ids /\ forcing \subseteq Ids
    /\ taps \in 0 .. MaxCancel /\ answers \in 0 .. MaxAnswer

\* A late cancel, and the thread it leaves behind, never shut down the socket
\* of a transfer nobody cancelled ("a stale tap ... must not kill the current
\* one"), also while a reclaimed transfer and the next one share the cells.
OnlyCancelledShut == shut \subseteq tapped

\* A group request is open only while its transfer is asking: no later answer
\* is let into the cell once the asking is over.
RequestIsOpen == groupWanted # 0 => pc[groupWanted] \in {"want", "group", "closing"}

\* A socket stays armed only as long as its transfer is there to be cancelled.
ArmedIsAlive == abort # 0 => pc[abort] \notin {"unborn", "gone"}

\* No descriptor stays parked past the transfer it was for ("drop it with the
\* transfer that asked"), unless the client sent it only after the end.
ParkedIsAlive == upgrade # 0 => pc[upgrade] # "gone" \/ parked

\* So each shared cell names a transfer that is still there to be answered or
\* to be cancelled, whatever the order of finish, reclaim, cancel and the next
\* transfer.
CellsNameLiving == RequestIsOpen /\ ArmedIsAlive /\ ParkedIsAlive

Over(i) == pc[i] \in {"end", "finish", "gone"}

\* Once a transfer's own socket is armed, a cancel ends it even from inside a
\* call that never returns, whoever else is cancelled meanwhile ("A CANCEL FLAG
\* IS NOT ENOUGH"), unless another transfer reclaimed its slot or armed over
\* it; and an upload ends by the flag alone unless a later tap overwrites it.
CancelEnds ==
    \A i \in Ids :
        /\ i \in grace \cup forcing /\ abort = i /\ i \in rides ~> Over(i) \/ i \in robbed
        /\ pc[i] = "upload" /\ cancelled = i ~> Over(i) \/ cancelled # i
==============================================================================
