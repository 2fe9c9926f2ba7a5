--------------------------- MODULE AirDropServer ----------------------------
(***************************************************************************)
(* The AirDrop receiver: the connection threads of sharingd/src/httpd.rs   *)
(* (/Ask, the prompt, /Upload), the answer mailbox of TransferState and    *)
(* the clients that answer offers.                                         *)
(*                                                                         *)
(* /Upload may arrive on any connection, one that never asked included.    *)
(* Peers may be slow and they may go away.  The slot is claimed and        *)
(* released in one step here; TransferSlot has the detail.  Whether the    *)
(* device is discoverable and whether the policy answers for the person    *)
(* may change between any two requests: they are inputs of /Ask.           *)
(*                                                                         *)
(* Time is the order of four of the code's constants: a prompt (45 s) and  *)
(* a sized upload (a touch every 256 KiB) do not let the slot go stale     *)
(* (180 s); waiting for /Upload (300 s), an upload of undeclared size,     *)
(* which is touched only when its last byte is in, and extraction do.      *)
(***************************************************************************)
EXTENDS Integers, FiniteSets

CONSTANTS
    Conns,        \* connections, one thread each
    MaxId         \* bound: transfer ids handed out

ASSUME ServerAssumption == MaxId \in Nat

VARIABLES
    current,       \* the slot: id of the transfer in flight, or 0
    next,          \* last id handed out
    clock,         \* last_activity: "none", "fresh", or older than STALE_TRANSFER
    decision,      \* the answer mailbox: [id, accept], id 0 when empty
    other,         \* id of a transfer of another kind holding the slot, or 0
    pc,            \* "closed", "idle", "asking", "granted", "gate", "uploading", "storing"
    ask,           \* id of the offer this connection made, 0 for none
    up,            \* id the upload runs under
    sized,         \* the upload declared its size
    offered,       \* history: ids put in front of a person
    approved,      \* history: ids a person or the policy said yes to
    granted,       \* connections whose /Ask was answered 200
    lost           \* history: ids whose slot try_begin took as stale, or under which an
                   \* upload ran that was not theirs

slot == <<current, next, clock, lost>>
threads == <<ask, up, sized, granted>>
said == <<offered, approved>>
vars == <<current, next, clock, decision, other, pc, ask, up, sized,
          offered, approved, granted, lost>>

Ids == 1 .. MaxId
NoDecision == [id |-> 0, accept |-> FALSE]

Init ==
    /\ current = 0
    /\ next = 0
    /\ clock = "none"
    /\ decision = NoDecision
    /\ other = 0
    /\ pc = [c \in Conns |-> "closed"]
    /\ ask = [c \in Conns |-> 0]
    /\ up = [c \in Conns |-> 0]
    /\ sized = [c \in Conns |-> FALSE]
    /\ offered = {}
    /\ approved = {}
    /\ granted = {}
    /\ lost = {}

Goto(c, l) == pc' = [pc EXCEPT ![c] = l]

\* The connection closes; its thread is gone and forgets its offer.
Close(c) ==
    /\ Goto(c, "closed")
    /\ ask' = [ask EXCEPT ![c] = 0]
    /\ up' = [up EXCEPT ![c] = 0]
    /\ sized' = [sized EXCEPT ![c] = FALSE]
    /\ granted' = granted \ {c}

\* Slip: begin() overwrites whatever is in flight, as it once did.
SlotFreeAlways == TRUE

\* try_begin: free, or held by a transfer gone stale.
SlotFree == current = 0 \/ clock = "stale"

Reclaim == lost' = IF current # 0 /\ clock = "stale" THEN lost \cup {current} ELSE lost

Claim ==
    /\ next < MaxId
    /\ next' = next + 1
    /\ current' = next + 1
    /\ clock' = "fresh"
    /\ Reclaim

\* finish(i): compare and clear; the activity clock is cleared in any case.
finish(i) ==
    /\ current' = IF current = i THEN 0 ELSE current
    /\ clock' = "none"
    /\ UNCHANGED <<next, lost>>

-----------------------------------------------------------------------------
(* A connection *)

Connect(c) ==
    /\ pc[c] = "closed"
    /\ Goto(c, "idle")
    /\ UNCHANGED <<slot, decision, other, threads, said>>

\* The peer hangs up, or sends nothing for IDLE_TIMEOUT.
GoneIdle(c) ==
    /\ pc[c] = "idle"
    /\ Close(c)
    /\ UNCHANGED <<slot, decision, other, said>>

\* /Ask answered 401: not discoverable, or busy with another transfer.
AskRefused(c) ==
    /\ pc[c] = "idle"
    /\ Close(c)
    /\ UNCHANGED <<slot, decision, other, said>>

\* /Ask with a name that is not display-safe: claimed, finished and refused
\* before anyone is asked.
AskUnreadable(c) ==
    /\ pc[c] = "idle"
    /\ SlotFree
    /\ next < MaxId
    /\ next' = next + 1
    /\ current' = 0
    /\ clock' = "none"
    /\ Reclaim
    /\ Close(c)
    /\ UNCHANGED <<decision, other, said>>

\* /Ask: the offer goes on screen, or the policy answers for the person.
Ask(c, auto) ==
    /\ pc[c] = "idle"
    /\ SlotFree
    /\ Claim
    /\ ask' = [ask EXCEPT ![c] = next + 1]
    /\ IF auto
       THEN /\ decision' = [id |-> next + 1, accept |-> TRUE]
            /\ approved' = approved \cup {next + 1}
            /\ Goto(c, "granted")
            /\ UNCHANGED offered
       ELSE /\ offered' = offered \cup {next + 1}
            /\ Goto(c, "asking")
            /\ UNCHANGED <<decision, approved>>
    /\ granted' = granted \ {c}
    /\ UNCHANGED <<other, up, sized>>

\* Slip: whatever answer is in the mailbox is taken for this offer.
PollAny(c) ==
    /\ pc[c] = "asking"
    /\ decision # NoDecision
    /\ decision' = NoDecision
    /\ IF decision.accept
       THEN Goto(c, "granted") /\ UNCHANGED <<slot, threads>>
       ELSE finish(ask[c]) /\ Close(c)
    /\ UNCHANGED <<other, said>>

\* await_answer takes whatever is in the mailbox; an answer to an earlier offer
\* is dropped, never taken for this one.
Poll(c) ==
    /\ pc[c] = "asking"
    /\ decision # NoDecision
    /\ decision' = NoDecision
    /\ \/ /\ decision.id = ask[c]
          /\ decision.accept
          /\ Goto(c, "granted")
          /\ UNCHANGED <<slot, threads>>
       \/ /\ decision.id = ask[c]
          /\ ~decision.accept
          /\ finish(ask[c])
          /\ Close(c)
       \/ /\ decision.id # ask[c]
          /\ UNCHANGED <<slot, pc, threads>>
    /\ UNCHANGED <<other, said>>

\* Slip: an unanswered offer leaves the slot taken.
AskUnansweredKeeps(c) ==
    /\ pc[c] = "asking"
    /\ Close(c)
    /\ UNCHANGED <<slot, decision, other, said>>

\* Nobody answers for ASK_TIMEOUT, or the sender hangs up: a refusal.
AskUnanswered(c) ==
    /\ pc[c] = "asking"
    /\ finish(ask[c])
    /\ Close(c)
    /\ UNCHANGED <<decision, other, said>>

\* 200: the connection is kept for the /Upload to come.
Granted(c) ==
    /\ pc[c] = "granted"
    /\ granted' = granted \cup {c}
    /\ Goto(c, "idle")
    /\ UNCHANGED <<slot, decision, other, ask, up, sized, said>>

\* The 200 cannot be written: the thread ends and the slot stays as it is.
GrantLost(c) ==
    /\ pc[c] = "granted"
    /\ Close(c)
    /\ UNCHANGED <<slot, decision, other, said>>

\* /Upload, the gate: refused when nothing is in flight, whoever posts it.
UploadGate(c) ==
    /\ pc[c] = "idle"
    /\ \/ current = 0 /\ Close(c)
       \/ current # 0 /\ Goto(c, "gate") /\ UNCHANGED threads
    /\ UNCHANGED <<slot, decision, other, said>>

\* The slot is free, or held for the connection's own offer, answered 200.
InFlightIsOwn(c) == current = 0 \/ (c \in granted /\ current = ask[c])

\* The id is read again: the upload runs under whatever is in flight now.
UploadBegin(c) ==
    /\ pc[c] = "gate"
    /\ lost' = IF InFlightIsOwn(c) THEN lost ELSE lost \cup {current}
    /\ up' = [up EXCEPT ![c] = current]
    /\ \E b \in BOOLEAN : sized' = [sized EXCEPT ![c] = b]
    /\ Goto(c, "uploading")
    /\ UNCHANGED <<current, next, clock, decision, other, ask, granted, said>>

\* Bytes arrive; a declared size means progress reports, and those touch().
UploadProgress(c) ==
    /\ pc[c] = "uploading"
    /\ sized[c]
    /\ clock' = "fresh"
    /\ UNCHANGED <<current, next, lost, decision, other, pc, threads, said>>

\* receive_upload: the last byte is in, and is reported whether or not a size
\* was declared; what follows is the extraction.
UploadReceived(c) ==
    /\ pc[c] = "uploading"
    /\ clock' = "fresh"
    /\ sized' = [sized EXCEPT ![c] = FALSE]
    /\ Goto(c, "storing")
    /\ UNCHANGED <<current, next, lost, decision, other, ask, up, granted, said>>

\* The upload ends, stored, failed or cancelled by either side: the client is
\* told, the slot released.
UploadEnd(c) ==
    /\ pc[c] \in {"uploading", "storing"}
    /\ finish(up[c])
    /\ Close(c)
    /\ UNCHANGED <<decision, other, said>>

-----------------------------------------------------------------------------
(* Around the connections *)

\* respondToOffer: any offer a client was ever shown, at any time, and again.
Answer(i, yes) ==
    /\ i \in offered
    /\ decision' = [id |-> i, accept |-> yes]
    /\ approved' = IF yes THEN approved \cup {i} ELSE approved
    /\ UNCHANGED <<slot, other, pc, threads, offered>>

\* A Quick Share transfer or an AirDrop send takes and returns the slot.
OtherBegin ==
    /\ other = 0
    /\ SlotFree
    /\ Claim
    /\ other' = next + 1
    /\ UNCHANGED <<decision, pc, threads, said>>

OtherEnd ==
    /\ other # 0
    /\ finish(other)
    /\ other' = 0
    /\ UNCHANGED <<decision, pc, threads, said>>

\* STALE_TRANSFER passes without a touch().
GrowStale ==
    /\ current # 0
    /\ clock = "fresh"
    /\ \A c \in Conns : /\ pc[c] = "asking" => ask[c] # current
                       /\ pc[c] = "uploading" => up[c] # current \/ ~sized[c]
    /\ clock' = "stale"
    /\ UNCHANGED <<current, next, lost, decision, other, pc, threads, said>>

Serve(c) ==
    \/ Poll(c) \/ AskUnanswered(c) \/ Granted(c) \/ GrantLost(c)
    \/ UploadBegin(c) \/ UploadReceived(c) \/ UploadEnd(c)

Next ==
    \/ \E c \in Conns :
          \/ Connect(c) \/ GoneIdle(c) \/ AskRefused(c) \/ AskUnreadable(c)
          \/ \E auto \in BOOLEAN : Ask(c, auto)
          \/ Serve(c) \/ UploadGate(c) \/ UploadProgress(c)
    \/ \E i \in Ids, yes \in BOOLEAN : Answer(i, yes)
    \/ OtherBegin \/ OtherEnd
    \/ GrowStale

Spec == Init /\ [][Next]_vars

\* A prompt ends by its timeout, a quiet connection by IDLE_TIMEOUT, an upload
\* by IO_TIMEOUT at the latest, another transfer by its own.
Fairness ==
    /\ \A c \in Conns : /\ WF_vars(Serve(c))
                        /\ WF_vars(AskUnanswered(c))
                        /\ WF_vars(GoneIdle(c))
    /\ WF_vars(OtherEnd)

FairSpec == Spec /\ Fairness

-----------------------------------------------------------------------------
(* Properties *)

\* Every variable keeps its type.
TypeOK ==
    /\ current \in 0 .. MaxId /\ next \in 0 .. MaxId
    /\ clock \in {"none", "fresh", "stale"}
    /\ decision \in [id : 0 .. MaxId, accept : BOOLEAN]
    /\ other \in 0 .. MaxId
    /\ pc \in [Conns -> {"closed", "idle", "asking", "granted", "gate", "uploading", "storing"}]
    /\ ask \in [Conns -> 0 .. MaxId]
    /\ up \in [Conns -> 0 .. MaxId]
    /\ sized \in [Conns -> BOOLEAN]
    /\ offered \subseteq Ids /\ approved \subseteq Ids
    /\ granted \subseteq Conns
    /\ lost \subseteq 0 .. MaxId

\* A peer is told 200 only for an offer that somebody said yes to: a late or
\* repeated answer to another offer, left in the one mailbox, never stands in
\* for it.
GrantIsApproved ==
    \A c \in Conns : pc[c] = "granted" \/ c \in granted => ask[c] \in approved

\* An offer whose prompt is on screen holds the slot, and no second one does,
\* until its slot is taken as stale or used by an upload that is not its own:
\* whatever else times out, uploads, cancels or is answered late, and whatever
\* befell the offers before it.
PromptHoldsSlot ==
    LET Prompts == {c \in Conns : pc[c] = "asking" /\ ask[c] \notin lost}
    IN  /\ \A c \in Prompts : current = ask[c]
        /\ Cardinality(Prompts) =< 1

\* Under the same proviso an upload on a connection whose /Ask was accepted
\* runs under the id of that offer, which somebody said yes to: the `current()`
\* of the gate and the one read after it both name it, minutes after the answer.
UploadIsOwn ==
    \A c \in granted : pc[c] \in {"uploading", "storing"} /\ ask[c] \notin lost =>
        up[c] = ask[c] /\ up[c] \in approved

\* What is shown and what is received both go on under the offer's own id.
SlotIsOwn == PromptHoldsSlot /\ UploadIsOwn

\* An offer that nobody said yes to gives the slot back: declined, timed out or
\* withdrawn by its sender, whichever comes first.  (Ids are not used again, so
\* a slot that is free or approved again and again was given back by each.)
RefusedFrees == []<>(current = 0 \/ current \in approved)
=============================================================================
