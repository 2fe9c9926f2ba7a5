------------------------------ MODULE Handover -------------------------------
(***************************************************************************)
(* The bandwidth handover: a Quick Share conversation moves from the       *)
(* socket it began on (0) to one on a Wi-Fi Direct group, while payload    *)
(* still flows.  The receiver hosts (offer_group, drain_old of             *)
(* connection.rs), the sender joins (wait_for_upgrade, adopt of            *)
(* outbound.rs), and one SecureChannel (channel.rs) spans both sockets.    *)
(*                                                                         *)
(* Each end is one thread.  A wait that runs out although the other end is *)
(* alive and coming, and a first socket that is cut, are faults.  The cap  *)
(* on what a drain may hold is covered by drains that do not read.         *)
(***************************************************************************)
EXTENDS Integers, Sequences

CONSTANTS
    MAX_UPGRADE_ATTEMPTS,  \* handovers the host makes on request
    MaxAsk,                \* bound: requests of the sender
    MaxSay                 \* bound: frames of the conversation, per end

ASSUME HandoverAssumption ==
    MAX_UPGRADE_ATTEMPTS \in Nat /\ MaxAsk \in Nat /\ MaxSay \in Nat

H == "host"
S == "sender"
Ends == {H, S}
Other(e) == IF e = H THEN S ELSE H

Old == 0
Sockets == 0 .. (MAX_UPGRADE_ATTEMPTS + 1)

VARIABLES
    wire,        \* frames sent to an end on a socket and not yet read
    open,        \* the sockets each end has open
    sock,        \* the socket an end reads and writes
    st,          \* where each end's thread is
    sendSeq, recvSeq,
    deferred,    \* plaintext frames kept for the main loop
    attempts,    \* upgrade_attempts: offers made so far; also names the socket
    upgraded,
    asked,       \* this offer answers a request
    offered,     \* the unprompted offer has been made
    asks,        \* requests sent
    path,        \* the offer the sender is taking up
    joined,      \* sockets the sender connected to
    released,    \* we_released of the sender
    fault,       \* history: a wait ran out early or the first socket was cut
    said, heard  \* the conversation

transport == <<wire, open, sock, sendSeq, recvSeq, deferred>>
hostVars == <<attempts, upgraded, asked, offered>>
senderVars == <<asks, path, joined, released>>
talk == <<said, heard>>
vars == <<wire, open, sock, st, sendSeq, recvSeq, deferred, attempts, upgraded, asked,
          offered, asks, path, joined, released, fault, said, heard>>

Init ==
    /\ wire = [e \in Ends |-> [s \in Sockets |-> <<>>]]
    /\ open = [e \in Ends |-> {Old}] /\ sock = [e \in Ends |-> Old]
    /\ st = [e \in Ends |-> "run"]
    /\ sendSeq = [e \in Ends |-> 0] /\ recvSeq = [e \in Ends |-> 0]
    /\ deferred = [e \in Ends |-> <<>>]
    /\ attempts = 0 /\ upgraded = FALSE /\ asked = FALSE /\ offered = FALSE
    /\ asks = 0 /\ path = 0 /\ joined = {} /\ released = FALSE /\ fault = FALSE
    /\ said = [e \in Ends |-> 0] /\ heard = [e \in Ends |-> <<>>]
-----------------------------------------------------------------------------
(* Frames and sockets. *)

\* The counter goes up before use; a plaintext frame carries no number.
Encrypted(e, k, kind, n) == [seq |-> sendSeq[e] + k, kind |-> kind, n |-> n]
Plain(kind) == [seq |-> 0, kind |-> kind, n |-> 0]

\* A write to an end that has closed the socket is lost.
Put(w, e, s, f) == IF s \in open[Other(e)] THEN [w EXCEPT ![Other(e)][s] = Append(@, f)] ELSE w

Count(e, k) == sendSeq' = [sendSeq EXCEPT ![e] = @ + k]

\* Slip: any frame that authenticates is taken.
AuthenticIgnoresSequence(e, f) == f.seq # 0

\* Exactly the next number, or the frame is refused and nothing moves on.
Authentic(e, f) == f.seq = recvSeq[e] + 1

Arrived(e, s) == wire[e][s] # <<>>
Took(e, s) == [wire EXCEPT ![e][s] = Tail(@)]
Closed(e, s) == ~Arrived(e, s) /\ s \notin open[Other(e)]

\* An end closes a socket: what it has not read is gone.
Without(w, e, s) == [w EXCEPT ![e][s] = <<>>]
Shut(e, s) == open' = [open EXCEPT ![e] = @ \ {s}]
Go(e, state) == st' = [st EXCEPT ![e] = state]

\* A frame is decrypted off socket s: the counter follows.
Decrypt(e, s) == /\ Arrived(e, s) /\ Authentic(e, Head(wire[e][s]))
                 /\ recvSeq' = [recvSeq EXCEPT ![e] = Head(wire[e][s]).seq]

\* Read off the first socket, it is kept for the main loop.
Defer(e) ==
    /\ deferred' = [deferred EXCEPT ![e] = Append(@, Head(wire[e][Old]))]
    /\ wire' = Took(e, Old)
    /\ UNCHANGED <<open, sock, sendSeq>>

\* The thread returns an error: everything it has open is closed.
Fail(e) ==
    /\ Go(e, "failed")
    /\ open' = [open EXCEPT ![e] = {}]
    /\ wire' = [wire EXCEPT ![e] = [s \in Sockets |-> <<>>]]
    /\ UNCHANGED <<sock, sendSeq, recvSeq, deferred, hostVars, senderVars, fault, talk>>

\* Write UPGRADE_FAILURE on the present socket, drop the other, carry on.
StayPut(e, new) ==
    /\ wire' = Put(Without(wire, e, new), e, sock[e], Encrypted(e, 1, "failure", 0))
    /\ Count(e, 1) /\ Shut(e, new) /\ Go(e, "run")
-----------------------------------------------------------------------------
(* The main loops. *)

\* The conversation: sharing frames, payload, keep-alives.  Our own ends speak
\* in "run" only; a stock peer writes from another thread until its last write.
Say(e) ==
    /\ st[e] \in {"run", "listen", "intro", "join", "ack"} /\ said[e] < MaxSay
    /\ said' = [said EXCEPT ![e] = @ + 1]
    /\ wire' = Put(wire, e, sock[e], Encrypted(e, 1, "data", said[e] + 1))
    /\ Count(e, 1)
    /\ UNCHANGED <<open, sock, st, recvSeq, deferred, hostVars, senderVars, fault, heard>>

\* The next frame: deferred ones first.  What is left of the wire is Rest.
NextPlain(e) == IF deferred[e] # <<>> THEN Head(deferred[e]) ELSE Head(wire[e][sock[e]])

Rest(e) == IF deferred[e] # <<>> THEN wire ELSE Took(e, sock[e])

TakePlain(e) ==
    \/ /\ deferred[e] # <<>> /\ deferred' = [deferred EXCEPT ![e] = Tail(@)]
       /\ UNCHANGED recvSeq
    \/ deferred[e] = <<>> /\ Decrypt(e, sock[e]) /\ UNCHANGED deferred

Hear(e) ==
    /\ st[e] = "run" /\ TakePlain(e) /\ NextPlain(e).kind = "data" /\ wire' = Rest(e)
    /\ heard' = [heard EXCEPT ![e] = Append(@, NextPlain(e).n)]
    /\ UNCHANGED <<open, sock, st, sendSeq, hostVars, senderVars, fault, said>>

\* Upgrade frames nobody is waiting for; the host's repeat requests once it
\* has moved.
Ignore(e) ==
    /\ st[e] = "run" /\ TakePlain(e) /\ wire' = Rest(e)
    /\ \/ NextPlain(e).kind \in {"failure", "last", "safe"}
       \/ NextPlain(e).kind = "request" /\ upgraded
    /\ UNCHANGED <<open, sock, st, sendSeq, hostVars, senderVars, fault, talk>>

\* End of file, or a frame that is not the next one.
LoopError(e) ==
    /\ st[e] = "run" /\ deferred[e] = <<>>
    /\ Closed(e, sock[e]) \/ (Arrived(e, sock[e]) /\ ~Authentic(e, Head(wire[e][sock[e]])))
    /\ Fail(e)
-----------------------------------------------------------------------------
(* The host: offer_group. *)

Offer(prompted) ==
    /\ Go(H, "group") /\ attempts' = attempts + 1 /\ asked' = prompted
    /\ UNCHANGED <<open, sock, sendSeq, upgraded, senderVars, fault, talk>>

OfferUnprompted ==
    /\ st[H] = "run" /\ ~upgraded /\ ~offered
    /\ Offer(FALSE) /\ offered' = TRUE
    /\ UNCHANGED <<wire, recvSeq, deferred>>

OfferOnRequest ==
    /\ st[H] = "run" /\ TakePlain(H) /\ NextPlain(H).kind = "request" /\ wire' = Rest(H)
    /\ ~upgraded /\ attempts < MAX_UPGRADE_ATTEMPTS
    /\ Offer(TRUE) /\ UNCHANGED offered

DeclineRequest ==
    /\ st[H] = "run" /\ TakePlain(H) /\ NextPlain(H).kind = "request"
    /\ ~upgraded /\ attempts >= MAX_UPGRADE_ATTEMPTS
    /\ wire' = Put(Rest(H), H, sock[H], Encrypted(H, 1, "failure", 0)) /\ Count(H, 1)
    /\ UNCHANGED <<open, sock, st, hostVars, senderVars, fault, talk>>

\* drain_old: whatever the old socket carries is kept while we wait.  Its end
\* is not an error; a frame that is not the next one is.
Drain ==
    /\ st[H] \in {"group", "listen"} /\ Decrypt(H, Old) /\ Defer(H)
    /\ UNCHANGED <<st, hostVars, senderVars, fault, talk>>

NoGroup ==
    /\ st[H] = "group" /\ StayPut(H, attempts)
    /\ UNCHANGED <<sock, recvSeq, deferred, hostVars, senderVars, fault, talk>>

Group ==
    /\ st[H] = "group" /\ Go(H, "listen")
    /\ wire' = Put(wire, H, Old, Encrypted(H, 1, "path", attempts)) /\ Count(H, 1)
    /\ UNCHANGED <<open, sock, recvSeq, deferred, hostVars, senderVars, fault, talk>>

Accept ==
    /\ st[H] = "listen" /\ attempts \in joined /\ Go(H, "intro")
    /\ UNCHANGED <<transport, hostVars, senderVars, fault, talk>>

\* JOIN_WAIT is over and nobody is at the listener.
JoinTimeout ==
    /\ st[H] = "listen" /\ attempts \notin joined /\ StayPut(H, attempts)
    /\ UNCHANGED <<sock, recvSeq, deferred, hostVars, senderVars, fault, talk>>

\* The introduction is acknowledged on the new socket, LAST_WRITE goes out on
\* the old one.
Introduced ==
    /\ st[H] = "intro" /\ Arrived(H, attempts) /\ Head(wire[H][attempts]).kind = "intro"
    /\ wire' = Put(Put(Took(H, attempts), H, attempts, Plain("ack")),
                   H, Old, Encrypted(H, 1, "last", 0))
    /\ Count(H, 1) /\ Go(H, "release")
    /\ UNCHANGED <<open, sock, recvSeq, deferred, hostVars, senderVars, fault, talk>>

IntroTimeout ==
    /\ st[H] = "intro" /\ StayPut(H, attempts)
    /\ UNCHANGED <<sock, recvSeq, deferred, hostVars, senderVars, fault, talk>>

\* Our SAFE_TO_CLOSE on the old socket, and the swap.
HostSwap(w) ==
    /\ wire' = Put(Without(w, H, Old), H, Old, Encrypted(H, 1, "safe", 0)) /\ Count(H, 1)
    /\ Shut(H, Old) /\ sock' = [sock EXCEPT ![H] = attempts] /\ Go(H, "run")
    /\ upgraded' = TRUE
    /\ UNCHANGED <<deferred, attempts, asked, offered, senderVars, talk>>

ReleaseFrame == Head(wire[H][Old]).kind

\* The sender's LAST_WRITE needs no answer; anything else is kept.
ReleaseOther ==
    /\ st[H] = "release" /\ Decrypt(H, Old) /\ ReleaseFrame # "safe"
    /\ \/ /\ ReleaseFrame = "last" /\ wire' = Took(H, Old)
          /\ UNCHANGED <<open, sock, sendSeq, deferred>>
       \/ ReleaseFrame # "last" /\ Defer(H)
    /\ UNCHANGED <<st, hostVars, senderVars, fault, talk>>

Release ==
    /\ st[H] = "release" /\ Decrypt(H, Old) /\ ReleaseFrame = "safe"
    /\ HostSwap(wire) /\ UNCHANGED fault

ReleaseTimeout ==
    /\ st[H] = "release" /\ HostSwap(wire) /\ fault' = TRUE /\ UNCHANGED recvSeq

\* An error inside offer_group ends the connection if the sender had asked,
\* and is survived on the old socket if we had offered by ourselves.
OfferError ==
    /\ \/ st[H] \in {"group", "listen", "release"} /\ Arrived(H, Old) /\ ~Authentic(H, Head(wire[H][Old]))
       \/ st[H] = "release" /\ Closed(H, Old)
    /\ \/ asked /\ Fail(H)
       \/ /\ ~asked /\ Go(H, "run") /\ Shut(H, attempts)
          /\ wire' = Without(IF Arrived(H, Old) THEN Took(H, Old) ELSE wire, H, attempts)
          /\ UNCHANGED <<sock, sendSeq, recvSeq, deferred, hostVars, senderVars, fault, talk>>

HostStep ==
    \/ Hear(H) \/ Ignore(H) \/ LoopError(H)
    \/ OfferOnRequest \/ DeclineRequest \/ Drain \/ NoGroup \/ Group
    \/ Accept \/ JoinTimeout \/ Introduced \/ IntroTimeout \/ ReleaseOther \/ Release \/ OfferError
-----------------------------------------------------------------------------
(* The sender: wait_for_upgrade and adopt. *)

Ask ==
    /\ st[S] = "run" /\ sock[S] = Old /\ asks < MaxAsk /\ asks' = asks + 1
    /\ wire' = Put(wire, S, Old, Encrypted(S, 1, "request", 0)) /\ Count(S, 1)
    /\ Go(S, "offer")
    /\ UNCHANGED <<open, sock, recvSeq, deferred, hostVars, path, joined, released, fault, talk>>

\* The payload is held back: what is not about the upgrade is kept.
OfferOther ==
    /\ st[S] = "offer" /\ Decrypt(S, Old) /\ Head(wire[S][Old]).kind = "data" /\ Defer(S)
    /\ UNCHANGED <<st, hostVars, senderVars, fault, talk>>

OfferRefused ==
    /\ st[S] = "offer" /\ Decrypt(S, Old) /\ Head(wire[S][Old]).kind \notin {"data", "path"}
    /\ wire' = Took(S, Old) /\ Go(S, "run")
    /\ UNCHANGED <<open, sock, sendSeq, deferred, hostVars, senderVars, fault, talk>>

OfferTimeout ==
    /\ st[S] = "offer" /\ Go(S, "run")
    /\ UNCHANGED <<transport, hostVars, senderVars, fault, talk>>

OfferWaitError ==
    /\ st[S] = "offer"
    /\ Closed(S, Old) \/ (Arrived(S, Old) /\ ~Authentic(S, Head(wire[S][Old])))
    /\ Fail(S)

\* PATH_AVAILABLE, in the wait or in the main loop.
PathAvailable ==
    /\ \/ /\ st[S] = "run" /\ TakePlain(S) /\ NextPlain(S).kind = "path"
          /\ path' = NextPlain(S).n /\ wire' = Rest(S)
       \/ /\ st[S] = "offer" /\ Decrypt(S, Old) /\ Head(wire[S][Old]).kind = "path"
          /\ path' = Head(wire[S][Old]).n /\ wire' = Took(S, Old) /\ UNCHANGED deferred
    /\ Go(S, "join")
    /\ UNCHANGED <<open, sock, sendSeq, hostVars, asks, joined, released, fault, talk>>

JoinFails ==
    /\ st[S] = "join" /\ StayPut(S, path)
    /\ UNCHANGED <<sock, recvSeq, deferred, hostVars, senderVars, fault, talk>>

\* Only the listener of this very offer answers.
Connect ==
    /\ st[S] = "join" /\ st[H] = "listen" /\ attempts = path
    /\ joined' = joined \cup {path}
    /\ open' = [e \in Ends |-> open[e] \cup {path}]
    /\ wire' = [wire EXCEPT ![H][path] = <<Plain("intro")>>]
    /\ Go(S, "ack") /\ released' = FALSE
    /\ UNCHANGED <<sock, sendSeq, recvSeq, deferred, hostVars, asks, path, fault, talk>>

Acknowledged ==
    /\ st[S] = "ack" /\ Arrived(S, path) /\ Head(wire[S][path]).kind = "ack"
    /\ wire' = Put(Took(S, path), S, Old, Encrypted(S, 1, "last", 0)) /\ Count(S, 1)
    /\ Go(S, "drain")
    /\ UNCHANGED <<open, sock, recvSeq, deferred, hostVars, senderVars, fault, talk>>

AckError ==
    /\ st[S] = "ack" /\ Closed(S, path) /\ StayPut(S, path)
    /\ UNCHANGED <<sock, recvSeq, deferred, hostVars, senderVars, fault, talk>>

AckTimeout ==
    /\ st[S] = "ack" /\ StayPut(S, path) /\ fault' = TRUE
    /\ UNCHANGED <<sock, recvSeq, deferred, hostVars, senderVars, talk>>

DrainFrame == Head(wire[S][Old]).kind

\* Slip: our release is never sent while we wait for theirs.
DrainLastSilent ==
    /\ st[S] = "drain" /\ Decrypt(S, Old) /\ DrainFrame = "last"
    /\ wire' = Took(S, Old) /\ released' = released /\ Count(S, 0)
    /\ UNCHANGED <<open, sock, st, deferred, hostVars, asks, path, joined, fault, talk>>

\* The host's LAST_WRITE: our SAFE_TO_CLOSE, once.
DrainLast ==
    /\ st[S] = "drain" /\ Decrypt(S, Old) /\ DrainFrame = "last"
    /\ released' = TRUE
    /\ IF released THEN wire' = Took(S, Old) /\ Count(S, 0)
       ELSE wire' = Put(Took(S, Old), S, Old, Encrypted(S, 1, "safe", 0)) /\ Count(S, 1)
    /\ UNCHANGED <<open, sock, st, deferred, hostVars, asks, path, joined, fault, talk>>

DrainOther ==
    /\ st[S] = "drain" /\ Decrypt(S, Old) /\ DrainFrame \notin {"last", "safe"} /\ Defer(S)
    /\ UNCHANGED <<st, hostVars, senderVars, fault, talk>>

\* Our release if it is still owed, and the swap.
SenderSwap ==
    /\ wire' = LET w == Without(wire, S, Old)
               IN IF released THEN w ELSE Put(w, S, Old, Encrypted(S, 1, "safe", 0))
    /\ Count(S, IF released THEN 0 ELSE 1)
    /\ Shut(S, Old) /\ sock' = [sock EXCEPT ![S] = path] /\ Go(S, "run")
    /\ UNCHANGED <<deferred, hostVars, senderVars, talk>>

\* Slip: the host's last write is taken for its release.
DrainSafeAtLast ==
    /\ st[S] = "drain" /\ Decrypt(S, Old) /\ DrainFrame \in {"last", "safe"}
    /\ SenderSwap /\ UNCHANGED fault

DrainSafe ==
    /\ st[S] = "drain" /\ Decrypt(S, Old) /\ DrainFrame = "safe"
    /\ SenderSwap /\ UNCHANGED fault

DrainTimeout ==
    /\ st[S] = "drain" /\ SenderSwap /\ fault' = TRUE /\ UNCHANGED recvSeq

\* An error in adopt is not fatal: the sender says so and stays.
DrainError ==
    /\ st[S] = "drain"
    /\ \/ Closed(S, Old) /\ StayPut(S, path)
       \/ /\ Arrived(S, Old) /\ ~Authentic(S, Head(wire[S][Old]))
          /\ wire' = Put(Without(Took(S, Old), S, path), S, Old, Encrypted(S, 1, "failure", 0))
          /\ Count(S, 1) /\ Shut(S, path) /\ Go(S, "run")
    /\ UNCHANGED <<sock, recvSeq, deferred, hostVars, senderVars, fault, talk>>

SenderStep ==
    \/ Hear(S) \/ Ignore(S) \/ LoopError(S)
    \/ OfferOther \/ OfferRefused \/ OfferTimeout \/ OfferWaitError \/ PathAvailable \/ JoinFails \/ Connect
    \/ Acknowledged \/ AckError \/ DrainLast \/ DrainOther \/ DrainSafe \/ DrainError
-----------------------------------------------------------------------------
\* The first socket is cut: both ends see its end after what they had got.
Cut ==
    /\ ~fault /\ fault' = TRUE
    /\ open' = [e \in Ends |-> open[e] \ {Old}]
    /\ UNCHANGED <<wire, sock, st, sendSeq, recvSeq, deferred, hostVars, senderVars, talk>>

Next ==
    \/ \E e \in Ends : Say(e)
    \/ Ask \/ OfferUnprompted
    \/ HostStep \/ SenderStep
    \/ ReleaseTimeout \/ AckTimeout \/ DrainTimeout \/ Cut

\* Both threads run; every wait ends.
Spec == Init /\ [][Next]_vars /\ WF_vars(HostStep) /\ WF_vars(SenderStep)
-----------------------------------------------------------------------------
Kinds == {"data", "request", "path", "failure", "last", "safe", "intro", "ack"}

\* Every variable keeps its type; offers never run out of sockets, whoever asks.
TypeOK ==
    /\ \A e \in Ends, s \in Sockets : \A i \in DOMAIN wire[e][s] : wire[e][s][i].kind \in Kinds
    /\ \A e \in Ends : open[e] \subseteq Sockets /\ sock[e] \in Sockets
    /\ st[H] \in {"run", "group", "listen", "intro", "release", "failed"}
    /\ st[S] \in {"run", "offer", "join", "ack", "drain", "failed"}
    /\ attempts \in Sockets /\ path \in Sockets /\ joined \subseteq Sockets \ {Old}
    /\ asks \in 0 .. MaxAsk
    /\ \A b \in {upgraded, asked, offered, released, fault} : b \in BOOLEAN

Talk == INSTANCE Conversation

\* Whatever fails, each end hears a prefix of what the other said: nothing is
\* skipped, repeated or reordered by reading two sockets and a queue.
InOrder == Talk!Spec

\* "Never fatal": as long as no wait is cut short, no interleaving of offers,
\* joins, time-outs and retries costs the conversation, and the ends are on
\* different sockets only while the sender is still being released.
CleanMove ==
    ~fault => /\ \A e \in Ends : st[e] # "failed"
              /\ sock[H] # sock[S] => st[S] = "drain" /\ sock[H] = path

\* Everything said is heard in the end, wherever a handover found it.
Delivered ==
    \A e \in Ends : <>[](~fault /\ said[e] = MaxSay) => <>(Len(heard[Other(e)]) = MaxSay)
==============================================================================
