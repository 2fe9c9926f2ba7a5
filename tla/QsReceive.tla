----------------------------- MODULE QsReceive ------------------------------
(***************************************************************************)
(* One inbound Quick Share connection: the loop of serve() in              *)
(* sharingd/src/quickshare/connection.rs after the encrypted channel is    *)
(* up, driving the Inbound machine of SharingFsm, with QsHost (main.rs) as *)
(* the host that asks the person and owns the files in the inbox.          *)
(*                                                                         *)
(* Next puts the connection in front of a peer that may send any frame at  *)
(* any moment or hang up; QsPair puts it in front of the real sender.      *)
(*                                                                         *)
(* A file is a first chunk, maybe more, and a terminator.  Everything the  *)
(* payload assembler, the parser or the decryption refuses is the frame    *)
(* "unreadable".  A handover to Wi-Fi Direct is an episode during which    *)
(* the old socket is drained into `deferred`: up to a cap until the sender *)
(* has joined, without one while it is released.  Then the conversation    *)
(* has moved or stays.                                                     *)
(***************************************************************************)
EXTENDS SharingFsm, Integers, FiniteSets

CONSTANTS
    Files,         \* payload ids a peer may announce or send as files
    Texts,         \* attachments that are texts: announced, never received as files
    Slow,          \* bootstrap_is_slow: the connection came over Bluetooth
    DeferCap,      \* HANDOVER_DEFER_CAP, in frames
    MaxDeferred,   \* bound: deferred frames not handled yet
    MaxOut         \* bound: frames of ours the peer has not read yet

MAX_UPGRADE_ATTEMPTS == 2

ASSUME ReceiveAssumption ==
    /\ Slow \in BOOLEAN
    /\ DeferCap \in Nat
    /\ MaxDeferred \in Nat
    /\ MaxOut \in Nat

Attachments == Files \cup Texts

VARIABLES
    pc,            \* "effects", "asking", "offer_begun", "offer_asked", "read", "over",
                   \* or "blocked" in a write that does not return
    fsm,           \* Inbound::state
    introduction,  \* Inbound::introduction
    batch,         \* effects being performed
    pending,       \* effects queued behind them
    deferred,      \* frames read during a handover, still to be handled
    upgraded,      \* the conversation has moved
    attempts,      \* upgrade_attempts
    hosting,       \* the group of this offer: "no", "offered" or "joined"
    held,          \* frames drained under the cap in this offer
    expected,      \* announced payloads not yet complete
    sinks,         \* payloads with an open writer
    written,       \* payloads a file was created for
    cancelled,     \* host.cancelled()
    outcome,       \* what serve() returned
    out,           \* frames written and not yet read by the peer
    shown,         \* history: what the person was asked about
    approved,      \* history: what the person said yes to
    inbox,         \* history: files of this connection on disk
    whole          \* history: payloads whose terminator arrived

machine == <<fsm, introduction>>
queues == <<batch, pending>>
upgrade == <<upgraded, attempts, hosting, held>>
files == <<expected, sinks, written, inbox, whole>>
consent == <<shown, approved>>
vars == <<pc, fsm, introduction, batch, pending, deferred, upgraded, attempts, hosting, held,
          expected, sinks, written, cancelled, outcome, out, shown, approved, inbox, whole>>

Init ==
    /\ pc = "effects"
    /\ fsm = InboundStart.state
    /\ introduction = InboundStart.introduction
    /\ batch = InboundStart.effects
    /\ pending = <<>>
    /\ deferred = <<>>
    /\ upgraded = FALSE
    /\ attempts = 0
    /\ hosting = "no"
    /\ held = 0
    /\ expected = {} /\ sinks = {} /\ written = {} /\ inbox = {} /\ whole = {}
    /\ cancelled = FALSE
    /\ outcome = "none"
    /\ out = <<>>
    /\ shown = {} /\ approved = {}

Write(f) == out' = Append(out, f)

\* serve() returns.
Return(result) ==
    /\ pc' = "over"
    /\ outcome' = result
    /\ batch' = <<>>
    /\ pending' = <<>>

\* The machine takes an event; its effects join the queue.
Feed(ev) ==
    LET step == InboundOn(fsm, introduction, ev)
    IN /\ fsm' = step.state
       /\ introduction' = step.introduction
       /\ pending' = pending \o step.effects

-----------------------------------------------------------------------------
(* Performing the effects, in order *)

Doing(e) == pc = "effects" /\ batch # <<>> /\ Head(batch).effect = e

DoSend ==
    /\ Doing("send")
    /\ Write(Head(batch).frame)
    /\ batch' = Tail(batch)
    /\ UNCHANGED <<pc, machine, pending, deferred, upgrade, files, cancelled, outcome, consent>>

\* The offer is announced to every client and the thread blocks on the answer.
DoAskUser ==
    /\ Doing("ask_user")
    /\ shown' = Head(batch).frame.files
    /\ batch' = Tail(batch)
    /\ pc' = "asking"
    /\ UNCHANGED <<machine, pending, deferred, upgrade, files, cancelled, outcome, out, approved>>

\* host.ask returns: the person's answer, auto-accept, or a refusal when no
\* client is there or nobody answers in time.
Answered(yes) ==
    /\ pc = "asking"
    /\ approved' = IF yes THEN shown ELSE approved
    /\ Feed(Event(IF yes THEN "user_accepted" ELSE "user_rejected"))
    /\ pc' = "effects"
    /\ UNCHANGED <<batch, deferred, upgrade, files, cancelled, outcome, out, shown>>

\* Expect every announced file; then, on a slow transport, offer a group.
DoBeginReceiving ==
    /\ Doing("begin_receiving")
    /\ expected' = expected \cup (Head(batch).frame.files \cap Files)
    /\ batch' = Tail(batch)
    /\ IF ~upgraded /\ Slow
       THEN pc' = "offer_begun" /\ attempts' = attempts + 1 /\ held' = 0
       ELSE UNCHANGED <<pc, attempts, held>>
    /\ UNCHANGED <<machine, pending, deferred, upgraded, hosting, sinks, written, inbox,
                   whole, cancelled, outcome, out, consent>>

DoDone ==
    /\ Doing("done")
    /\ Write(Frame("disconnect_safe"))
    /\ Return("received")
    /\ UNCHANGED <<machine, deferred, upgrade, files, cancelled, consent>>

\* The writers are closed and the host deletes what it opened.
DoCancelled ==
    /\ Doing("cancelled")
    /\ Return("cancelled")
    /\ sinks' = {}
    /\ inbox' = {}
    /\ UNCHANGED <<machine, deferred, upgrade, expected, written, whole, cancelled, out, consent>>

DoFailed ==
    /\ Doing("failed")
    /\ Return("error")
    /\ UNCHANGED <<machine, deferred, upgrade, files, cancelled, out, consent>>

\* A write to a peer that is gone fails, and `?` ends the connection.
WriteFails ==
    /\ Doing("send") \/ Doing("done") \/ pc = "blocked"
    /\ Return("error")
    /\ UNCHANGED <<machine, deferred, upgrade, files, cancelled, out, consent>>

\* Slip: the peer is waited for while effects are still queued.
EndOfBatchReads ==
    /\ pc = "effects"
    /\ batch = <<>>
    /\ \/ /\ pending # <<>>
          /\ batch' = pending
          /\ pending' = <<>>
          /\ UNCHANGED pc
       \/ /\ pc' = "read"
          /\ UNCHANGED queues
    /\ UNCHANGED <<machine, deferred, upgrade, files, cancelled, outcome, out, consent>>

\* The batch is done: notice a cancel, go round again while effects are
\* queued, and only then wait for the peer.
EndOfBatch ==
    /\ pc = "effects"
    /\ batch = <<>>
    /\ \/ /\ cancelled
          /\ LET step == InboundOn(fsm, introduction, Event("user_cancelled"))
             IN /\ fsm' = step.state
                /\ introduction' = step.introduction
                /\ batch' = pending \o step.effects
          /\ pending' = <<>>
          /\ UNCHANGED pc
       \/ /\ ~cancelled
          /\ pending # <<>>
          /\ batch' = pending
          /\ pending' = <<>>
          /\ UNCHANGED <<pc, machine>>
       \/ /\ ~cancelled
          /\ pending = <<>>
          /\ pc' = "read"
          /\ UNCHANGED <<machine, queues>>
    /\ UNCHANGED <<deferred, upgrade, files, cancelled, outcome, out, consent>>

-----------------------------------------------------------------------------
(* Handling one frame; the caller says where it came from *)

OnSharing(f) ==
    /\ f.type \in PlainFrames \cup {"introduction"}
    /\ Feed(FrameEvent(f))
    /\ pc' = "effects"
    /\ UNCHANGED <<batch, upgrade, files, cancelled, outcome, out, consent>>

\* Slip: a chunk nobody announced opens a file too.
OnChunkAny(f) ==
    /\ f.type \in {"chunk", "last_chunk"}
    /\ \E a \in f.files :
          /\ sinks' = sinks \cup {a}
          /\ written' = written \cup {a}
          /\ inbox' = inbox \cup {a}
          /\ pc' = "effects"
          /\ UNCHANGED <<machine, queues, outcome, expected, whole>>
    /\ UNCHANGED <<upgrade, cancelled, out, consent>>

\* A file chunk: refused unless announced; the first creates the file; the
\* terminator closes it, and the last terminator completes the transfer.  The
\* file may not open, not take the bytes or not take the last of them: the
\* connection fails with what is on the disk still there.
OnChunk(f) ==
    /\ f.type \in {"chunk", "last_chunk"}
    /\ \E a \in f.files :
          \/ /\ a \notin expected
             /\ Return("error")
             /\ UNCHANGED <<machine, files>>
          \/ /\ a \in expected
             /\ a \notin sinks
             /\ Return("error")            \* host.create failed
             /\ UNCHANGED <<machine, files>>
          \/ /\ a \in expected
             /\ written' = written \cup {a}
             /\ inbox' = inbox \cup {a}
             /\ \/ sinks' = sinks \cup {a}                              \* write_all failed
                \/ f.type = "last_chunk" /\ sinks' = sinks \ {a}        \* flush failed
             /\ Return("error")
             /\ UNCHANGED <<machine, expected, whole>>
          \/ /\ a \in expected
             /\ written' = written \cup {a}
             /\ inbox' = inbox \cup {a}
             /\ pc' = "effects"
             /\ IF f.type = "last_chunk"
                THEN /\ sinks' = sinks \ {a}
                     /\ expected' = expected \ {a}
                     /\ whole' = whole \cup {a}
                     /\ IF expected = {a} THEN Feed(Event("transfer_complete"))
                                          ELSE UNCHANGED <<machine, pending>>
                ELSE /\ sinks' = sinks \cup {a}
                     /\ UNCHANGED <<machine, pending, expected, whole>>
             /\ UNCHANGED <<batch, outcome>>
    /\ UNCHANGED <<upgrade, cancelled, out, consent>>

\* The peer cancelled a payload it had begun: that cancels the transfer.
OnPayloadCancel(f) ==
    /\ f.type = "payload_cancel"
    /\ sinks' = sinks \ f.files
    /\ Feed(Event("user_cancelled"))
    /\ pc' = "effects"
    /\ UNCHANGED <<batch, upgrade, expected, written, inbox, whole, cancelled, outcome, out, consent>>

\* Slip: a handover the peer asked for is not counted as an attempt.
OnPathRequestUncounted(f) ==
    /\ f.type = "path_request"
    /\ ~upgraded
    /\ attempts < MAX_UPGRADE_ATTEMPTS
    /\ held' = 0
    /\ pc' = "offer_asked"
    /\ UNCHANGED <<machine, queues, upgraded, attempts, hosting, files, cancelled, outcome, out,
                   consent>>

\* A sender asking for Wi-Fi Direct: ignored, declined, or a handover.
OnPathRequest(f) ==
    /\ f.type \in {"path_request", "path_request_other"}
    /\ \/ /\ upgraded
          /\ pc' = "effects"
          /\ UNCHANGED <<attempts, held, out>>
       \/ /\ ~upgraded
          /\ ~Slow \/ attempts >= MAX_UPGRADE_ATTEMPTS \/ f.type = "path_request_other"
          /\ Write(Frame("upgrade_failure"))
          /\ pc' = "effects"
          /\ UNCHANGED <<attempts, held>>
       \/ /\ ~upgraded
          /\ Slow /\ attempts < MAX_UPGRADE_ATTEMPTS /\ f.type = "path_request"
          /\ attempts' = attempts + 1
          /\ held' = 0
          /\ pc' = "offer_asked"
          /\ UNCHANGED out
    /\ UNCHANGED <<machine, queues, upgraded, hosting, files, cancelled, outcome, consent>>

\* The peer leaves: acknowledge if it asked, and report what was written.
OnDisconnect(f) ==
    /\ f.type \in {"disconnect", "disconnect_safe"}
    /\ IF f.type = "disconnect_safe" THEN Write(Frame("disconnect")) ELSE UNCHANGED out
    /\ Return("received")
    /\ UNCHANGED <<machine, upgrade, files, cancelled, consent>>

OnControl(f) ==
    /\ f.type \in {"keep_alive", "keep_alive_ack", "path_available", "upgrade_failure", "other"}
    /\ IF f.type = "keep_alive" THEN Write(Frame("keep_alive_ack")) ELSE UNCHANGED out
    /\ pc' = "effects"
    /\ UNCHANGED <<machine, queues, upgrade, files, cancelled, outcome, consent>>

\* Decryption, parsing or assembly refuses the frame, or the peer reports an
\* error on a payload.
OnBad(f) ==
    /\ f.type \in {"unreadable", "payload_error"}
    /\ Return("error")
    /\ UNCHANGED <<machine, upgrade, files, cancelled, out, consent>>

Handle(f) ==
    \/ OnSharing(f) \/ OnChunk(f) \/ OnPayloadCancel(f) \/ OnPathRequest(f)
    \/ OnDisconnect(f) \/ OnControl(f) \/ OnBad(f)

-----------------------------------------------------------------------------
(* Where frames come from *)

Offering == pc \in {"offer_begun", "offer_asked"}

\* The next frame off the socket.
Receive(f) ==
    /\ pc = "read"
    /\ deferred = <<>>
    /\ Handle(f)
    /\ UNCHANGED deferred

\* Deferred frames come first: they are older than anything on the socket.
Replay ==
    /\ pc = "read"
    /\ deferred # <<>>
    /\ Handle(Head(deferred))
    /\ deferred' = Tail(deferred)

\* drain_old: until the sender has joined, a handover keeps the old socket
\* draining, up to the cap of this offer.
Drain(f) ==
    /\ Offering
    /\ hosting # "joined"
    /\ held < DeferCap
    /\ Len(deferred) < MaxDeferred
    /\ held' = held + 1
    /\ deferred' = Append(deferred, f)
    /\ UNCHANGED <<pc, machine, queues, upgraded, attempts, hosting, files, cancelled, outcome,
                   out, consent>>

\* The release of the old socket: what is not about it is set aside, with no
\* cap but the five seconds it may take.
Release(f) ==
    /\ Offering
    /\ hosting = "joined"
    /\ Len(deferred) < MaxDeferred
    /\ deferred' = Append(deferred, f)
    /\ UNCHANGED <<pc, machine, queues, upgrade, files, cancelled, outcome, out, consent>>

\* The client has formed the group: tell the sender how to reach it.
HostGroup ==
    /\ Offering
    /\ hosting = "no"
    /\ Write(Frame("path_available"))
    /\ hosting' = "offered"
    /\ UNCHANGED <<pc, machine, queues, deferred, upgraded, attempts, held, files, cancelled,
                   outcome, consent>>

\* The sender has joined the group and introduced itself on the new socket.
SenderJoins ==
    /\ Offering
    /\ hosting = "offered"
    /\ hosting' = "joined"
    /\ UNCHANGED <<pc, machine, queues, deferred, upgraded, attempts, held, files, cancelled,
                   outcome, out, consent>>

\* The handover ends: released or not in time, the conversation moves to the
\* socket the sender joined on; or it stays, for want of a listener, a group or
\* a sender, and we said so; or an error, which is fatal only when it was the
\* peer that had asked.
OfferMoved ==
    /\ Offering
    /\ hosting = "joined"
    /\ hosting' = "no"
    /\ upgraded' = TRUE
    /\ pc' = "effects"
    /\ UNCHANGED <<machine, queues, deferred, attempts, held, files, cancelled, outcome, out,
                   consent>>

OfferStayed ==
    /\ Offering
    /\ hosting # "joined"
    /\ Write(Frame("upgrade_failure"))
    /\ hosting' = "no"
    /\ pc' = "effects"
    /\ UNCHANGED <<machine, queues, deferred, upgraded, attempts, held, files, cancelled, outcome,
                   consent>>

OfferFailed ==
    /\ Offering
    /\ hosting' = "no"
    /\ IF pc = "offer_asked"
       THEN Return("error")
       ELSE pc' = "effects" /\ UNCHANGED <<queues, outcome>>
    /\ UNCHANGED <<machine, deferred, upgraded, attempts, held, files, cancelled, out, consent>>

\* A Bluetooth socket has no write timeout: a write to a peer that has stopped
\* reading, an effect's, an offer's or an answer's, may never return.
WriteBlocks ==
    /\ Slow /\ ~upgraded
    /\ Doing("send") \/ Doing("done") \/ Offering \/ pc = "read"
    /\ pc' = "blocked"
    /\ UNCHANGED <<machine, queues, deferred, upgrade, files, cancelled, outcome, out, consent>>

\* input.next() fails: the peer is gone or the socket was shut down.
ReadFails ==
    /\ pc = "read"
    /\ deferred = <<>>
    /\ Return("error")
    /\ UNCHANGED <<machine, deferred, upgrade, files, cancelled, out, consent>>

\* Slip: offer_group forgets arm_abort, and there is no socket to shut down.
AbortSocketForgotten == cancelled /\ upgraded /\ pc = "over" /\ ReadFails

\* The grace thread of TransferState::cancel: two seconds after a cancel it
\* shuts down the socket armed by the handover, and the blocked read fails.
AbortSocket == cancelled /\ upgraded /\ ReadFails

\* cancelTransfer for this transfer's id.
Cancel ==
    /\ ~cancelled
    /\ pc # "over"
    /\ cancelled' = TRUE
    /\ UNCHANGED <<pc, machine, queues, deferred, upgrade, files, outcome, out, consent>>

\* Steps the serving thread takes by itself, whatever the peer does.
Perform ==
    \/ DoSend \/ DoAskUser \/ DoBeginReceiving \/ DoDone \/ DoCancelled \/ DoFailed
    \/ EndOfBatch \/ Replay
EndOffer == OfferMoved \/ OfferStayed \/ OfferFailed

-----------------------------------------------------------------------------
(* In front of an arbitrary peer *)

PeerFrames ==
    {Frame(t) : t \in PlainFrames \cup ControlFrames}
    \cup {IntroductionFrame(as) : as \in SUBSET Attachments}
    \cup UNION {{Chunk(a), LastChunk(a), PayloadCancel(a), PayloadError(a)} : a \in Attachments}

PeerSends == \E f \in PeerFrames : Len(out) < MaxOut /\ (Receive(f) \/ Drain(f) \/ Release(f))

PeerReads ==
    /\ out # <<>>
    /\ out' = Tail(out)
    /\ UNCHANGED <<pc, machine, queues, deferred, upgrade, files, cancelled, outcome, consent>>

Next ==
    \/ Perform \/ WriteFails \/ WriteBlocks
    \/ \E yes \in BOOLEAN : Answered(yes)
    \/ HostGroup \/ SenderJoins \/ EndOffer
    \/ PeerSends \/ PeerReads \/ ReadFails \/ AbortSocket
    \/ Cancel

Spec == Init /\ [][Next]_vars

\* The thread keeps running, host.ask is bounded by its timeout and a handover
\* by its deadlines.  A write returns, but one that blocked over Bluetooth need
\* not.  Nothing makes the peer speak.
Fairness ==
    /\ WF_vars(Perform)
    /\ WF_vars(\E yes \in BOOLEAN : Answered(yes))
    /\ WF_vars(EndOffer)
    /\ WF_vars(AbortSocket)

FairSpec == Spec /\ Fairness

-----------------------------------------------------------------------------
(* Properties *)

FrameTypes == PlainFrames \cup ControlFrames
                 \cup {"introduction", "chunk", "last_chunk", "payload_cancel", "payload_error"}
Frames == [type : FrameTypes, files : SUBSET Attachments]
Effects == [effect : {"send", "ask_user", "begin_receiving", "done", "cancelled", "failed"},
            frame : [type : FrameTypes \cup {"none"}, files : SUBSET Attachments]]

\* Every variable of the connection keeps its type.
TypeOK ==
    /\ pc \in {"effects", "asking", "offer_begun", "offer_asked", "read", "over", "blocked"}
    /\ fsm \in States
    /\ introduction \subseteq Attachments
    /\ batch \in Seq(Effects)
    /\ pending \in Seq(Effects)
    /\ deferred \in Seq(Frames)
    /\ held \in 0 .. DeferCap
    /\ upgraded \in BOOLEAN /\ hosting \in {"no", "offered", "joined"}
    /\ attempts \in 0 .. MAX_UPGRADE_ATTEMPTS + 1
    /\ expected \subseteq Files /\ sinks \subseteq Files /\ written \subseteq Files
    /\ inbox \subseteq Files /\ whole \subseteq Files
    /\ cancelled \in BOOLEAN
    /\ outcome \in {"none", "received", "cancelled", "error"}
    /\ out \in Seq(Frames)
    /\ shown \subseteq Attachments /\ approved \subseteq Attachments

\* Consent: whatever any peer sends, in whatever order, before, during or after
\* a handover, a file is opened in the inbox only if the person was shown that
\* very attachment and said yes; and an acceptance on the wire means that the
\* person approved what is about to be received ("The receiving machine will
\* not send an acceptance on its own under any sequence of peer frames").
Consent ==
    /\ written \cup inbox \subseteq approved
    /\ (\/ \E i \in 1 .. Len(out) : out[i].type = "accept"
        \/ fsm = "Transferring") => approved # {} /\ approved = introduction

\* How serve() ends is what the machine says, never what the peer happened to
\* send next: a cancelled exchange is not reported as received, a finished one
\* not as cancelled, a failed one as neither.
OutcomeIsState ==
    outcome # "none" =>
        /\ fsm = "Cancelled" => outcome \in {"cancelled", "error"}
        /\ fsm = "Done" => outcome \in {"received", "error"}
        /\ fsm = "Failed" => outcome = "error"
        /\ outcome = "cancelled" => inbox = {} /\ sinks = {}

\* Once the exchange is over the connection ends without another word from the
\* peer: every trailing effect is performed before the next read.  Only a
\* connection still on Bluetooth may be left in a write the peer does not read.
EndsWithoutPeer ==
    is_over(fsm) ~> (pc = "over" \/ (pc = "blocked" /\ Slow /\ ~upgraded))

\* "The cap is what stops a peer that asks repeatedly from buying a 25 s
\* handover every time": whatever a peer asks for, on the socket or in frames
\* set aside during a handover, the receiver stops hosting groups for it.
HandoversEnd == <>[]~Offering

\* A cancel of a transfer that has moved to Wi-Fi Direct ends it even when the
\* peer is silent: the armed socket is shut down after the grace period.
CancelEndsMoved == (cancelled /\ upgraded) ~> pc = "over"
=============================================================================
