------------------------------ MODULE QsSend --------------------------------
(***************************************************************************)
(* One outbound Quick Share connection: the loop of send() in              *)
(* sharingd/src/quickshare/outbound.rs after the encrypted channel is up,  *)
(* driving the Outbound machine of SharingFsm.                             *)
(*                                                                         *)
(* While it streams, the sender does not read: the peer is heard again     *)
(* only after the last file.  Adopting an offered group is an episode      *)
(* during which the old socket is drained into `deferred`, and which ends  *)
(* on the new socket or, with a failure said, on the old one.  The PIN is  *)
(* not asked for (confirm_pin is always true).                             *)
(***************************************************************************)
EXTENDS SharingFsm, Integers, FiniteSets

CONSTANTS
    Files,         \* the files to send
    Empty,         \* those of them that hold no bytes
    Slow,          \* bootstrapped over Bluetooth: ask for Wi-Fi Direct
    Safe,          \* peer_safe_disconnect
    DeferCap,      \* bound: frames set aside while waiting for an offer
    MaxOut         \* bound: frames of ours the peer has not read yet

ASSUME SendAssumption ==
    /\ Empty \subseteq Files
    /\ Slow \in BOOLEAN
    /\ Safe \in BOOLEAN
    /\ DeferCap \in Nat
    /\ MaxOut \in Nat

VARIABLES
    pc,            \* "effects", "waiting", "adopt_read", "adopt_wait", "streaming", "read", "over",
                   \* or "blocked" in a write that does not return
    fsm,           \* Outbound::state
    batch,         \* effects being performed
    pending,       \* effects queued behind them
    deferred,      \* frames read while waiting for an offer
    solicited,     \* the upgrade question has been settled once
    deadline,      \* upgrade_deadline is set: hold the payload for an offer
    moved,         \* the conversation is on a socket adopt() connected
    begun,         \* files with a data chunk on the wire
    sent,          \* files with their terminator on the wire
    cancelled,     \* progress.cancelled()
    outcome,       \* what send() returned: "true", "false" or "error"
    out,           \* frames written and not yet read by the peer
    accepted,      \* history: the peer's acceptance was acted on
    saidCancel     \* history: a cancel frame was written

queues == <<batch, pending>>
asking == <<solicited, deadline, moved>>
payload == <<begun, sent>>
history == <<accepted, saidCancel>>
vars == <<pc, fsm, batch, pending, deferred, solicited, deadline, moved, begun, sent, cancelled,
          outcome, out, accepted, saidCancel>>

Init ==
    /\ pc = "effects"
    /\ fsm = OutboundStart(Files).state
    /\ batch = OutboundStart(Files).effects
    /\ pending = <<>>
    /\ deferred = <<>>
    /\ solicited = FALSE
    /\ deadline = FALSE
    /\ moved = FALSE
    /\ begun = {} /\ sent = {}
    /\ cancelled = FALSE
    /\ outcome = "none"
    /\ out = <<>>
    /\ accepted = FALSE
    /\ saidCancel = FALSE

Write(f) == out' = Append(out, f)

Return(result) ==
    /\ pc' = "over"
    /\ outcome' = result
    /\ batch' = <<>>
    /\ pending' = <<>>

Feed(ev) ==
    LET step == OutboundOn(fsm, Files, ev)
    IN /\ fsm' = step.state
       /\ pending' = pending \o step.effects

-----------------------------------------------------------------------------
(* Performing the effects *)

Doing(e) == pc = "effects" /\ batch # <<>> /\ Head(batch).effect = e

DoSend ==
    /\ Doing("send")
    /\ Write(Head(batch).frame)
    /\ saidCancel' = (saidCancel \/ Head(batch).frame.type = "cancel")
    /\ batch' = Tail(batch)
    /\ UNCHANGED <<pc, fsm, pending, deferred, asking, payload, cancelled, outcome, accepted>>

\* The peer accepted: hold the payload for an offer still outstanding.
DoBeginSending ==
    /\ Doing("begin_sending")
    /\ accepted' = TRUE
    /\ batch' = Tail(batch)
    /\ pc' = IF deadline THEN "waiting" ELSE "streaming"
    /\ deadline' = FALSE
    /\ UNCHANGED <<fsm, pending, deferred, solicited, moved, payload, cancelled, outcome, out,
                   saidCancel>>

\* finish_cleanly, then "sent everything" as the state and the size tell it.
DoDone ==
    /\ Doing("done")
    /\ IF Safe THEN Write(Frame("disconnect_safe")) ELSE UNCHANGED out
    /\ Return(IF fsm = "Done" /\ Files \ Empty # {} THEN "true" ELSE "false")
    /\ UNCHANGED <<fsm, deferred, asking, payload, cancelled, history>>

DoCancelled ==
    /\ Doing("cancelled")
    /\ Return("false")
    /\ UNCHANGED <<fsm, deferred, asking, payload, cancelled, out, history>>

DoFailed ==
    /\ Doing("failed")
    /\ Return("error")
    /\ UNCHANGED <<fsm, deferred, asking, payload, cancelled, out, history>>

Adopting == pc \in {"adopt_read", "adopt_wait"}

\* A write to a peer that is gone, or reading a file, fails.
IoFails ==
    /\ Doing("send") \/ Doing("done") \/ pc \in {"streaming", "blocked"} \/ Adopting
    /\ Return("error")
    /\ UNCHANGED <<fsm, deferred, asking, payload, cancelled, out, history>>

\* A Bluetooth socket has no write timeout: a write to a peer that has stopped
\* reading, of an effect, a question, a chunk or an answer, may never return.
WriteBlocks ==
    /\ Slow /\ ~moved
    /\ \/ Doing("send") \/ (Doing("done") /\ Safe) \/ pc \in {"streaming", "read"} \/ Adopting
       \/ pc = "effects" /\ batch = <<>> /\ ~solicited
    /\ pc' = "blocked"
    /\ UNCHANGED <<fsm, queues, deferred, asking, payload, cancelled, outcome, out, history>>

-----------------------------------------------------------------------------
(* wait_for_upgrade, adopt and send_one *)

UpgradeFrames == {"path_request", "path_request_other", "path_available", "upgrade_failure"}

\* Anything about the upgrade ends the wait, an offer by adopting it; the rest
\* is set aside.
WaitFrame(f) ==
    /\ pc = "waiting"
    /\ \/ /\ f.type \in UpgradeFrames
          /\ pc' = IF f.type = "path_available" THEN "adopt_wait" ELSE "streaming"
          /\ UNCHANGED deferred
       \/ /\ f.type \notin UpgradeFrames
          /\ Len(deferred) < DeferCap
          /\ deferred' = Append(deferred, f)
          /\ UNCHANGED pc
    /\ UNCHANGED <<fsm, queues, asking, payload, cancelled, outcome, out, history>>

\* While the old socket is being released, what is not about the release is
\* set aside: the acceptance may be among it.
AdoptDrain(f) ==
    /\ Adopting
    /\ Len(deferred) < DeferCap
    /\ deferred' = Append(deferred, f)
    /\ UNCHANGED <<pc, fsm, queues, asking, payload, cancelled, outcome, out, history>>

\* Slip: the frames read while the old socket is released are forgotten.
AdoptEndForgets ==
    /\ Adopting
    /\ pc' = IF pc = "adopt_wait" THEN "streaming" ELSE "effects"
    /\ deferred' = <<>>
    /\ UNCHANGED <<fsm, queues, asking, payload, cancelled, outcome, out, history>>

\* adopt returns: on the new socket, or on the old one after saying that the
\* offer was declined or failed part-way.
AdoptEnd ==
    /\ Adopting
    /\ pc' = IF pc = "adopt_wait" THEN "streaming" ELSE "effects"
    /\ \/ moved' = TRUE /\ UNCHANGED out
       \/ Write(Frame("upgrade_failure")) /\ UNCHANGED moved
    /\ UNCHANGED <<fsm, queues, deferred, solicited, deadline, payload, cancelled, outcome, history>>

\* The deadline passes, or a cancel is noticed.
WaitOver ==
    /\ pc = "waiting"
    /\ pc' = "streaming"
    /\ UNCHANGED <<fsm, queues, deferred, asking, payload, cancelled, outcome, out, history>>

\* One data chunk of the next file, after looking at the cancel flag.
StreamChunk ==
    /\ pc = "streaming"
    /\ ~cancelled
    /\ \E f \in Files \ (sent \cup Empty) :
          /\ begun \ sent \subseteq {f}
          /\ f \notin begun
          /\ Write(Chunk(f))
          /\ begun' = begun \cup {f}
    /\ UNCHANGED <<pc, fsm, queues, deferred, asking, sent, cancelled, outcome, history>>

\* The end of the file: the terminator is a frame of its own.  When the last
\* data chunk was a short one, no look at the cancel flag comes between them.
StreamLast ==
    /\ pc = "streaming"
    /\ \E f \in Files \ sent :
          /\ cancelled => f \in begun
          /\ f \in begun \cup Empty
          /\ begun \ sent \subseteq {f}
          /\ Write(LastChunk(f))
          /\ sent' = sent \cup {f}
    /\ UNCHANGED <<pc, fsm, queues, deferred, asking, begun, cancelled, outcome, history>>

\* Slip: a cancelled stream reported to the machine as complete.
StreamEndComplete ==
    /\ pc = "streaming"
    /\ sent = Files \/ cancelled
    /\ Feed(Event("transfer_complete"))
    /\ pc' = "effects"
    /\ UNCHANGED <<batch, deferred, asking, payload, cancelled, outcome, out, history>>

\* Every file has gone, or a cancel was seen between two chunks.
StreamEnd ==
    /\ pc = "streaming"
    /\ sent = Files \/ cancelled
    /\ Feed(Event(IF sent = Files THEN "transfer_complete" ELSE "user_cancelled"))
    /\ pc' = "effects"
    /\ UNCHANGED <<batch, deferred, asking, payload, cancelled, outcome, out, history>>

-----------------------------------------------------------------------------
(* The end of a batch, and the frames of the peer *)

\* Slip: the peer is waited for while effects are still queued.
EndOfBatchReads ==
    /\ pc = "effects"
    /\ batch = <<>>
    /\ solicited' = TRUE
    /\ UNCHANGED <<out, deadline>>
    /\ \/ /\ pending # <<>>
          /\ batch' = pending
          /\ pending' = <<>>
          /\ UNCHANGED pc
       \/ /\ pc' = "read"
          /\ UNCHANGED queues
    /\ UNCHANGED <<fsm, deferred, moved, payload, cancelled, outcome, history>>

\* Ask once for a faster medium; notice a cancel; go round while effects are
\* queued; only then wait for the peer.
EndOfBatch ==
    /\ pc = "effects"
    /\ batch = <<>>
    /\ solicited' = TRUE
    /\ IF ~solicited /\ Slow
       THEN Write(Frame("path_request")) /\ deadline' = TRUE
       ELSE UNCHANGED <<out, deadline>>
    /\ \/ /\ cancelled
          /\ LET step == OutboundOn(fsm, Files, Event("user_cancelled"))
             IN fsm' = step.state /\ batch' = pending \o step.effects
          /\ pending' = <<>>
          /\ UNCHANGED pc
       \/ /\ ~cancelled
          /\ pending # <<>>
          /\ batch' = pending
          /\ pending' = <<>>
          /\ UNCHANGED <<pc, fsm>>
       \/ /\ ~cancelled
          /\ pending = <<>>
          /\ pc' = "read"
          /\ UNCHANGED <<fsm, queues>>
    /\ UNCHANGED <<deferred, moved, payload, cancelled, outcome, history>>

OnSharing(f) ==
    /\ f.type \in PlainFrames \cup {"introduction"}
    /\ Feed(FrameEvent(f))
    /\ pc' = "effects"
    /\ UNCHANGED <<batch, asking, payload, cancelled, outcome, out, history>>

\* Slip: an offer that comes before the answer starts the stream.
OnUpgradeStreams(f) ==
    /\ f.type \in UpgradeFrames
    /\ deadline' = FALSE
    /\ pc' = "streaming"
    /\ UNCHANGED <<fsm, queues, solicited, moved, payload, cancelled, outcome, out, history>>

\* An upgrade frame: an offer is adopted, and in any case the payload is held
\* for one no longer.
OnUpgrade(f) ==
    /\ f.type \in UpgradeFrames
    /\ deadline' = FALSE
    /\ pc' = IF f.type = "path_available" THEN "adopt_read" ELSE "effects"
    /\ UNCHANGED <<fsm, queues, solicited, moved, payload, cancelled, outcome, out, history>>

OnDisconnect(f) ==
    /\ f.type \in {"disconnect", "disconnect_safe"}
    /\ IF f.type = "disconnect_safe" THEN Write(Frame("disconnect")) ELSE UNCHANGED out
    /\ Return("false")
    /\ UNCHANGED <<fsm, asking, payload, cancelled, history>>

\* A sender is offered no files: payload events other than bytes are not news.
OnOther(f) ==
    /\ f.type \in {"keep_alive", "keep_alive_ack", "other", "chunk", "last_chunk",
                   "payload_cancel", "payload_error"}
    /\ IF f.type = "keep_alive" THEN Write(Frame("keep_alive_ack")) ELSE UNCHANGED out
    /\ pc' = "effects"
    /\ UNCHANGED <<fsm, queues, asking, payload, cancelled, outcome, history>>

OnBad(f) ==
    /\ f.type = "unreadable"
    /\ Return("error")
    /\ UNCHANGED <<fsm, asking, payload, cancelled, out, history>>

Handle(f) == OnSharing(f) \/ OnUpgrade(f) \/ OnDisconnect(f) \/ OnOther(f) \/ OnBad(f)

Receive(f) ==
    /\ pc = "read"
    /\ deferred = <<>>
    /\ Handle(f)
    /\ UNCHANGED deferred

Replay ==
    /\ pc = "read"
    /\ deferred # <<>>
    /\ Handle(Head(deferred))
    /\ deferred' = Tail(deferred)

ReadFails ==
    /\ pc = "waiting" \/ (pc = "read" /\ deferred = <<>>)
    /\ Return("error")
    /\ UNCHANGED <<fsm, deferred, asking, payload, cancelled, out, history>>

Cancel ==
    /\ ~cancelled
    /\ pc # "over"
    /\ cancelled' = TRUE
    /\ UNCHANGED <<pc, fsm, queues, deferred, asking, payload, outcome, out, history>>

Perform ==
    \/ DoSend \/ DoBeginSending \/ DoDone \/ DoCancelled \/ DoFailed
    \/ StreamChunk \/ StreamLast \/ StreamEnd
    \/ EndOfBatch \/ Replay

-----------------------------------------------------------------------------
(* In front of an arbitrary peer *)

PeerFrames ==
    {Frame(t) : t \in PlainFrames \cup ControlFrames}
    \cup {IntroductionFrame(Files)}
    \cup UNION {{Chunk(a), PayloadCancel(a)} : a \in Files}

PeerSends == \E f \in PeerFrames : Len(out) < MaxOut /\ (Receive(f) \/ WaitFrame(f) \/ AdoptDrain(f))

PeerReads ==
    /\ out # <<>>
    /\ out' = Tail(out)
    /\ UNCHANGED <<pc, fsm, queues, deferred, asking, payload, cancelled, outcome, history>>

Next ==
    \/ Perform \/ IoFails \/ WriteBlocks
    \/ WaitOver \/ AdoptEnd
    \/ PeerSends \/ PeerReads \/ ReadFails
    \/ Cancel

Spec == Init /\ [][Next]_vars

\* The thread keeps running; the wait for an offer and every wait of adopt have
\* deadlines, and so has every write but those over Bluetooth.  Nothing makes
\* the peer speak or read.
Fairness == WF_vars(Perform) /\ WF_vars(WaitOver) /\ WF_vars(AdoptEnd)

FairSpec == Spec /\ Fairness

-----------------------------------------------------------------------------
(* Properties *)

FrameTypes == PlainFrames \cup ControlFrames
                 \cup {"introduction", "chunk", "last_chunk", "payload_cancel", "payload_error"}
Frames == [type : FrameTypes, files : SUBSET Files]
Effects == [effect : {"send", "begin_sending", "done", "cancelled", "failed"},
            frame : [type : FrameTypes \cup {"none"}, files : SUBSET Files]]

\* Every variable of the connection keeps its type.
TypeOK ==
    /\ pc \in {"effects", "waiting", "adopt_read", "adopt_wait", "streaming", "read", "over",
              "blocked"}
    /\ fsm \in States
    /\ batch \in Seq(Effects)
    /\ pending \in Seq(Effects)
    /\ deferred \in Seq(Frames)
    /\ Len(deferred) =< DeferCap
    /\ solicited \in BOOLEAN /\ deadline \in BOOLEAN /\ moved \in BOOLEAN
    /\ begun \subseteq Files \ Empty /\ sent \subseteq begun \cup Empty
    /\ cancelled \in BOOLEAN
    /\ outcome \in {"none", "true", "false", "error"}
    /\ out \in Seq(Frames)
    /\ accepted \in BOOLEAN /\ saidCancel \in BOOLEAN

\* No byte of any file leaves before the peer's acceptance was acted on,
\* whatever the peer sends and however the upgrade question is answered, and
\* never two files at once.
PayloadAfterAcceptance ==
    /\ begun \cup sent # {} => accepted
    /\ Cardinality(begun \ sent) =< 1

\* "Telling it nothing leaves it waiting for bytes that stopped coming": a send
\* that ends part-way through the payload, other than by an error, has told the
\* peer so.
StoppedMeansTold ==
    outcome \in {"true", "false"} /\ begun \cup sent # {} /\ sent # Files => saidCancel

\* How send() ends is what the machine says, never what the peer happened to
\* send next.
OutcomeIsState ==
    outcome # "none" =>
        /\ fsm = "Cancelled" => outcome \in {"false", "error"}
        /\ fsm = "Failed" => outcome = "error"
        /\ sent = Files /\ Files \ Empty # {} => outcome \in {"true", "error"}

\* In a write that nothing but the peer can end: "a peer that [...] never reads
\* parks the transfer thread in sk_stream_wait_memory FOREVER".
Parked == pc = "blocked" /\ Slow /\ ~moved

\* Once the exchange is over, so is the send, without another word from the
\* peer; and an accepted stream always reaches that point.  Only a send still on
\* Bluetooth may be parked in a write instead.
EndsWithoutPeer == (is_over(fsm) \/ accepted) ~> (pc = "over" \/ Parked)

\* "The peer's acceptance can arrive in this window -- it is the same channel":
\* an acceptance read in the middle of a handover is acted on all the same,
\* unless the send ends first or is parked in a write over Bluetooth.
AcceptanceNotLost ==
    (fsm = "Introduction" /\ \E i \in 1 .. Len(deferred) : deferred[i].type = "accept")
        ~> (accepted \/ pc = "over" \/ Parked)
=============================================================================
