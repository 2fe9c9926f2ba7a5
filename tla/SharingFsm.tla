----------------------------- MODULE SharingFsm -----------------------------
(***************************************************************************)
(* The two sharing state machines of protocol/src/fsm.rs: Inbound (the     *)
(* receiver) and Outbound (the sender).  They are sans-IO: an event in, a  *)
(* new state and a list of effects out.  Here each is a function of the    *)
(* state and the event that yields [state, introduction, effects].         *)
(*                                                                         *)
(* A frame keeps what the program looks at: its type and the attachments   *)
(* it is about -- those an introduction announces, or the one a payload    *)
(* frame carries.                                                          *)
(***************************************************************************)
EXTENDS Sequences

States == {"PairedKey", "Introduction", "AwaitingUser", "Transferring",
           "Done", "Failed", "Cancelled"}

is_over(s) == s \in {"Done", "Failed", "Cancelled"}

-----------------------------------------------------------------------------
(* Frames, events, effects *)

Frame(t) == [type |-> t, files |-> {}]
IntroductionFrame(files) == [type |-> "introduction", files |-> files]

PlainFrames == {"paired_key_encryption", "paired_key_result", "accept", "refuse",
                "cancel", "unknown"}

\* The frames around a sharing frame in the same encrypted conversation.
Chunk(a) == [type |-> "chunk", files |-> {a}]            \* file bytes, more to come
LastChunk(a) == [type |-> "last_chunk", files |-> {a}]   \* the terminator
PayloadCancel(a) == [type |-> "payload_cancel", files |-> {a}]
PayloadError(a) == [type |-> "payload_error", files |-> {a}]

ControlFrames == {"path_request", "path_request_other", "path_available", "upgrade_failure",
                  "keep_alive", "keep_alive_ack", "disconnect", "disconnect_safe",
                  "unreadable", "other"}

Event(e) == [event |-> e, frame |-> Frame("none")]
FrameEvent(f) == [event |-> "frame", frame |-> f]

Effect(e) == [effect |-> e, frame |-> Frame("none")]
SendEffect(f) == [effect |-> "send", frame |-> f]
AskUser(files) == [effect |-> "ask_user", frame |-> IntroductionFrame(files)]
BeginReceiving(files) == [effect |-> "begin_receiving", frame |-> IntroductionFrame(files)]
BeginSending(files) == [effect |-> "begin_sending", frame |-> IntroductionFrame(files)]

Step(s, intro, fx) == [state |-> s, introduction |-> intro, effects |-> fx]
Ignore(s, intro) == Step(s, intro, <<>>)
Fail(intro) == Step("Failed", intro, <<Effect("failed")>>)

-----------------------------------------------------------------------------
(* Inbound *)

\* start(): open the exchange with our identity claim.
InboundStart == Step("PairedKey", {}, <<SendEffect(Frame("paired_key_encryption"))>>)

InboundOnFrame(s, intro, f) ==
    CASE f.type = "cancel" -> Step("Cancelled", intro, <<Effect("cancelled")>>)
      [] s = "PairedKey" /\ f.type = "paired_key_encryption" ->
            Step(s, intro, <<SendEffect(Frame("paired_key_result"))>>)
      [] s = "PairedKey" /\ f.type = "paired_key_result" -> Step("Introduction", intro, <<>>)
      [] s = "Introduction" /\ f.type = "introduction" ->
            IF f.files = {} THEN Fail(intro)
                            ELSE Step("AwaitingUser", f.files, <<AskUser(f.files)>>)
      [] s # "Introduction" /\ f.type = "introduction" -> Fail(intro)
      [] OTHER -> Ignore(s, intro)     \* late paired-key frames, responses, unknown frames

InboundOn(s, intro, ev) ==
    CASE is_over(s) -> Ignore(s, intro)
      [] ~is_over(s) /\ ev.event = "user_cancelled" ->
            Step("Cancelled", intro, <<SendEffect(Frame("cancel")), Effect("cancelled")>>)
      [] ~is_over(s) /\ ev.event = "user_accepted" ->
            IF s = "AwaitingUser"
            THEN Step("Transferring", intro, <<SendEffect(Frame("accept")), BeginReceiving(intro)>>)
            ELSE Fail(intro)
      [] ~is_over(s) /\ ev.event = "user_rejected" ->
            IF s = "AwaitingUser"
            THEN Step("Done", intro, <<SendEffect(Frame("refuse")), Effect("done")>>)
            ELSE Fail(intro)
      [] ~is_over(s) /\ ev.event = "transfer_complete" ->
            IF s = "Transferring" THEN Step("Done", intro, <<Effect("done")>>) ELSE Fail(intro)
      [] ~is_over(s) /\ ev.event = "frame" -> InboundOnFrame(s, intro, ev.frame)

-----------------------------------------------------------------------------
(* Outbound *)

\* Slip: the first design, which waited for the receiver's claim before
\* introducing anything.
OutboundStartWaits(intro) ==
    Step("Introduction", intro, <<SendEffect(Frame("paired_key_encryption"))>>)

\* start(): identity claim, our verdict and the file list, all at once.
OutboundStart(intro) ==
    Step("Introduction", intro,
         <<SendEffect(Frame("paired_key_encryption")),
           SendEffect(Frame("paired_key_result")),
           SendEffect(IntroductionFrame(intro))>>)

OutboundOnFrame(s, intro, f) ==
    CASE f.type = "cancel" -> Step("Cancelled", intro, <<Effect("cancelled")>>)
      [] s = "Introduction" /\ f.type = "accept" ->
            Step("Transferring", intro, <<BeginSending(intro)>>)
      [] s = "Introduction" /\ f.type = "refuse" -> Step("Done", intro, <<Effect("done")>>)
      [] f.type \in {"paired_key_encryption", "paired_key_result", "unknown"} -> Ignore(s, intro)
      [] OTHER -> Fail(intro)          \* an introduction, or a response out of turn

OutboundOn(s, intro, ev) ==
    CASE is_over(s) -> Ignore(s, intro)
      [] ~is_over(s) /\ ev.event = "user_cancelled" ->
            Step("Cancelled", intro, <<SendEffect(Frame("cancel")), Effect("cancelled")>>)
      [] ~is_over(s) /\ ev.event = "transfer_complete" ->
            IF s = "Transferring" THEN Step("Done", intro, <<Effect("done")>>) ELSE Fail(intro)
      [] ~is_over(s) /\ ev.event \in {"user_accepted", "user_rejected"} -> Fail(intro)
      [] ~is_over(s) /\ ev.event = "frame" -> OutboundOnFrame(s, intro, ev.frame)
=============================================================================
