-------------------------- MODULE QsReceive_proof ---------------------------
(***************************************************************************)
(* The receiver of a Quick Share connection, for any attachments and in    *)
(* front of a peer that may send any frame at any moment: nothing is       *)
(* received, and nothing accepted, without the person's yes, and what is   *)
(* reported at the end is what the machine ended in.                       *)
(***************************************************************************)
EXTENDS QsReceive, SequenceTheorems, FiniteSetTheorems, TLAPS

-----------------------------------------------------------------------------
(* The receiving machine *)

Events == {"user_cancelled", "user_accepted", "user_rejected", "transfer_complete", "frame"}

\* Every move of the Inbound machine, by what it does: nothing, the paired-key
\* exchange, the one question to the person, the one acceptance, or an end.
InboundMove(s, intro, ev, step) ==
    \/ step = Step(s, intro, <<>>)
    \/ s = "PairedKey" /\ step = Step(s, intro, <<SendEffect(Frame("paired_key_result"))>>)
    \/ s = "PairedKey" /\ step = Step("Introduction", intro, <<>>)
    \/ /\ s = "Introduction" /\ ev.event = "frame" /\ ev.frame.files # {}
       /\ step = Step("AwaitingUser", ev.frame.files, <<AskUser(ev.frame.files)>>)
    \/ /\ s = "AwaitingUser" /\ ev.event = "user_accepted"
       /\ step = Step("Transferring", intro, <<SendEffect(Frame("accept")), BeginReceiving(intro)>>)
    \/ s = "AwaitingUser" /\ step = Step("Done", intro, <<SendEffect(Frame("refuse")), Effect("done")>>)
    \/ s = "Transferring" /\ step = Step("Done", intro, <<Effect("done")>>)
    \/ ~is_over(s) /\ step = Step("Cancelled", intro, <<Effect("cancelled")>>)
    \/ ~is_over(s) /\ step = Step("Cancelled", intro, <<SendEffect(Frame("cancel")), Effect("cancelled")>>)
    \/ ~is_over(s) /\ step = Fail(intro)

\* The machine makes no other move, whatever the event and the frame.
LEMMA InboundMoves ==
  ASSUME NEW s \in States, NEW intro, NEW ev, ev.event \in Events
  PROVE  InboundMove(s, intro, ev, InboundOn(s, intro, ev))
<1>1. CASE is_over(s)
  BY <1>1 DEF InboundMove, InboundOn, Ignore
<1>2. CASE ~is_over(s) /\ ev.event = "frame"
  <2>1. InboundOn(s, intro, ev) = InboundOnFrame(s, intro, ev.frame)
    BY <1>2 DEF InboundOn
  <2>2. InboundMove(s, intro, ev, InboundOnFrame(s, intro, ev.frame))
    BY <1>2 DEF InboundMove, InboundOnFrame, Ignore
  <2> QED BY <2>1, <2>2
<1>3. CASE ~is_over(s) /\ ev.event # "frame"
  BY <1>3 DEF InboundMove, InboundOn, Events
<1> QED BY <1>1, <1>2, <1>3

\* A cancel ends an exchange that is not over, and says so to the peer.
LEMMA InboundCancelled ==
  ASSUME NEW s \in States, NEW intro
  PROVE  InboundOn(s, intro, Event("user_cancelled")) =
            IF is_over(s) THEN Step(s, intro, <<>>)
            ELSE Step("Cancelled", intro, <<SendEffect(Frame("cancel")), Effect("cancelled")>>)
  BY DEF InboundOn, Ignore, Event

-----------------------------------------------------------------------------
(* What the receiver's queues may hold *)

Early == {"PairedKey", "Introduction", "AwaitingUser"}

\* The person said yes to exactly what was announced.
Consented(m, intro, yes) == m \notin Early /\ yes = intro /\ yes # {}

Terminal == {"done", "cancelled", "failed"}

\* The effects of a queue fit the machine's state m, the introduction, what was
\* approved and the handovers made: an acceptance and its receiving follow a
\* yes, the one question comes first and before any yes, an ending names the
\* state.
Queued(s, m, intro, yes, n) ==
    \A i \in 1 .. Len(s) :
        /\ s[i].effect = "send" => s[i].frame.type # "none"
        /\ s[i].effect = "send" /\ s[i].frame.type = "accept" => Consented(m, intro, yes)
        /\ s[i].effect = "begin_receiving" =>
              /\ Consented(m, intro, yes) /\ s[i].frame.files = intro
              /\ n =< MAX_UPGRADE_ATTEMPTS
              /\ \A j \in 1 .. Len(s) : s[j].effect = "begin_receiving" => j = i
        /\ s[i].effect = "ask_user" =>
              /\ i = 1 /\ (Len(s) = 1 \/ is_over(m))
              /\ m \notin {"PairedKey", "Introduction"}
              /\ s[i].frame.files = intro /\ intro # {} /\ yes = {}
        /\ s[i].effect = "done" => m = "Done"
        /\ s[i].effect = "cancelled" => m = "Cancelled"
        /\ s[i].effect = "failed" => m = "Failed"

Ending(s) == \E i \in 1 .. Len(s) : s[i].effect \in Terminal

\* An empty queue fits any state.
LEMMA QueuedEmpty ==
  ASSUME NEW m, NEW intro, NEW yes, NEW n
  PROVE  Queued(<<>>, m, intro, yes, n) /\ ~Ending(<<>>)
  BY DEF Queued, Ending

\* What is left of a queue after its first effect still fits; no second
\* receiving and no second question are left behind the first.
LEMMA QueuedTail ==
  ASSUME NEW m, NEW intro, NEW yes, NEW n, NEW s \in Seq(Effects), s # <<>>,
         Queued(s, m, intro, yes, n)
  PROVE  /\ Queued(Tail(s), m, intro, yes, n)
         /\ Head(s).effect = "begin_receiving" =>
               \A k : Queued(Tail(s), m, intro, yes, k)
         /\ \A i \in 1 .. Len(Tail(s)) : Tail(s)[i].effect # "ask_user"
         /\ Head(s).effect = "ask_user" => Tail(s) = <<>> \/ is_over(m)
         /\ Head(s).effect \notin Terminal => (Ending(s) => Ending(Tail(s)))
<1>1. /\ Len(Tail(s)) = Len(s) - 1 /\ Len(s) \in Nat /\ Len(s) > 0
      /\ \A i \in 1 .. Len(Tail(s)) : Tail(s)[i] = s[i + 1] /\ i + 1 \in 1 .. Len(s)
  OBVIOUS
<1>2. Head(s) = s[1]
  OBVIOUS
<1>3. \A i \in 1 .. Len(Tail(s)) : Tail(s)[i].effect # "ask_user"
  BY <1>1 DEF Queued
<1>4. Queued(Tail(s), m, intro, yes, n)
  BY <1>1, <1>3 DEF Queued
<1>5. Head(s).effect = "begin_receiving" => \A i \in 1 .. Len(Tail(s)) : Tail(s)[i].effect # "begin_receiving"
  BY <1>1, <1>2 DEF Queued
<1>6. Head(s).effect = "begin_receiving" => \A k : Queued(Tail(s), m, intro, yes, k)
  BY <1>3, <1>4, <1>5 DEF Queued
<1>7. Head(s).effect = "ask_user" => Tail(s) = <<>> \/ is_over(m)
  BY <1>1, <1>2 DEF Queued
<1>8. Head(s).effect \notin Terminal => (Ending(s) => Ending(Tail(s)))
  <2> SUFFICES ASSUME Head(s).effect \notin Terminal, Ending(s) PROVE Ending(Tail(s))
    OBVIOUS
  <2>1. PICK i \in 1 .. Len(s) : s[i].effect \in Terminal
    BY DEF Ending
  <2>2. i # 1
    BY <1>2, <2>1
  <2>3. i - 1 \in 1 .. Len(Tail(s)) /\ Tail(s)[i - 1] = s[i]
    BY <1>1, <2>1, <2>2
  <2> QED BY <2>1, <2>3 DEF Ending
<1> QED BY <1>3, <1>4, <1>6, <1>7, <1>8

\* A queue that holds no question, and nothing yet approved, fits a yes.
LEMMA QueuedAnswered ==
  ASSUME NEW m, NEW intro, NEW yes, NEW n, NEW s, Queued(s, m, intro, {}, n),
         \A i \in 1 .. Len(s) : s[i].effect # "ask_user"
  PROVE  Queued(s, m, intro, yes, n)
  BY DEF Queued, Consented

\* A cancel noticed at the end of a batch is performed after what was queued.
LEMMA QueuedCancel ==
  ASSUME NEW m, NEW intro, NEW yes, NEW n, NEW s \in Seq(Effects), ~is_over(m),
         Queued(s, m, intro, yes, n)
  PROVE  LET q == s \o <<SendEffect(Frame("cancel")), Effect("cancelled")>>
         IN  Queued(q, "Cancelled", intro, yes, n) /\ Ending(q)
<1> DEFINE c == <<SendEffect(Frame("cancel")), Effect("cancelled")>>
           q == s \o c
<1>1. /\ Len(c) = 2 /\ c[1].effect = "send" /\ c[1].frame.type = "cancel"
      /\ c[2].effect = "cancelled"
  BY DEF SendEffect, Effect, Frame
<1>2. Len(s) \in Nat /\ Len(q) = Len(s) + 2
  OBVIOUS
<1>3. \A i \in 1 .. Len(q) : /\ i =< Len(s) => q[i] = s[i]
                             /\ i = Len(s) + 1 => q[i] = c[1]
                             /\ i = Len(s) + 2 => q[i] = c[2]
  OBVIOUS
<1> HIDE DEF q, c
<1>4. \A i \in 1 .. Len(q) :
         \/ i \in 1 .. Len(s) /\ q[i] = s[i]
         \/ q[i].effect = "send" /\ q[i].frame.type = "cancel"
         \/ q[i].effect = "cancelled"
  BY <1>1, <1>2, <1>3
<1>5. Queued(q, "Cancelled", intro, yes, n)
  BY <1>2, <1>4 DEF Queued, Consented, Early, is_over
<1>6. Ending(q)
  <2>1. Len(s) + 2 \in 1 .. Len(q) /\ q[Len(s) + 2].effect = "cancelled"
    BY <1>1, <1>2, <1>3
  <2> QED BY <2>1 DEF Ending, Terminal
<1> QED BY <1>5, <1>6 DEF q, c

\* What the machine queues on an event that is no answer fits its new state.
LEMMA MoveQueued ==
  ASSUME NEW m \in States, NEW intro, NEW yes, NEW n, NEW ev, NEW step,
         InboundMove(m, intro, ev, step), ev.event # "user_accepted",
         m \in Early => yes = {} /\ n =< MAX_UPGRADE_ATTEMPTS
  PROVE  /\ Queued(step.effects, step.state, step.introduction, yes, n)
         /\ is_over(step.state) /\ ~is_over(m) => Ending(step.effects)
<1> USE DEF InboundMove, Step, States, Early, is_over
<1>1. ASSUME step = Step(m, intro, <<>>) \/ (m = "PairedKey" /\ step = Step("Introduction", intro, <<>>))
      PROVE  Queued(step.effects, step.state, step.introduction, yes, n)
  BY <1>1 DEF Queued
<1>2. ASSUME NEW e, step.effects = <<e>>,
             \/ e.effect = "send" /\ e.frame.type = "paired_key_result"
             \/ e.effect = "ask_user" /\ step.state = "AwaitingUser" /\ step.introduction # {}
                /\ e.frame.files = step.introduction /\ yes = {}
             \/ e.effect = "done" /\ step.state = "Done"
             \/ e.effect = "cancelled" /\ step.state = "Cancelled"
             \/ e.effect = "failed" /\ step.state = "Failed"
      PROVE  /\ Queued(step.effects, step.state, step.introduction, yes, n)
             /\ is_over(step.state) => Ending(step.effects) \/ e.effect = "send"
  BY <1>2 DEF Queued, Ending, Terminal
<1>3. ASSUME NEW d, NEW e, step.effects = <<d, e>>,
             d.effect = "send" /\ d.frame.type \in {"refuse", "cancel"},
             \/ e.effect = "done" /\ step.state = "Done"
             \/ e.effect = "cancelled" /\ step.state = "Cancelled"
      PROVE  Queued(step.effects, step.state, step.introduction, yes, n) /\ Ending(step.effects)
  BY <1>3 DEF Queued, Ending, Terminal
<1>4. Queued(step.effects, step.state, step.introduction, yes, n)
  BY <1>1, <1>2, <1>3 DEF SendEffect, Effect, Frame, AskUser, IntroductionFrame, Fail
<1>5. is_over(step.state) /\ ~is_over(m) => Ending(step.effects)
  BY <1>2, <1>3 DEF SendEffect, Effect, Frame, Fail
<1> QED BY <1>4, <1>5

\* The machine never goes back, enters the transfer only on the person's yes,
\* and takes the announcement once.
LEMMA MoveOnward ==
  ASSUME NEW m \in States, NEW intro, NEW ev, NEW step,
         InboundMove(m, intro, ev, step), ev.event # "user_accepted"
  PROVE  /\ step.state \in Early => m \in Early
         /\ step.state = "Transferring" => m = "Transferring"
         /\ step.introduction = intro \/ m = "Introduction"
  BY DEF InboundMove, Step, States, Early, is_over, Fail

-----------------------------------------------------------------------------
(* The receiver's types *)

USE ReceiveAssumption

Attached == SUBSET Attachments

\* The type invariant but for the bound on the handovers, which needs the rest.
TypesOpen ==
    /\ pc \in {"effects", "asking", "offer_begun", "offer_asked", "read", "over", "blocked"}
    /\ fsm \in States
    /\ introduction \in Attached
    /\ batch \in Seq(Effects)
    /\ pending \in Seq(Effects)
    /\ deferred \in Seq(Frames)
    /\ held \in Nat /\ held =< DeferCap
    /\ upgraded \in BOOLEAN /\ hosting \in {"no", "offered", "joined"}
    /\ attempts \in Nat
    /\ expected \in SUBSET Files /\ sinks \in SUBSET Files /\ written \in SUBSET Files
    /\ inbox \in SUBSET Files /\ whole \in SUBSET Files
    /\ cancelled \in BOOLEAN
    /\ outcome \in {"none", "received", "cancelled", "error"}
    /\ out \in Seq(Frames)
    /\ shown \in Attached /\ approved \in Attached

AcceptIn(o) == \E i \in 1 .. Len(o) : o[i].type = "accept"

\* The loop: nothing is queued behind a batch being performed or a wait, what is
\* queued fits, and a machine that is over has its ending queued.
LoopInv ==
    /\ pc \in {"read", "over"} => batch = <<>>
    /\ batch # <<>> \/ pc # "effects" => pending = <<>>
    /\ Queued(batch, fsm, introduction, approved, attempts)
    /\ Queued(pending, fsm, introduction, approved, attempts)
    /\ is_over(fsm) /\ pc # "over" => Ending(batch) \/ Ending(pending)
    /\ outcome # "none" => pc = "over"

\* The exchange: nothing is approved before the answer, the person is asked
\* about the introduction, and acceptances and files follow the yes.
PhaseInv ==
    /\ fsm \in Early => approved = {} /\ attempts =< MAX_UPGRADE_ATTEMPTS
    /\ fsm = "Transferring" => Consented(fsm, introduction, approved)
    /\ pc = "asking" =>
          /\ approved = {} /\ shown = introduction /\ introduction # {}
          /\ fsm \notin {"PairedKey", "Introduction"}
          /\ batch = <<>> \/ is_over(fsm)
          /\ \A i \in 1 .. Len(batch) : batch[i].effect # "ask_user"
    /\ AcceptIn(out) => Consented(fsm, introduction, approved)
    /\ expected \cup written \cup inbox \subseteq approved
    /\ attempts =< MAX_UPGRADE_ATTEMPTS + 1

RecvInv == TypesOpen /\ LoopInv /\ PhaseInv /\ OutcomeIsState

\* Every frame a peer may send is a frame.
LEMMA PeerFramesTyped == PeerFrames \subseteq Frames
<1> SUFFICES ASSUME NEW f \in PeerFrames PROVE f \in Frames
  OBVIOUS
<1> USE DEF Frames, FrameTypes
<1>1. CASE \E t \in PlainFrames \cup ControlFrames : f = Frame(t)
  BY <1>1 DEF Frame
<1>2. CASE \E as \in SUBSET Attachments : f = IntroductionFrame(as)
  <2>1. PICK as \in SUBSET Attachments : f = [type |-> "introduction", files |-> as]
    BY <1>2 DEF IntroductionFrame
  <2>2. "introduction" \in FrameTypes
    OBVIOUS
  <2> HIDE DEF FrameTypes
  <2> QED BY <2>1, <2>2
<1>3. CASE \E a \in Attachments : f \in {Chunk(a), LastChunk(a), PayloadCancel(a), PayloadError(a)}
  BY <1>3 DEF Chunk, LastChunk, PayloadCancel, PayloadError
<1> QED BY <1>1, <1>2, <1>3 DEF PeerFrames

\* What the machine queues are effects, and the attachments stay in range.
LEMMA MoveTyped ==
  ASSUME NEW m \in States, NEW intro \in Attached, NEW ev, ev.frame.files \in Attached, NEW step,
         InboundMove(m, intro, ev, step)
  PROVE  step.introduction \in Attached /\ step.effects \in Seq(Effects) /\ step.state \in States
<1>1. \A t \in {"paired_key_result", "accept", "refuse", "cancel"} : SendEffect(Frame(t)) \in Effects
  BY DEF SendEffect, Frame, Effects, FrameTypes, PlainFrames
<1>2. \A e \in Terminal : Effect(e) \in Effects
  BY DEF Effect, Frame, Effects, Terminal
<1>3. \A as \in Attached : AskUser(as) \in Effects /\ BeginReceiving(as) \in Effects
  BY DEF AskUser, BeginReceiving, IntroductionFrame, Effects, FrameTypes, Attached
<1>4. /\ step.introduction \in Attached /\ step.state \in States
      /\ \/ step.effects = <<>>
         \/ \E d \in Effects : step.effects = <<d>>
         \/ \E d, e \in Effects : step.effects = <<d, e>>
  BY <1>1, <1>2, <1>3 DEF InboundMove, Step, Fail, Terminal, States
<1>5. ASSUME NEW d \in Effects PROVE <<d>> \in Seq(Effects)
  BY <1>5
<1>6. ASSUME NEW d \in Effects, NEW e \in Effects PROVE <<d, e>> \in Seq(Effects)
  BY <1>6
<1>7. <<>> \in Seq(Effects)
  OBVIOUS
<1> QED BY <1>4, <1>5, <1>6, <1>7

\* An acceptance is on the wire only if it was there or has just been written.
LEMMA AcceptMoves ==
  ASSUME NEW o \in Seq(Frames)
  PROVE  /\ \A f \in Frames : /\ Append(o, f) \in Seq(Frames)
                              /\ AcceptIn(Append(o, f)) => AcceptIn(o) \/ f.type = "accept"
         /\ o # <<>> => Tail(o) \in Seq(Frames) /\ (AcceptIn(Tail(o)) => AcceptIn(o))
  BY DEF AcceptIn

\* The replies serve() writes by itself are frames and no acceptance.
LEMMA RepliesTyped ==
  \A t \in {"disconnect_safe", "disconnect", "upgrade_failure", "keep_alive_ack", "path_available"} :
      Frame(t) \in Frames /\ Frame(t).type # "accept"
  BY DEF Frame, Frames, FrameTypes, ControlFrames

-----------------------------------------------------------------------------
(* Every step of the receiver *)

\* serve() returns: the queues are dropped and what is reported fits the state.
LEMMA Returns ==
  ASSUME RecvInv, NEW result, Return(result), pc # "over",
         UNCHANGED <<fsm, introduction, approved, attempts, expected, written>>,
         inbox' \subseteq inbox, AcceptIn(out') => AcceptIn(out),
         fsm = "Cancelled" => result \in {"cancelled", "error"},
         fsm = "Done" => result \in {"received", "error"},
         fsm = "Failed" => result = "error",
         result = "cancelled" => inbox' = {} /\ sinks' = {}
  PROVE  (LoopInv /\ PhaseInv /\ OutcomeIsState)'
<1>1. pc' = "over" /\ batch' = <<>> /\ pending' = <<>> /\ outcome' = result
  BY DEF Return
<1>2. LoopInv'
  BY <1>1, QueuedEmpty DEF LoopInv
<1>3. PhaseInv'
  BY <1>1 DEF RecvInv, PhaseInv
<1>4. OutcomeIsState'
  BY <1>1 DEF OutcomeIsState
<1> QED BY <1>2, <1>3, <1>4

\* A step that only moves the thread between waits, with the queues alone.
LEMMA Stays ==
  ASSUME RecvInv, UNCHANGED <<fsm, introduction, batch, pending, approved, outcome, expected, written, inbox>>,
         pc # "over", pc' # "over",
         pc' = "effects" \/ pc' = pc \/ (pc' # "asking" /\ pending = <<>>),
         pc' = "read" => batch = <<>>,
         pc' = "asking" => shown' = shown,
         attempts' \in Nat,
         attempts' = attempts \/ (attempts' =< MAX_UPGRADE_ATTEMPTS /\ batch = <<>> /\ pending = <<>>),
         AcceptIn(out') => AcceptIn(out)
  PROVE  (LoopInv /\ PhaseInv /\ OutcomeIsState)'
<1>0. outcome = "none"
  BY DEF RecvInv, LoopInv
<1>1. /\ Queued(batch', fsm', introduction', approved', attempts')
      /\ Queued(pending', fsm', introduction', approved', attempts')
  BY QueuedEmpty DEF RecvInv, LoopInv
<1>2. LoopInv'
  BY <1>0, <1>1 DEF RecvInv, LoopInv
<1>3. PhaseInv'
  BY DEF RecvInv, PhaseInv, TypesOpen, MAX_UPGRADE_ATTEMPTS
<1>4. OutcomeIsState'
  BY <1>0 DEF OutcomeIsState
<1> QED BY <1>2, <1>3, <1>4

\* Performing the first effect of the batch.
LEMMA DoingStep ==
  ASSUME RecvInv,
         \/ DoSend \/ DoAskUser \/ DoBeginReceiving \/ DoDone \/ DoCancelled \/ DoFailed
  PROVE  RecvInv'
<1> USE DEF machine, queues, upgrade, files, consent
<1> DEFINE hd == Head(batch)
<1>0. /\ pc = "effects" /\ batch # <<>> /\ batch \in Seq(Effects) /\ pending = <<>>
      /\ hd = batch[1] /\ 1 \in 1 .. Len(batch) /\ hd \in Effects /\ Tail(batch) \in Seq(Effects)
  <2>1. pc = "effects" /\ batch # <<>>
    BY DEF DoSend, DoAskUser, DoBeginReceiving, DoDone, DoCancelled, DoFailed, Doing
  <2>2. batch \in Seq(Effects)
    BY DEF RecvInv, TypesOpen
  <2> QED BY <2>1, <2>2 DEF RecvInv, LoopInv
<1>1. Queued(batch, fsm, introduction, approved, attempts)
  BY DEF RecvInv, LoopInv
<1>2. /\ hd.effect = "send" => hd.frame.type # "none"
      /\ hd.effect = "send" /\ hd.frame.type = "accept" => Consented(fsm, introduction, approved)
      /\ hd.effect = "begin_receiving" => /\ Consented(fsm, introduction, approved)
                                          /\ hd.frame.files = introduction
                                          /\ attempts =< MAX_UPGRADE_ATTEMPTS
      /\ hd.effect = "ask_user" => /\ fsm \notin {"PairedKey", "Introduction"}
                                   /\ hd.frame.files = introduction
                                   /\ introduction # {} /\ approved = {}
      /\ hd.effect = "done" => fsm = "Done"
      /\ hd.effect = "cancelled" => fsm = "Cancelled"
      /\ hd.effect = "failed" => fsm = "Failed"
  BY <1>0, <1>1 DEF Queued
<1>3. /\ Queued(Tail(batch), fsm, introduction, approved, attempts)
      /\ hd.effect = "begin_receiving" =>
               \A k : Queued(Tail(batch), fsm, introduction, approved, k)
      /\ \A i \in 1 .. Len(Tail(batch)) : Tail(batch)[i].effect # "ask_user"
      /\ hd.effect = "ask_user" => Tail(batch) = <<>> \/ is_over(fsm)
      /\ hd.effect \notin Terminal => (Ending(batch) => Ending(Tail(batch)))
  BY <1>0, <1>1, QueuedTail
<1>4. outcome = "none" /\ ~Ending(pending)
  BY <1>0, QueuedEmpty DEF RecvInv, LoopInv
<1>5. CASE DoSend
  <2>0. hd.effect = "send" /\ hd.frame \in Frames
    BY <1>0, <1>2, <1>5 DEF DoSend, Doing, Effects, Frames
  <2>1. /\ out' \in Seq(Frames)
        /\ AcceptIn(out') => AcceptIn(out) \/ hd.frame.type = "accept"
    BY <1>5, <2>0, AcceptMoves DEF DoSend, Write, RecvInv, TypesOpen
  <2>2. TypesOpen'
    BY <1>0, <1>5, <2>1 DEF DoSend, RecvInv, TypesOpen
  <2>3. LoopInv'
    BY <1>0, <1>3, <1>4, <1>5, <2>0 DEF DoSend, RecvInv, LoopInv, Terminal
  <2>4. PhaseInv'
    BY <1>0, <1>2, <1>5, <2>0, <2>1 DEF DoSend, RecvInv, PhaseInv
  <2>5. OutcomeIsState'
    BY <1>4, <1>5 DEF DoSend, OutcomeIsState
  <2> QED BY <2>2, <2>3, <2>4, <2>5 DEF RecvInv
<1>6. CASE DoAskUser
  <2>0. hd.effect = "ask_user" /\ shown' = introduction
    BY <1>2, <1>6 DEF DoAskUser, Doing
  <2>2. TypesOpen'
    BY <1>0, <1>6, <2>0 DEF DoAskUser, RecvInv, TypesOpen
  <2>3. LoopInv'
    BY <1>0, <1>3, <1>4, <1>6, <2>0 DEF DoAskUser, RecvInv, LoopInv, Terminal
  <2>4. PhaseInv'
    BY <1>0, <1>2, <1>3, <1>6, <2>0 DEF DoAskUser, RecvInv, PhaseInv
  <2>5. OutcomeIsState'
    BY <1>4, <1>6 DEF DoAskUser, OutcomeIsState
  <2> QED BY <2>2, <2>3, <2>4, <2>5 DEF RecvInv
<1>7. CASE DoBeginReceiving
  <2>0. /\ hd.effect = "begin_receiving" /\ expected' = expected \cup (introduction \cap Files)
        /\ attempts' \in {attempts, attempts + 1} /\ attempts \in Nat
        /\ pc' \in {"effects", "offer_begun"}
    BY <1>0, <1>2, <1>7 DEF DoBeginReceiving, Doing, RecvInv, TypesOpen
  <2>1. Consented(fsm, introduction, approved)
    BY <1>2, <2>0
  <2>2. TypesOpen'
    <3>1. expected' \in SUBSET Files
      BY <2>0 DEF RecvInv, TypesOpen
    <3> QED BY <1>0, <1>7, <2>0, <3>1 DEF DoBeginReceiving, RecvInv, TypesOpen
  <2>3. LoopInv'
    <3>1. Queued(batch', fsm', introduction', approved', attempts')
      BY <1>3, <1>7, <2>0 DEF DoBeginReceiving
    <3> QED BY <1>0, <1>3, <1>4, <1>7, <2>0, <3>1, QueuedEmpty
            DEF DoBeginReceiving, RecvInv, LoopInv, Terminal
  <2>4. PhaseInv'
    <3>1. attempts' =< MAX_UPGRADE_ATTEMPTS + 1
      BY <1>2, <2>0 DEF MAX_UPGRADE_ATTEMPTS
    <3>2. expected' \cup written' \cup inbox' \subseteq approved'
      BY <1>7, <2>0, <2>1 DEF DoBeginReceiving, Consented, RecvInv, PhaseInv
    <3> QED BY <1>0, <1>7, <2>0, <2>1, <3>1, <3>2
            DEF DoBeginReceiving, RecvInv, PhaseInv, Consented
  <2>5. OutcomeIsState'
    BY <1>4, <1>7 DEF DoBeginReceiving, OutcomeIsState
  <2> QED BY <2>2, <2>3, <2>4, <2>5 DEF RecvInv
<1>8. CASE DoDone
  <2>1. fsm = "Done"
    BY <1>2, <1>8 DEF DoDone, Doing
  <2>2. out' \in Seq(Frames) /\ (AcceptIn(out') => AcceptIn(out))
    BY <1>8, AcceptMoves, RepliesTyped DEF DoDone, Write, RecvInv, TypesOpen
  <2>3. TypesOpen'
    BY <1>8, <2>2 DEF DoDone, Return, RecvInv, TypesOpen
  <2>4. (LoopInv /\ PhaseInv /\ OutcomeIsState)'
    BY <1>0, <1>8, <2>1, <2>2, Returns DEF DoDone
  <2> QED BY <2>3, <2>4 DEF RecvInv
<1>9. CASE DoCancelled
  <2>1. fsm = "Cancelled"
    BY <1>2, <1>9 DEF DoCancelled, Doing
  <2>3. TypesOpen'
    BY <1>9 DEF DoCancelled, Return, RecvInv, TypesOpen
  <2>4. (LoopInv /\ PhaseInv /\ OutcomeIsState)'
    BY <1>0, <1>9, <2>1, Returns DEF DoCancelled
  <2> QED BY <2>3, <2>4 DEF RecvInv
<1>10. CASE DoFailed
  <2>1. Return("error") /\ UNCHANGED <<machine, deferred, upgrade, files, cancelled, out, consent>>
    BY <1>10 DEF DoFailed
  <2>3. TypesOpen'
    BY <2>1 DEF Return, RecvInv, TypesOpen
  <2>4. (LoopInv /\ PhaseInv /\ OutcomeIsState)'
    BY <1>0, <2>1, Returns
  <2> QED BY <2>3, <2>4 DEF RecvInv
<1> QED BY <1>5, <1>6, <1>7, <1>8, <1>9, <1>10

\* The answer: the one point where something becomes approved.
LEMMA AnsweredStep ==
  ASSUME RecvInv, NEW yes \in BOOLEAN, Answered(yes)
  PROVE  RecvInv'
<1> USE DEF machine, queues, upgrade, files, consent
<1> DEFINE ev == Event(IF yes THEN "user_accepted" ELSE "user_rejected")
           step == InboundOn(fsm, introduction, ev)
<1>0. /\ pc = "asking" /\ pc' = "effects" /\ pending = <<>> /\ outcome = "none"
      /\ UNCHANGED <<batch, deferred, upgrade, files, cancelled, outcome, out, shown>>
  BY DEF Answered, RecvInv, LoopInv
<1>1. /\ approved = {} /\ shown = introduction /\ introduction # {}
      /\ fsm \notin {"PairedKey", "Introduction"}
      /\ batch = <<>> \/ is_over(fsm)
      /\ \A i \in 1 .. Len(batch) : batch[i].effect # "ask_user"
  BY <1>0 DEF RecvInv, PhaseInv
<1>2. approved' = IF yes THEN introduction ELSE {}
  BY <1>1 DEF Answered
<1>3. fsm \in States /\ introduction \in Attached /\ batch \in Seq(Effects) /\ attempts \in Nat
  BY DEF RecvInv, TypesOpen
<1>4. /\ ev.event = IF yes THEN "user_accepted" ELSE "user_rejected"
      /\ ev.frame.files \in Attached
  BY DEF Event, Frame, Attached
<1>5. InboundMove(fsm, introduction, ev, step)
  BY <1>3, <1>4, InboundMoves DEF Events
<1>6. step.introduction \in Attached /\ step.effects \in Seq(Effects) /\ step.state \in States
  BY <1>3, <1>4, <1>5, MoveTyped
<1>7. fsm' = step.state /\ introduction' = step.introduction /\ pending' = step.effects
  <2>1. /\ fsm' = step.state /\ introduction' = step.introduction
        /\ pending' = pending \o step.effects
    BY DEF Answered, Feed
  <2> QED BY <1>0, <1>6, <2>1
<1> HIDE DEF step, ev
<1>8. fsm # "Transferring"
  BY <1>1 DEF RecvInv, PhaseInv, Consented
<1>9. ~AcceptIn(out) /\ expected \cup written \cup inbox = {}
  BY <1>1 DEF RecvInv, PhaseInv, Consented
<1>10. TypesOpen'
  BY <1>0, <1>2, <1>6, <1>7 DEF RecvInv, TypesOpen, Attached
<1>11. OutcomeIsState'
  BY <1>0 DEF OutcomeIsState
<1>12. CASE is_over(fsm)
  <2>1. step = Step(fsm, introduction, <<>>)
    BY <1>5, <1>12 DEF InboundMove, is_over
  <2>2. fsm' = fsm /\ introduction' = introduction /\ pending' = <<>>
    BY <1>7, <2>1 DEF Step
  <2>3. Queued(batch', fsm', introduction', approved', attempts')
    BY <1>0, <1>1, <2>2, QueuedAnswered DEF RecvInv, LoopInv
  <2>4. LoopInv'
    BY <1>0, <1>12, <2>2, <2>3, QueuedEmpty DEF RecvInv, LoopInv
  <2>5. PhaseInv'
    BY <1>0, <1>9, <1>12, <2>2 DEF RecvInv, PhaseInv, is_over, Early
  <2> QED BY <1>10, <1>11, <2>4, <2>5 DEF RecvInv
<1>13. CASE ~is_over(fsm)
  <2>1. fsm = "AwaitingUser" /\ batch = <<>>
    BY <1>1, <1>3, <1>8, <1>13 DEF States, is_over
  <2>2. CASE yes
    <3>1. step = Step("Transferring", introduction, <<SendEffect(Frame("accept")), BeginReceiving(introduction)>>)
      BY <1>4, <2>1, <2>2 DEF step, InboundOn, is_over
    <3>2. /\ fsm' = "Transferring" /\ introduction' = introduction /\ approved' = introduction
          /\ pending' = <<SendEffect(Frame("accept")), BeginReceiving(introduction)>>
      BY <1>2, <1>7, <2>2, <3>1 DEF Step
    <3>3. Consented(fsm', introduction', approved')
      BY <1>1, <3>2 DEF Consented, Early
    <3>4. attempts' =< MAX_UPGRADE_ATTEMPTS
      BY <1>0, <2>1 DEF RecvInv, PhaseInv, Early
    <3>5. Queued(pending', fsm', introduction', approved', attempts')
      BY <3>2, <3>3, <3>4 DEF Queued, SendEffect, BeginReceiving, Frame, IntroductionFrame
    <3>6. LoopInv'
      BY <1>0, <2>1, <3>2, <3>5, QueuedEmpty DEF LoopInv, is_over
    <3>7. PhaseInv'
      BY <1>0, <1>3, <1>9, <3>2, <3>3, <3>4 DEF PhaseInv, Early, MAX_UPGRADE_ATTEMPTS
    <3> QED BY <1>10, <1>11, <3>6, <3>7 DEF RecvInv
  <2>3. CASE ~yes
    <3>1. ev.event # "user_accepted" /\ approved' = {}
      BY <1>2, <1>4, <2>3
    <3>2. fsm \in Early => approved' = {} /\ attempts =< MAX_UPGRADE_ATTEMPTS
      BY <3>1 DEF RecvInv, PhaseInv
    <3>3. /\ Queued(step.effects, step.state, step.introduction, approved', attempts)
          /\ is_over(step.state) => Ending(step.effects)
      BY <1>3, <1>5, <1>13, <3>1, <3>2, MoveQueued
    <3>4. step.state = "Done" \/ step.state = "Failed"
      BY <1>4, <2>1, <2>3 DEF step, InboundOn, is_over, Step, Fail
    <3>5. LoopInv'
      BY <1>0, <1>7, <2>1, <3>3, QueuedEmpty DEF LoopInv
    <3>6. PhaseInv'
      BY <1>0, <1>7, <1>9, <3>4 DEF RecvInv, PhaseInv, Early
    <3> QED BY <1>10, <1>11, <3>5, <3>6 DEF RecvInv
  <2> QED BY <2>2, <2>3
<1> QED BY <1>12, <1>13

\* An event that is no answer, fed between two batches.
LEMMA FeedStep ==
  ASSUME RecvInv, TypesOpen', NEW ev, ev.event \in Events \ {"user_accepted"},
         ev.frame.files \in Attached, Feed(ev),
         pc = "read", pc' = "effects",
         UNCHANGED <<batch, approved, attempts, outcome>>, out' = out,
         expected' \cup written' \cup inbox' \subseteq approved
  PROVE  (LoopInv /\ PhaseInv /\ OutcomeIsState)'
<1> DEFINE step == InboundOn(fsm, introduction, ev)
<1>1. batch = <<>> /\ pending = <<>> /\ outcome = "none" /\ ~is_over(fsm)
  BY QueuedEmpty DEF RecvInv, LoopInv
<1>2. fsm \in States /\ introduction \in Attached
  BY DEF RecvInv, TypesOpen
<1>3. InboundMove(fsm, introduction, ev, step)
  BY <1>2, InboundMoves
<1>4. step.effects \in Seq(Effects)
  BY <1>2, <1>3, MoveTyped
<1>5. fsm' = step.state /\ introduction' = step.introduction /\ pending' = step.effects
  <2>1. /\ fsm' = step.state /\ introduction' = step.introduction
        /\ pending' = pending \o step.effects
    BY DEF Feed
  <2> QED BY <1>1, <1>4, <2>1
<1> HIDE DEF step
<1>6. fsm \in Early => approved = {} /\ attempts =< MAX_UPGRADE_ATTEMPTS
  BY DEF RecvInv, PhaseInv
<1>7. ev.event # "user_accepted"
  OBVIOUS
<1>7a. /\ Queued(step.effects, step.state, step.introduction, approved, attempts)
       /\ is_over(step.state) => Ending(step.effects)
  BY <1>1, <1>2, <1>3, <1>6, <1>7, MoveQueued
<1>7b. /\ step.state \in Early => fsm \in Early
       /\ step.state = "Transferring" => fsm = "Transferring"
       /\ step.introduction = introduction \/ fsm = "Introduction"
  BY <1>2, <1>3, <1>7, MoveOnward
<1>8. LoopInv'
  BY <1>1, <1>5, <1>7a, QueuedEmpty DEF LoopInv
<1>9. Consented(fsm, introduction, approved) => Consented(fsm', introduction', approved')
  BY <1>5, <1>7b DEF Consented, Early
<1>10. PhaseInv'
  BY <1>5, <1>7b, <1>9 DEF RecvInv, PhaseInv
<1>11. OutcomeIsState'
  BY <1>1 DEF OutcomeIsState
<1> QED BY <1>8, <1>10, <1>11

\* The end of a batch.
LEMMA EndOfBatchStep == ASSUME RecvInv, EndOfBatch PROVE RecvInv'
<1> USE DEF machine, queues, upgrade, files, consent
<1> DEFINE step == InboundOn(fsm, introduction, Event("user_cancelled"))
<1>0. /\ pc = "effects" /\ batch = <<>> /\ outcome = "none" /\ pending \in Seq(Effects)
      /\ fsm \in States /\ introduction \in Attached
      /\ UNCHANGED <<deferred, upgrade, files, cancelled, outcome, out, consent>>
      /\ Queued(pending, fsm, introduction, approved, attempts)
      /\ is_over(fsm) => Ending(pending)
  BY QueuedEmpty DEF EndOfBatch, RecvInv, LoopInv, TypesOpen
<1>1. OutcomeIsState'
  BY <1>0 DEF OutcomeIsState
<1>2. CASE cancelled /\ ~is_over(fsm)
  <2> DEFINE fx == <<SendEffect(Frame("cancel")), Effect("cancelled")>>
  <2>1. step = Step("Cancelled", introduction, fx)
    BY <1>0, <1>2, InboundCancelled
  <2>2. /\ fsm' = "Cancelled" /\ introduction' = introduction /\ batch' = pending \o fx
        /\ pending' = <<>> /\ pc' = pc
    <3>1. /\ fsm' = step.state /\ introduction' = step.introduction
          /\ batch' = pending \o step.effects /\ pending' = <<>> /\ pc' = pc
      BY <1>2, Zenon DEF EndOfBatch
    <3> HIDE DEF step, fx
    <3> QED BY <2>1, <3>1 DEF Step
  <2>3. fx \in Seq(Effects)
    <3>1. SendEffect(Frame("cancel")) \in Effects /\ Effect("cancelled") \in Effects
      BY DEF SendEffect, Effect, Frame, Effects, FrameTypes, PlainFrames
    <3> QED BY <3>1
  <2>4. batch' \in Seq(Effects)
    BY <1>0, <2>2, <2>3
  <2>5. Queued(batch', fsm', introduction', approved', attempts') /\ Ending(batch')
    BY <1>0, <1>2, <2>2, QueuedCancel
  <2> HIDE DEF fx
  <2>6. TypesOpen'
    BY <1>0, <2>2, <2>4 DEF RecvInv, TypesOpen, States
  <2>7. LoopInv'
    BY <1>0, <2>2, <2>5, QueuedEmpty DEF LoopInv
  <2>8. PhaseInv'
    BY <1>0, <2>2 DEF RecvInv, PhaseInv, Consented, Early
  <2> QED BY <1>1, <2>6, <2>7, <2>8 DEF RecvInv
<1>3. CASE ~cancelled /\ pending = <<>>
  <2>1. UNCHANGED <<machine, queues>> /\ pc' = "read"
    BY <1>0, <1>3 DEF EndOfBatch
  <2>2. TypesOpen'
    BY <1>0, <2>1 DEF RecvInv, TypesOpen
  <2>3. attempts \in Nat
    BY DEF RecvInv, TypesOpen
  <2>4. (LoopInv /\ PhaseInv /\ OutcomeIsState)'
    BY <1>0, <1>3, <2>1, <2>3, Stays
  <2> QED BY <2>2, <2>4 DEF RecvInv
<1>4. CASE (cancelled /\ is_over(fsm)) \/ (~cancelled /\ pending # <<>>)
  <2>1. fsm' = fsm /\ introduction' = introduction /\ batch' = pending /\ pending' = <<>> /\ pc' = pc
    <3>1. CASE ~cancelled /\ pending # <<>>
      BY <3>1 DEF EndOfBatch
    <3>2. CASE cancelled /\ is_over(fsm)
      <4>1. step = Step(fsm, introduction, <<>>)
        BY <1>0, <3>2, InboundCancelled
      <4>2. /\ fsm' = fsm /\ introduction' = introduction /\ batch' = pending \o <<>>
            /\ pending' = <<>> /\ pc' = pc
        <5>1. /\ fsm' = step.state /\ introduction' = step.introduction
              /\ batch' = pending \o step.effects /\ pending' = <<>> /\ pc' = pc
          BY <3>2, Zenon DEF EndOfBatch
        <5> HIDE DEF step
        <5> QED BY <4>1, <5>1 DEF Step
      <4> QED BY <1>0, <4>2
    <3> QED BY <1>4, <3>1, <3>2
  <2>2. TypesOpen'
    BY <1>0, <2>1 DEF RecvInv, TypesOpen
  <2>3. LoopInv'
    BY <1>0, <2>1, QueuedEmpty DEF LoopInv
  <2>4. PhaseInv'
    BY <1>0, <2>1 DEF RecvInv, PhaseInv
  <2> QED BY <1>1, <2>2, <2>3, <2>4 DEF RecvInv
<1> QED BY <1>2, <1>3, <1>4

\* One frame of the peer, off the socket or out of the deferred queue.
LEMMA HandleStep ==
  ASSUME RecvInv, NEW f \in Frames, Handle(f), pc = "read", deferred' \in Seq(Frames)
  PROVE  RecvInv'
<1> USE DEF machine, queues, upgrade, files, consent
<1>0. /\ batch = <<>> /\ pending = <<>> /\ outcome = "none" /\ ~is_over(fsm)
      /\ TypesOpen /\ f.files \in Attached /\ attempts \in Nat
  BY QueuedEmpty DEF RecvInv, LoopInv, TypesOpen, Frames, Attached
<1>1. ASSUME NEW ev, ev.event \in Events \ {"user_accepted"}, ev.frame.files \in Attached, Feed(ev)
      PROVE  fsm' \in States /\ introduction' \in Attached /\ pending' \in Seq(Effects)
  <2> DEFINE step == InboundOn(fsm, introduction, ev)
  <2>1. fsm \in States /\ introduction \in Attached
    BY <1>0 DEF TypesOpen
  <2>2. InboundMove(fsm, introduction, ev, step)
    BY <1>1, <2>1, InboundMoves
  <2>3. step.introduction \in Attached /\ step.effects \in Seq(Effects) /\ step.state \in States
    BY <1>1, <2>1, <2>2, MoveTyped
  <2>4. /\ fsm' = step.state /\ introduction' = step.introduction
        /\ pending' = pending \o step.effects
    BY <1>1 DEF Feed
  <2> HIDE DEF step
  <2> QED BY <1>0, <2>3, <2>4
<1>2. ASSUME NEW result \in {"received", "error"}, Return(result),
             UNCHANGED <<machine, upgrade, files, cancelled, consent>>,
             out' \in Seq(Frames), AcceptIn(out') => AcceptIn(out)
      PROVE  RecvInv'
  <2>1. TypesOpen'
    BY <1>0, <1>2 DEF Return, TypesOpen
  <2>2. (LoopInv /\ PhaseInv /\ OutcomeIsState)'
    BY <1>0, <1>2, Returns DEF is_over
  <2> QED BY <2>1, <2>2 DEF RecvInv
<1>3. CASE OnSharing(f)
  <2>1. FrameEvent(f).event \in Events \ {"user_accepted"} /\ FrameEvent(f).frame.files \in Attached
    BY <1>0 DEF FrameEvent, Events
  <2>2. Feed(FrameEvent(f)) /\ pc' = "effects"
        /\ UNCHANGED <<batch, upgrade, files, cancelled, outcome, out, consent>>
    BY <1>3 DEF OnSharing
  <2>3. TypesOpen'
    BY <1>0, <1>1, <2>1, <2>2 DEF TypesOpen
  <2>4. expected' \cup written' \cup inbox' \subseteq approved
    BY <2>2 DEF RecvInv, PhaseInv
  <2>5. (LoopInv /\ PhaseInv /\ OutcomeIsState)'
    BY <2>1, <2>2, <2>3, <2>4, FeedStep
  <2> QED BY <2>3, <2>5 DEF RecvInv
<1>4. CASE OnChunk(f)
  <2>0. UNCHANGED <<upgrade, cancelled, out, consent>>
    BY <1>4 DEF OnChunk
  <2>1. CASE Return("error") /\ UNCHANGED <<machine, files>>
    BY <1>0, <1>2, <2>0, <2>1 DEF TypesOpen
  <2>1a. CASE \E a \in f.files : /\ a \in expected
                                 /\ written' = written \cup {a}
                                 /\ inbox' = inbox \cup {a}
                                 /\ \/ sinks' = sinks \cup {a}
                                    \/ f.type = "last_chunk" /\ sinks' = sinks \ {a}
                                 /\ Return("error")
                                 /\ UNCHANGED <<machine, expected, whole>>
    <3>1. PICK a \in expected :
             /\ written' = written \cup {a} /\ inbox' = inbox \cup {a}
             /\ sinks' = sinks \cup {a} \/ sinks' = sinks \ {a}
      BY <2>1a
    <3>2. Return("error") /\ UNCHANGED <<machine, expected, whole>>
      BY <2>1a
    <3>3. /\ written' \in SUBSET Files /\ inbox' \in SUBSET Files /\ sinks' \in SUBSET Files
          /\ expected' \cup written' \cup inbox' \subseteq approved
      <4>1. expected \in SUBSET Files /\ written \in SUBSET Files /\ inbox \in SUBSET Files
            /\ sinks \in SUBSET Files
        BY <1>0 DEF TypesOpen
      <4>2. expected \cup written \cup inbox \subseteq approved
        BY DEF RecvInv, PhaseInv
      <4>3. expected' = expected
        BY <3>2
      <4>4. expected' \cup written' \cup inbox' \subseteq approved
        BY <3>1, <4>2, <4>3
      <4> QED BY <3>1, <4>1, <4>4
    <3>4. TypesOpen'
      BY <1>0, <2>0, <3>2, <3>3 DEF Return, TypesOpen
    <3>5. pc' = "over" /\ batch' = <<>> /\ pending' = <<>> /\ outcome' = "error"
      BY <3>2 DEF Return
    <3>6. LoopInv'
      BY <3>5, QueuedEmpty DEF LoopInv
    <3>7. PhaseInv'
      BY <2>0, <3>2, <3>3, <3>5 DEF RecvInv, PhaseInv
    <3>8. OutcomeIsState'
      BY <3>5 DEF OutcomeIsState
    <3> QED BY <3>4, <3>6, <3>7, <3>8 DEF RecvInv
  <2>2. CASE /\ ~(Return("error") /\ UNCHANGED <<machine, files>>)
             /\ ~\E a \in f.files : /\ a \in expected
                                    /\ written' = written \cup {a}
                                    /\ inbox' = inbox \cup {a}
                                    /\ \/ sinks' = sinks \cup {a}
                                       \/ f.type = "last_chunk" /\ sinks' = sinks \ {a}
                                    /\ Return("error")
                                    /\ UNCHANGED <<machine, expected, whole>>
    <3>1. PICK a \in f.files :
             /\ a \in expected
             /\ written' = written \cup {a}
             /\ inbox' = inbox \cup {a}
             /\ pc' = "effects"
             /\ IF f.type = "last_chunk"
                THEN /\ sinks' = sinks \ {a}
                     /\ expected' = expected \ {a}
                     /\ whole' = whole \cup {a}
                     /\ IF expected = {a} THEN Feed(Event("transfer_complete"))
                                          ELSE UNCHANGED <<machine, pending>>
                ELSE /\ sinks' = sinks \cup {a}
                     /\ UNCHANGED <<machine, pending, expected, whole>>
             /\ UNCHANGED <<batch, outcome>>
      BY <1>4, <2>2, Zenon DEF OnChunk
    <3>2. /\ written' \in SUBSET Files /\ inbox' \in SUBSET Files /\ sinks' \in SUBSET Files
          /\ expected' \in SUBSET Files /\ whole' \in SUBSET Files
      BY <1>0, <3>1 DEF TypesOpen
    <3>3. expected' \cup written' \cup inbox' \subseteq approved
      BY <3>1 DEF RecvInv, PhaseInv
    <3>4. CASE Feed(Event("transfer_complete"))
      <4>1. /\ Event("transfer_complete").event \in Events \ {"user_accepted"}
            /\ Event("transfer_complete").frame.files \in Attached
        BY DEF Event, Events, Frame, Attached
      <4>2. TypesOpen'
        BY <1>0, <1>1, <2>0, <3>1, <3>2, <3>4, <4>1 DEF TypesOpen
      <4>3. (LoopInv /\ PhaseInv /\ OutcomeIsState)'
        BY <2>0, <3>1, <3>3, <3>4, <4>1, <4>2, FeedStep
      <4> QED BY <4>2, <4>3 DEF RecvInv
    <3>5. CASE UNCHANGED <<machine, pending>>
      <4>1. TypesOpen'
        BY <1>0, <2>0, <3>1, <3>2, <3>5 DEF TypesOpen
      <4>2. LoopInv'
        BY <1>0, <2>0, <3>1, <3>5 DEF RecvInv, LoopInv
      <4>3. PhaseInv'
        BY <1>0, <2>0, <3>1, <3>3, <3>5 DEF RecvInv, PhaseInv
      <4>4. OutcomeIsState'
        BY <1>0, <3>1 DEF OutcomeIsState
      <4> QED BY <4>1, <4>2, <4>3, <4>4 DEF RecvInv
    <3> QED BY <3>1, <3>4, <3>5
  <2> QED BY <2>1, <2>1a, <2>2
<1>5. CASE OnPayloadCancel(f)
  <2>1. /\ Event("user_cancelled").event \in Events \ {"user_accepted"}
        /\ Event("user_cancelled").frame.files \in Attached
    BY DEF Event, Events, Frame, Attached
  <2>2. /\ Feed(Event("user_cancelled")) /\ pc' = "effects" /\ sinks' = sinks \ f.files
        /\ UNCHANGED <<batch, upgrade, expected, written, inbox, whole, cancelled, outcome, out,
                       consent>>
    BY <1>5 DEF OnPayloadCancel
  <2>3. sinks' \in SUBSET Files
    BY <1>0, <2>2 DEF TypesOpen
  <2>4. TypesOpen'
    BY <1>0, <1>1, <2>1, <2>2, <2>3 DEF TypesOpen
  <2>5. expected' \cup written' \cup inbox' \subseteq approved
    BY <2>2 DEF RecvInv, PhaseInv
  <2>6. (LoopInv /\ PhaseInv /\ OutcomeIsState)'
    BY <2>1, <2>2, <2>4, <2>5, FeedStep
  <2> QED BY <2>4, <2>6 DEF RecvInv
<1>6. CASE OnPathRequest(f)
  <2>1. /\ UNCHANGED <<machine, queues, upgraded, hosting, files, cancelled, outcome, consent>>
        /\ pc' \in {"effects", "offer_asked"}
        /\ attempts' \in Nat
        /\ attempts' = attempts \/ attempts' =< MAX_UPGRADE_ATTEMPTS
        /\ held' \in {held, 0}
    BY <1>0, <1>6 DEF OnPathRequest, MAX_UPGRADE_ATTEMPTS
  <2>2. out' \in Seq(Frames) /\ (AcceptIn(out') => AcceptIn(out))
    BY <1>0, <1>6, AcceptMoves, RepliesTyped DEF OnPathRequest, Write, TypesOpen
  <2>3. TypesOpen'
    BY <1>0, <2>1, <2>2 DEF TypesOpen
  <2>4. (LoopInv /\ PhaseInv /\ OutcomeIsState)'
    BY <1>0, <2>1, <2>2, Stays
  <2> QED BY <2>3, <2>4 DEF RecvInv
<1>7. CASE OnDisconnect(f)
  <2>1. out' \in Seq(Frames) /\ (AcceptIn(out') => AcceptIn(out))
    BY <1>0, <1>7, AcceptMoves, RepliesTyped DEF OnDisconnect, Write, TypesOpen
  <2> QED BY <1>2, <1>7, <2>1 DEF OnDisconnect
<1>8. CASE OnControl(f)
  <2>1. out' \in Seq(Frames) /\ (AcceptIn(out') => AcceptIn(out))
    BY <1>0, <1>8, AcceptMoves, RepliesTyped DEF OnControl, Write, TypesOpen
  <2>2. UNCHANGED <<machine, queues, upgrade, files, cancelled, outcome, consent>> /\ pc' = "effects"
    BY <1>8 DEF OnControl
  <2>3. TypesOpen'
    BY <1>0, <2>1, <2>2 DEF TypesOpen
  <2>4. (LoopInv /\ PhaseInv /\ OutcomeIsState)'
    BY <1>0, <2>1, <2>2, Stays
  <2> QED BY <2>3, <2>4 DEF RecvInv
<1>9. CASE OnBad(f)
  BY <1>0, <1>2, <1>9 DEF OnBad, TypesOpen
<1> QED BY <1>3, <1>4, <1>5, <1>6, <1>7, <1>8, <1>9 DEF Handle

\* The handover episodes, the reads that fail, the cancel and the peer's reads.
LEMMA OtherStep ==
  ASSUME RecvInv,
         \/ HostGroup \/ SenderJoins \/ OfferMoved \/ OfferStayed \/ OfferFailed
         \/ ReadFails \/ AbortSocket \/ WriteFails \/ WriteBlocks \/ Cancel \/ PeerReads
         \/ \E f \in Frames : Drain(f) \/ Release(f)
  PROVE  RecvInv'
<1> USE DEF machine, queues, upgrade, files, consent
<1>0. TypesOpen /\ attempts \in Nat
  BY DEF RecvInv, TypesOpen
<1>1. ASSUME Return("error"), pc # "over",
             UNCHANGED <<machine, deferred, upgraded, attempts, held, files, cancelled, out,
                         consent>>,
             hosting' \in {"no", "offered", "joined"}
      PROVE  RecvInv'
  <2>1. TypesOpen'
    BY <1>0, <1>1 DEF Return, TypesOpen
  <2>2. (LoopInv /\ PhaseInv /\ OutcomeIsState)'
    BY <1>1, Returns
  <2> QED BY <2>1, <2>2 DEF RecvInv
<1>2. ASSUME UNCHANGED <<machine, queues, attempts, files, outcome, consent>>, pc # "over",
             pc' = pc \/ pc' = "effects" \/ (pc' = "blocked" /\ pending = <<>>), TypesOpen',
             AcceptIn(out') => AcceptIn(out)
      PROVE  RecvInv'
  <2>1. pc' # "over" /\ (pc' = "read" => batch = <<>>)
    BY <1>2 DEF RecvInv, LoopInv
  <2>2. (LoopInv /\ PhaseInv /\ OutcomeIsState)'
    BY <1>0, <1>2, <2>1, Stays
  <2> QED BY <1>2, <2>2 DEF RecvInv
<1>3. CASE HostGroup
  <2>1. out' \in Seq(Frames) /\ (AcceptIn(out') => AcceptIn(out))
    BY <1>0, <1>3, AcceptMoves, RepliesTyped DEF HostGroup, Write, TypesOpen
  <2>2. TypesOpen'
    BY <1>0, <1>3, <2>1 DEF HostGroup, TypesOpen
  <2> QED BY <1>2, <1>3, <2>1, <2>2 DEF HostGroup, Offering
<1>3a. CASE SenderJoins
  <2>2. TypesOpen'
    BY <1>0, <1>3a DEF SenderJoins, TypesOpen
  <2> QED BY <1>2, <1>3a, <2>2 DEF SenderJoins, Offering
<1>4. CASE OfferMoved
  <2>2. TypesOpen'
    BY <1>0, <1>4 DEF OfferMoved, TypesOpen
  <2> QED BY <1>2, <1>4, <2>2 DEF OfferMoved, Offering
<1>5. CASE OfferStayed
  <2>1. out' \in Seq(Frames) /\ (AcceptIn(out') => AcceptIn(out))
    BY <1>0, <1>5, AcceptMoves, RepliesTyped DEF OfferStayed, Write, TypesOpen
  <2>2. TypesOpen'
    BY <1>0, <1>5, <2>1 DEF OfferStayed, TypesOpen
  <2> QED BY <1>2, <1>5, <2>1, <2>2 DEF OfferStayed, Offering
<1>6. CASE OfferFailed
  <2>1. CASE pc = "offer_asked"
    BY <1>1, <1>6, <2>1 DEF OfferFailed
  <2>2. CASE pc # "offer_asked"
    <3>1. TypesOpen'
      BY <1>0, <1>6, <2>2 DEF OfferFailed, TypesOpen
    <3> QED BY <1>2, <1>6, <2>2, <3>1 DEF OfferFailed, Offering
  <2> QED BY <2>1, <2>2
<1>7. CASE ReadFails \/ AbortSocket
  BY <1>0, <1>1, <1>7 DEF ReadFails, AbortSocket, TypesOpen
<1>7a. CASE WriteFails
  <2>1. pc # "over" /\ Return("error")
        /\ UNCHANGED <<machine, deferred, upgrade, files, cancelled, out, consent>>
    BY <1>7a DEF WriteFails, Doing
  <2> QED BY <1>0, <1>1, <2>1 DEF TypesOpen
<1>7b. CASE WriteBlocks
  <2>1. pc # "over" /\ pc' = "blocked" /\ pending = <<>>
        /\ UNCHANGED <<machine, queues, deferred, upgrade, files, cancelled, outcome, out, consent>>
    BY <1>7b DEF WriteBlocks, Doing, Offering, RecvInv, LoopInv
  <2>2. TypesOpen'
    BY <1>0, <2>1 DEF TypesOpen
  <2> QED BY <1>2, <2>1, <2>2
<1>8. CASE Cancel
  <2>1. TypesOpen'
    BY <1>0, <1>8 DEF Cancel, TypesOpen
  <2> QED BY <1>2, <1>8, <2>1 DEF Cancel
<1>9. CASE PeerReads
  <2>1. out' \in Seq(Frames) /\ (AcceptIn(out') => AcceptIn(out))
    BY <1>0, <1>9, AcceptMoves DEF PeerReads, TypesOpen
  <2>2. UNCHANGED <<pc, machine, queues, deferred, upgrade, files, cancelled, outcome, consent>>
    BY <1>9 DEF PeerReads
  <2>3. TypesOpen'
    BY <1>0, <2>1, <2>2 DEF TypesOpen
  <2>4. LoopInv' /\ OutcomeIsState'
    BY <2>2 DEF RecvInv, LoopInv, OutcomeIsState
  <2>5. PhaseInv'
    BY <2>1, <2>2 DEF RecvInv, PhaseInv
  <2> QED BY <2>3, <2>4, <2>5 DEF RecvInv
<1>10. ASSUME NEW f \in Frames, Drain(f) \/ Release(f) PROVE RecvInv'
  <2>1. /\ deferred' = Append(deferred, f) /\ pc' = pc /\ pc # "over"
        /\ held' = held \/ (held < DeferCap /\ held' = held + 1)
        /\ UNCHANGED <<machine, queues, upgraded, attempts, hosting, files, cancelled, outcome, out,
                       consent>>
    BY <1>10 DEF Drain, Release, Offering
  <2>2. deferred' \in Seq(Frames) /\ held' \in Nat /\ held' =< DeferCap
    BY <1>0, <2>1 DEF TypesOpen
  <2>3. TypesOpen'
    BY <1>0, <2>1, <2>2 DEF TypesOpen
  <2> QED BY <1>2, <2>1, <2>3
<1> QED BY <1>3, <1>3a, <1>4, <1>5, <1>6, <1>7, <1>7a, <1>7b, <1>8, <1>9, <1>10

\* The invariant holds when the channel is up: one claim to send, and nothing
\* announced, asked or approved.
LEMMA RecvInit == Init => RecvInv
<1> SUFFICES ASSUME Init PROVE RecvInv
  OBVIOUS
<1> DEFINE e == SendEffect(Frame("paired_key_encryption"))
<1>1. fsm = "PairedKey" /\ introduction = {} /\ batch = <<e>> /\ pending = <<>> /\ approved = {}
  BY DEF Init, InboundStart, Step
<1>2. e.effect = "send" /\ e.frame.type = "paired_key_encryption" /\ e \in Effects
  BY DEF SendEffect, Frame, Effects, FrameTypes, PlainFrames
<1> HIDE DEF e
<1>3. batch \in Seq(Effects) /\ Len(batch) = 1 /\ batch[1] = e
  BY <1>1, <1>2
<1>4. TypesOpen
  <2>1. <<>> \in Seq(Effects) /\ <<>> \in Seq(Frames) /\ Len(<<>>) = 0 /\ 0 =< DeferCap /\ 0 \in Nat
    OBVIOUS
  <2>2. {} \in Attached /\ {} \in SUBSET Files
    BY DEF Attached
  <2> QED BY <1>1, <1>3, <2>1, <2>2 DEF Init, TypesOpen, States
<1>5. Queued(batch, fsm, introduction, approved, attempts)
  BY <1>2, <1>3 DEF Queued
<1>6. LoopInv
  BY <1>1, <1>5, QueuedEmpty DEF Init, LoopInv, is_over
<1>7. PhaseInv
  BY <1>1 DEF Init, PhaseInv, AcceptIn, Early, MAX_UPGRADE_ATTEMPTS
<1>8. OutcomeIsState
  BY DEF Init, OutcomeIsState
<1> QED BY <1>4, <1>6, <1>7, <1>8 DEF RecvInv

\* Every step of the connection and of its peer preserves the invariant.
LEMMA RecvStep == RecvInv /\ [Next]_vars => RecvInv'
<1> SUFFICES ASSUME RecvInv, [Next]_vars PROVE RecvInv'
  OBVIOUS
<1>1. CASE DoSend \/ DoAskUser \/ DoBeginReceiving \/ DoDone \/ DoCancelled \/ DoFailed
  BY <1>1, DoingStep
<1>2. CASE EndOfBatch
  BY <1>2, EndOfBatchStep
<1>3. CASE Replay
  <2>1. deferred \in Seq(Frames) /\ deferred # <<>>
    BY <1>3 DEF Replay, RecvInv, TypesOpen
  <2>2. Head(deferred) \in Frames /\ Tail(deferred) \in Seq(Frames)
    BY <2>1
  <2> QED BY <1>3, <2>2, HandleStep DEF Replay
<1>4. CASE \E yes \in BOOLEAN : Answered(yes)
  BY <1>4, AnsweredStep
<1>5. CASE \/ HostGroup \/ SenderJoins \/ EndOffer \/ PeerReads \/ ReadFails \/ AbortSocket
           \/ WriteFails \/ WriteBlocks \/ Cancel
  BY <1>5, OtherStep DEF EndOffer
<1>6. CASE PeerSends
  <2>1. PICK f \in Frames : Receive(f) \/ Drain(f) \/ Release(f)
    BY <1>6, PeerFramesTyped DEF PeerSends
  <2>2. CASE Receive(f)
    <3>1. deferred' \in Seq(Frames)
      BY <2>2 DEF Receive, RecvInv, TypesOpen
    <3> QED BY <2>2, <3>1, HandleStep DEF Receive
  <2>3. CASE Drain(f) \/ Release(f)
    BY <2>3, OtherStep
  <2> QED BY <2>1, <2>2, <2>3
<1>7. CASE UNCHANGED vars
  <2>1. TypesOpen'
    BY <1>7 DEF RecvInv, TypesOpen, vars
  <2>2. LoopInv' /\ OutcomeIsState'
    BY <1>7 DEF RecvInv, LoopInv, OutcomeIsState, vars
  <2>3. PhaseInv'
    BY <1>7 DEF RecvInv, PhaseInv, vars
  <2> QED BY <2>1, <2>2, <2>3 DEF RecvInv
<1> QED BY <1>1, <1>2, <1>3, <1>4, <1>5, <1>6, <1>7 DEF Next, Perform

\* The receiver's variables keep their types for any attachments, in front of
\* any peer; in particular the peer can never make it try more handovers than
\* MAX_UPGRADE_ATTEMPTS and its own one.
THEOREM ReceiverTyped == Spec => []TypeOK
<1>1. RecvInv => TypeOK
  <2> SUFFICES ASSUME RecvInv PROVE TypeOK
    OBVIOUS
  <2>1. TypesOpen /\ attempts =< MAX_UPGRADE_ATTEMPTS + 1
    BY DEF RecvInv, PhaseInv
  <2>2. attempts \in 0 .. MAX_UPGRADE_ATTEMPTS + 1 /\ held \in 0 .. DeferCap
    BY <2>1 DEF TypesOpen, MAX_UPGRADE_ATTEMPTS
  <2> QED BY <2>1, <2>2, Zenon DEF TypesOpen, TypeOK, Attached
<1> QED BY <1>1, RecvInit, RecvStep, PTL DEF Spec

\* No file is opened in the inbox, and no acceptance is written, unless the
\* person was shown that very introduction and said yes, whatever the peer
\* sends before, during or after a handover.
THEOREM ConsentKept == Spec => []Consent
<1>1. RecvInv => Consent
  BY DEF RecvInv, PhaseInv, Consent, AcceptIn, Consented
<1> QED BY <1>1, RecvInit, RecvStep, PTL DEF Spec

\* serve() returns what the machine's state says, whatever came last off the
\* socket.
THEOREM ReceiverOutcome == Spec => []OutcomeIsState
<1>1. RecvInv => OutcomeIsState
  BY DEF RecvInv
<1> QED BY <1>1, RecvInit, RecvStep, PTL DEF Spec
=============================================================================
