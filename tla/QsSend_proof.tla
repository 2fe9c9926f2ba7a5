---------------------------- MODULE QsSend_proof ----------------------------
(***************************************************************************)
(* The sender of a Quick Share connection, for any files and in front of a *)
(* peer that may send any frame at any moment.                             *)
(***************************************************************************)
EXTENDS QsSend, SequenceTheorems, FiniteSetTheorems, TLAPS

-----------------------------------------------------------------------------
(* The sending machine *)

Active == {"Introduction", "Transferring"}

\* What any frame of the peer makes the Outbound machine do.
LEMMA SenderMoves ==
  ASSUME NEW m \in Active, NEW f
  PROVE  LET step == OutboundOn(m, Files, FrameEvent(f))
         IN  \/ step.state = m /\ step.effects = <<>>
             \/ /\ step.state = "Transferring" /\ m = "Introduction"
                /\ step.effects = <<BeginSending(Files)>>
             \/ step.state = "Done" /\ step.effects = <<Effect("done")>>
             \/ step.state = "Cancelled" /\ step.effects = <<Effect("cancelled")>>
             \/ step.state = "Failed" /\ step.effects = <<Effect("failed")>>
<1>1. OutboundOn(m, Files, FrameEvent(f)) = OutboundOnFrame(m, Files, f)
  BY DEF OutboundOn, FrameEvent, is_over, Active
<1>2. \/ OutboundOnFrame(m, Files, f) = Step(m, Files, <<>>)
      \/ /\ OutboundOnFrame(m, Files, f) = Step("Transferring", Files, <<BeginSending(Files)>>)
         /\ m = "Introduction"
      \/ OutboundOnFrame(m, Files, f) = Step("Done", Files, <<Effect("done")>>)
      \/ OutboundOnFrame(m, Files, f) = Step("Cancelled", Files, <<Effect("cancelled")>>)
      \/ OutboundOnFrame(m, Files, f) = Step("Failed", Files, <<Effect("failed")>>)
  BY DEF OutboundOnFrame, Ignore, Fail, Active
<1> QED BY <1>1, <1>2 DEF Step

\* The end of the stream and a cancel, as the machine takes them.
LEMMA SenderEnds ==
  ASSUME NEW m, NEW e
  PROVE  LET step == OutboundOn(m, Files, Event(e))
         IN  /\ m \in {"Done", "Failed", "Cancelled"} => step.state = m /\ step.effects = <<>>
             /\ m = "Transferring" /\ e = "transfer_complete" =>
                   step.state = "Done" /\ step.effects = <<Effect("done")>>
             /\ m \in Active /\ e = "user_cancelled" =>
                   /\ step.state = "Cancelled"
                   /\ step.effects = <<SendEffect(Frame("cancel")), Effect("cancelled")>>
<1>1. /\ m \in {"Done", "Failed", "Cancelled"} =>
            OutboundOn(m, Files, Event(e)) = Step(m, Files, <<>>)
      /\ m = "Transferring" /\ e = "transfer_complete" =>
            OutboundOn(m, Files, Event(e)) = Step("Done", Files, <<Effect("done")>>)
      /\ m \in Active /\ e = "user_cancelled" =>
            OutboundOn(m, Files, Event(e)) =
               Step("Cancelled", Files, <<SendEffect(Frame("cancel")), Effect("cancelled")>>)
  BY DEF OutboundOn, Event, is_over, Ignore, Active
<1> QED BY <1>1 DEF Step

-----------------------------------------------------------------------------
(* What the sender's queues may hold *)

Terminal == {"done", "cancelled", "failed"}

\* The queue holds the end of the exchange.
Ending(s) == \E i \in 1 .. Len(s) : s[i].effect \in Terminal

Telling(e) == e.effect = "send" /\ e.frame.type = "cancel"

\* The effects of a queue fit the machine's state m: the one start of the
\* stream comes first, alone unless a cancel overtook it, and an ending names
\* the state.
Fits(s, m) ==
    \A i \in 1 .. Len(s) :
        /\ s[i].effect = "begin_sending" =>
              /\ i = 1 /\ m \in {"Transferring", "Cancelled"}
              /\ m = "Transferring" => Len(s) = 1
        /\ s[i].effect = "done" => m = "Done"
        /\ s[i].effect = "failed" => m = "Failed"
        /\ s[i].effect = "cancelled" => m = "Cancelled"

\* The queue starts the stream.
Starts(s) == \E i \in 1 .. Len(s) : s[i].effect = "begin_sending"

\* The peer is told of a cancel before it is acted on.
Announced(s) ==
    \A i \in 1 .. Len(s) :
        s[i].effect = "cancelled" => \E j \in 1 .. Len(s) : j < i /\ Telling(s[j])

\* An empty queue fits any state, and starts, announces and ends nothing.
LEMMA FitsEmpty ==
  ASSUME NEW m
  PROVE  Fits(<<>>, m) /\ ~Starts(<<>>) /\ Announced(<<>>) /\ ~Ending(<<>>)
  BY DEF Fits, Starts, Announced, Ending

\* A queue of one effect.
LEMMA FitsOne ==
  ASSUME NEW m, NEW e,
         \/ e.effect = "begin_sending" /\ m = "Transferring"
         \/ e.effect = "done" /\ m = "Done"
         \/ e.effect = "cancelled" /\ m = "Cancelled"
         \/ e.effect = "failed" /\ m = "Failed"
  PROVE  /\ Fits(<<e>>, m)
         /\ Starts(<<e>>) => m = "Transferring"
         /\ m # "Transferring" => Ending(<<e>>)
  BY DEF Fits, Starts, Ending, Terminal

\* What is left of a queue after its first effect still fits, starts nothing,
\* and has announced what it had to announce unless the first effect was it.
LEMMA FitsTail ==
  ASSUME NEW m, NEW T, NEW s \in Seq(T), s # <<>>, Fits(s, m)
  PROVE  /\ Fits(Tail(s), m) /\ ~Starts(Tail(s))
         /\ Announced(s) => Announced(Tail(s)) \/ Telling(Head(s))
         /\ Announced(s) => Head(s).effect # "cancelled"
         /\ Head(s).effect \notin Terminal => (Ending(s) => Ending(Tail(s)))
<1>1. /\ Len(Tail(s)) = Len(s) - 1 /\ Len(s) \in Nat /\ Len(s) > 0
      /\ \A i \in 1 .. Len(Tail(s)) : Tail(s)[i] = s[i + 1] /\ i + 1 \in 1 .. Len(s)
  OBVIOUS
<1>2. Head(s) = s[1]
  OBVIOUS
<1>3. \A i \in 1 .. Len(Tail(s)) : Tail(s)[i].effect # "begin_sending"
  BY <1>1 DEF Fits
<1>4. Fits(Tail(s), m)
  BY <1>1, <1>3 DEF Fits
<1>5. ~Starts(Tail(s))
  BY <1>3 DEF Starts
<1>6. ASSUME Announced(s), ~Telling(Head(s)) PROVE Announced(Tail(s))
  <2> SUFFICES ASSUME NEW i \in 1 .. Len(Tail(s)), Tail(s)[i].effect = "cancelled"
               PROVE  \E j \in 1 .. Len(Tail(s)) : j < i /\ Telling(Tail(s)[j])
    BY DEF Announced
  <2>1. PICK j \in 1 .. Len(s) : j < i + 1 /\ Telling(s[j])
    BY <1>1, <1>6 DEF Announced
  <2>2. j # 1
    BY <1>2, <1>6, <2>1
  <2>3. j - 1 \in 1 .. Len(Tail(s)) /\ j - 1 < i /\ Tail(s)[j - 1] = s[j]
    BY <1>1, <2>1, <2>2
  <2> QED BY <2>1, <2>3
<1>7. Announced(s) => Head(s).effect # "cancelled"
  BY <1>1, <1>2 DEF Announced
<1>8. ASSUME Head(s).effect \notin Terminal, Ending(s) PROVE Ending(Tail(s))
  <2>1. PICK i \in 1 .. Len(s) : s[i].effect \in Terminal
    BY <1>8 DEF Ending
  <2>2. i # 1
    BY <1>2, <1>8, <2>1
  <2>3. i - 1 \in 1 .. Len(Tail(s)) /\ Tail(s)[i - 1] = s[i]
    BY <1>1, <2>1, <2>2
  <2> QED BY <2>1, <2>3 DEF Ending
<1> QED BY <1>4, <1>5, <1>6, <1>7, <1>8

\* A cancel noticed at the end of a batch is announced and then acted on, after
\* what was queued.
LEMMA FitsCancel ==
  ASSUME NEW m \in Active, NEW T, NEW s \in Seq(T), Fits(s, m)
  PROVE  LET q == s \o <<SendEffect(Frame("cancel")), Effect("cancelled")>>
         IN  /\ Fits(q, "Cancelled") /\ Announced(q) /\ Ending(q)
             /\ Starts(q) => Starts(s)
<1> DEFINE c == <<SendEffect(Frame("cancel")), Effect("cancelled")>>
           q == s \o c
<1>1. Len(c) = 2 /\ Telling(c[1]) /\ c[1].effect = "send" /\ c[2].effect = "cancelled"
  BY DEF SendEffect, Effect, Frame, Telling
<1>2. Len(s) \in Nat /\ Len(q) = Len(s) + 2
  OBVIOUS
<1>3. \A i \in 1 .. Len(q) : /\ i =< Len(s) => q[i] = s[i]
                             /\ i = Len(s) + 1 => q[i] = c[1]
                             /\ i = Len(s) + 2 => q[i] = c[2]
  OBVIOUS
<1> HIDE DEF q, c
<1>4. \A i \in 1 .. Len(q) :
         \/ i \in 1 .. Len(s) /\ q[i] = s[i]
         \/ i = Len(s) + 1 /\ Telling(q[i]) /\ q[i].effect = "send"
         \/ i = Len(s) + 2 /\ q[i].effect = "cancelled"
  BY <1>1, <1>2, <1>3
<1>5. Fits(q, "Cancelled")
  BY <1>2, <1>4 DEF Fits, Active
<1>6. Announced(q)
  <2> SUFFICES ASSUME NEW i \in 1 .. Len(q), q[i].effect = "cancelled"
               PROVE  \E j \in 1 .. Len(q) : j < i /\ Telling(q[j])
    BY DEF Announced
  <2>1. i = Len(s) + 2
    BY <1>4 DEF Fits, Active
  <2>2. Len(s) + 1 \in 1 .. Len(q) /\ Telling(q[Len(s) + 1])
    BY <1>1, <1>2, <1>3
  <2> QED BY <1>2, <2>1, <2>2
<1>7. Ending(q)
  <2>1. Len(s) + 2 \in 1 .. Len(q) /\ q[Len(s) + 2].effect = "cancelled"
    BY <1>1, <1>2, <1>3
  <2> QED BY <2>1 DEF Ending, Terminal
<1>8. Starts(q) => Starts(s)
  BY <1>4 DEF Starts
<1> QED BY <1>5, <1>6, <1>7, <1>8 DEF q, c

-----------------------------------------------------------------------------
(* The sender's invariant *)

Streaming == {"waiting", "adopt_wait", "streaming"}

\* Nothing of any file is on the wire.
Quiet == begun \cup sent = {}

SendTypes ==
    /\ pc \in {"effects", "waiting", "adopt_read", "adopt_wait", "streaming", "read", "over",
              "blocked"}
    /\ fsm \in Active \cup {"Done", "Failed", "Cancelled"}
    /\ batch \in Seq(Effects) /\ pending \in Seq(Effects)
    /\ begun \subseteq Files /\ sent \subseteq Files

\* The loop, as for the receiver; and a cancel of a stream is announced.
SendLoop ==
    /\ pc \in {"read", "adopt_read", "over"} => batch = <<>>
    /\ batch # <<>> \/ pc \notin {"effects", "blocked"} => pending = <<>>
    /\ Fits(batch, fsm) /\ Fits(pending, fsm)
    /\ Starts(batch) \/ Starts(pending) => ~accepted /\ (fsm = "Cancelled" => cancelled)
    /\ fsm = "Cancelled" => Quiet \/ saidCancel \/ (Announced(batch) /\ Announced(pending))
    /\ fsm \notin Active /\ pc # "over" => Ending(batch) \/ Ending(pending)
    /\ outcome # "none" => pc = "over"

\* The exchange: the stream runs once, after the acceptance and before the
\* machine moves on, and the state it moves to tells how far it got.
SendPhase ==
    /\ fsm = "Introduction" => ~accepted
    /\ fsm = "Transferring" /\ accepted => pc \in Streaming \cup {"over", "blocked"}
    /\ pc \in Streaming =>
          /\ accepted
          /\ \/ fsm = "Transferring" /\ batch = <<>>
             \/ fsm = "Cancelled" /\ cancelled /\ Quiet
    /\ ~Quiet => accepted
    /\ fsm = "Failed" => Quiet
    /\ fsm = "Done" => Quiet \/ sent = Files
    /\ fsm = "Cancelled" => Quiet \/ sent # Files
    /\ \A f, g \in begun \ sent : f = g

SendInv == SendTypes /\ SendLoop /\ SendPhase /\ OutcomeIsState /\ StoppedMeansTold

\* The invariant holds when the channel is up: three frames to send.
LEMMA SendInit == Init => SendInv
<1> SUFFICES ASSUME Init PROVE SendInv
  OBVIOUS
<1> DEFINE d == SendEffect(Frame("paired_key_encryption"))
           e == SendEffect(Frame("paired_key_result"))
           g == SendEffect(IntroductionFrame(Files))
<1>1. fsm = "Introduction" /\ batch = <<d, e, g>> /\ pending = <<>> /\ pc = "effects"
  BY DEF Init, OutboundStart, Step
<1>2. d.effect = "send" /\ e.effect = "send" /\ g.effect = "send"
  BY DEF SendEffect
<1>3. d \in Effects /\ e \in Effects /\ g \in Effects
  BY DEF SendEffect, Frame, IntroductionFrame, Effects, FrameTypes, PlainFrames
<1> HIDE DEF d, e, g
<1>4. batch \in Seq(Effects)
  BY <1>1, <1>3
<1>5. Fits(batch, fsm) /\ ~Starts(batch)
  BY <1>1, <1>2 DEF Fits, Starts
<1>6. SendTypes
  BY <1>1, <1>4 DEF Init, SendTypes, Active
<1>7. SendLoop
  BY <1>1, <1>5, FitsEmpty DEF Init, SendLoop, Active
<1>8. SendPhase
  BY <1>1 DEF Init, SendPhase, Quiet, Streaming
<1>9. OutcomeIsState /\ StoppedMeansTold
  BY DEF Init, OutcomeIsState, StoppedMeansTold
<1> QED BY <1>6, <1>7, <1>8, <1>9 DEF SendInv

\* What the machine queues are effects.
LEMMA SenderEffects ==
  /\ \A e \in Terminal : Effect(e) \in Effects
  /\ SendEffect(Frame("cancel")) \in Effects
  /\ BeginSending(Files) \in Effects
<1>1. \A e \in Terminal : Effect(e) \in Effects
  BY DEF Effect, Frame, Effects, Terminal
<1>2. SendEffect(Frame("cancel")) \in Effects
  BY DEF SendEffect, Frame, Effects, FrameTypes, PlainFrames
<1>3. BeginSending(Files) \in Effects
  BY DEF BeginSending, IntroductionFrame, Effects, FrameTypes
<1> QED BY <1>1, <1>2, <1>3

\* send() returns: nothing is queued any more, and only the result is to judge.
LEMMA SendReturns ==
  ASSUME SendInv, NEW result, Return(result),
         UNCHANGED <<fsm, begun, sent, cancelled, accepted, saidCancel>>,
         \/ result = "error"
         \/ /\ fsm \notin {"Failed"}
            /\ fsm = "Cancelled" => result = "false"
            /\ sent = Files /\ Files \ Empty # {} => result = "true"
            /\ Quiet \/ sent = Files \/ saidCancel
  PROVE  SendInv'
<1>1. pc' = "over" /\ batch' = <<>> /\ pending' = <<>> /\ outcome' = result
  BY DEF Return
<1>2. SendTypes'
  BY <1>1 DEF SendInv, SendTypes
<1>3. SendLoop'
  BY <1>1, FitsEmpty DEF SendLoop
<1>4. Quiet' <=> Quiet
  BY DEF Quiet
<1>5. SendPhase'
  BY <1>1, <1>4 DEF SendInv, SendPhase, Streaming
<1>6. OutcomeIsState' /\ StoppedMeansTold'
  BY <1>1 DEF OutcomeIsState, StoppedMeansTold, Quiet
<1> QED BY <1>2, <1>3, <1>5, <1>6 DEF SendInv

\* A step that only moves the thread between its waits.
LEMMA SendStays ==
  ASSUME SendInv,
         UNCHANGED <<fsm, batch, pending, begun, sent, cancelled, outcome, accepted,
                     saidCancel>>,
         \/ pc' = pc
         \/ pc = "read" /\ pc' \in {"effects", "adopt_read"}
         \/ pc = "adopt_read" /\ pc' = "effects"
         \/ pc \in Streaming /\ pc' \in Streaming
         \/ pc = "effects" /\ pc' = "read" /\ batch = <<>> /\ pending = <<>>
         \/ pc # "over" /\ pc' = "blocked"
  PROVE  SendInv'
<1>1. SendTypes'
  BY DEF SendInv, SendTypes, Streaming
<1>2. Quiet' <=> Quiet
  BY DEF Quiet
<1>3. pc' # pc => outcome = "none" /\ pc' # "over" /\ pc # "over"
  BY DEF SendInv, SendLoop, Streaming
<1>4. SendLoop'
  BY <1>2, <1>3 DEF SendInv, SendLoop, Streaming
<1>5. SendPhase'
  BY <1>2, <1>3 DEF SendInv, SendPhase, Streaming
<1>6. OutcomeIsState' /\ StoppedMeansTold'
  BY DEF SendInv, OutcomeIsState, StoppedMeansTold
<1> QED BY <1>1, <1>4, <1>5, <1>6 DEF SendInv


\* Performing the first effect of the batch.
LEMMA SendDoing ==
  ASSUME SendInv, DoSend \/ DoBeginSending \/ DoDone \/ DoCancelled \/ DoFailed
  PROVE  SendInv'
<1> USE DEF queues, asking, payload, history
<1> DEFINE hd == Head(batch)
<1>0. /\ pc = "effects" /\ batch # <<>> /\ batch \in Seq(Effects) /\ pending = <<>>
      /\ hd = batch[1] /\ 1 \in 1 .. Len(batch) /\ Tail(batch) \in Seq(Effects)
      /\ outcome = "none"
  <2>1. pc = "effects" /\ batch # <<>>
    BY DEF DoSend, DoBeginSending, DoDone, DoCancelled, DoFailed, Doing
  <2>2. batch \in Seq(Effects)
    BY DEF SendInv, SendTypes
  <2> QED BY <2>1, <2>2 DEF SendInv, SendLoop
<1>1. Fits(batch, fsm)
  BY DEF SendInv, SendLoop
<1>2. /\ hd.effect = "begin_sending" =>
            /\ fsm \in {"Transferring", "Cancelled"}
            /\ fsm = "Transferring" => Len(batch) = 1
      /\ hd.effect = "done" => fsm = "Done"
      /\ hd.effect = "failed" => fsm = "Failed"
      /\ hd.effect = "cancelled" => fsm = "Cancelled"
  BY <1>0, <1>1 DEF Fits
<1>3. /\ Fits(Tail(batch), fsm) /\ ~Starts(Tail(batch))
      /\ Announced(batch) => Announced(Tail(batch)) \/ Telling(hd)
      /\ Announced(batch) => hd.effect # "cancelled"
      /\ hd.effect \notin Terminal => (Ending(batch) => Ending(Tail(batch)))
  BY <1>0, <1>1, FitsTail
<1>4. CASE DoSend
  <2>0. /\ hd.effect = "send" /\ batch' = Tail(batch)
        /\ UNCHANGED <<pc, fsm, pending, begun, sent, cancelled, outcome, accepted>>
    BY <1>4 DEF DoSend, Doing
  <2>1. saidCancel \/ Telling(hd) => saidCancel'
    BY <1>4, <2>0, Zenon DEF DoSend, Telling
  <2> HIDE DEF hd
  <2>2. SendTypes'
    BY <1>0, <2>0 DEF SendInv, SendTypes
  <2>3. Quiet' <=> Quiet
    BY <2>0 DEF Quiet
  <2>4. fsm = "Cancelled" => Quiet \/ saidCancel' \/ (Announced(batch') /\ Announced(pending))
    BY <1>3, <2>0, <2>1 DEF SendInv, SendLoop
  <2>5. SendLoop'
    BY <1>0, <1>3, <2>0, <2>3, <2>4, FitsEmpty DEF SendInv, SendLoop, Terminal
  <2>6. SendPhase'
    BY <1>0, <2>0, <2>3 DEF SendInv, SendPhase, Streaming
  <2>7. OutcomeIsState' /\ StoppedMeansTold'
    BY <1>0, <2>0 DEF OutcomeIsState, StoppedMeansTold
  <2> QED BY <2>2, <2>5, <2>6, <2>7 DEF SendInv
<1>5. CASE DoBeginSending
  <2>0. /\ hd.effect = "begin_sending" /\ batch' = Tail(batch) /\ accepted'
        /\ pc' \in {"waiting", "streaming"}
        /\ UNCHANGED <<fsm, pending, begun, sent, cancelled, outcome, saidCancel>>
    BY <1>5 DEF DoBeginSending, Doing
  <2>1. Starts(batch) /\ hd.effect \notin Terminal /\ ~Telling(hd)
    BY <1>0, <2>0 DEF Starts, Terminal, Telling
  <2> HIDE DEF hd
  <2>2. ~accepted /\ (fsm = "Cancelled" => cancelled)
    BY <2>1 DEF SendInv, SendLoop
  <2>3. Quiet /\ Quiet'
    BY <2>0, <2>2 DEF SendInv, SendPhase, Quiet
  <2>4. fsm \in {"Transferring", "Cancelled"} /\ (fsm = "Transferring" => Tail(batch) = <<>>)
    BY <1>0, <1>2, <2>0
  <2>5. SendTypes'
    BY <1>0, <2>0 DEF SendInv, SendTypes
  <2>6. SendLoop'
    BY <1>0, <1>3, <2>0, <2>1, <2>3, FitsEmpty DEF SendInv, SendLoop
  <2>7. SendPhase'
    BY <2>0, <2>2, <2>3, <2>4 DEF SendInv, SendPhase, Streaming
  <2>8. OutcomeIsState' /\ StoppedMeansTold'
    BY <1>0, <2>0 DEF OutcomeIsState, StoppedMeansTold
  <2> QED BY <2>5, <2>6, <2>7, <2>8 DEF SendInv
<1>6. CASE DoDone
  <2>1. hd.effect = "done" /\ fsm = "Done"
    BY <1>2, <1>6 DEF DoDone, Doing
  <2>2. Quiet \/ sent = Files
    BY <2>1 DEF SendInv, SendPhase
  <2>3. /\ Return(IF fsm = "Done" /\ Files \ Empty # {} THEN "true" ELSE "false")
        /\ UNCHANGED <<fsm, begun, sent, cancelled, accepted, saidCancel>>
    BY <1>6 DEF DoDone
  <2> QED BY <2>1, <2>2, <2>3, SendReturns
<1>7. CASE DoCancelled
  <2>1. hd.effect = "cancelled" /\ fsm = "Cancelled"
    BY <1>2, <1>7 DEF DoCancelled, Doing
  <2>2. Quiet \/ (saidCancel /\ sent # Files)
    BY <1>3, <2>1 DEF SendInv, SendLoop, SendPhase
  <2>3. sent = Files => Files \ Empty = {}
    BY <2>2 DEF Quiet
  <2>4. /\ Return("false")
        /\ UNCHANGED <<fsm, begun, sent, cancelled, accepted, saidCancel>>
    BY <1>7 DEF DoCancelled
  <2> QED BY <2>1, <2>2, <2>3, <2>4, SendReturns
<1>8. CASE DoFailed
  BY <1>8, SendReturns DEF DoFailed
<1> QED BY <1>4, <1>5, <1>6, <1>7, <1>8

\* One chunk or one terminator: the machine waits in the transfer meanwhile.
LEMMA SendStream ==
  ASSUME SendInv, StreamChunk \/ StreamLast
  PROVE  SendInv'
<1> USE DEF queues, asking, payload, history
<1>0. /\ pc = "streaming" /\ pending = <<>> /\ outcome = "none" /\ accepted
      /\ UNCHANGED <<pc, fsm, batch, pending, cancelled, outcome, accepted, saidCancel>>
  BY DEF StreamChunk, StreamLast, SendInv, SendLoop, SendPhase, Streaming
<1>1. fsm = "Transferring" /\ batch = <<>>
  <2>1. ~(cancelled /\ Quiet)
    BY DEF StreamChunk, StreamLast, Quiet
  <2> QED BY <1>0, <2>1 DEF SendInv, SendPhase, Streaming
<1>2. /\ begun' \subseteq Files /\ sent' \subseteq Files
      /\ \A f, g \in begun' \ sent' : f = g
  <2>1. begun \subseteq Files /\ sent \subseteq Files
    BY DEF SendInv, SendTypes
  <2>2. CASE StreamChunk
    BY <2>1, <2>2 DEF StreamChunk
  <2>3. CASE StreamLast
    BY <2>1, <2>3 DEF StreamLast
  <2> QED BY <2>2, <2>3
<1>3. SendTypes'
  BY <1>0, <1>2 DEF SendInv, SendTypes
<1>4. SendLoop'
  BY <1>0, <1>1, FitsEmpty DEF SendLoop, Active
<1>5. SendPhase'
  BY <1>0, <1>1, <1>2 DEF SendPhase, Streaming
<1>6. OutcomeIsState' /\ StoppedMeansTold'
  BY <1>0 DEF OutcomeIsState, StoppedMeansTold
<1> QED BY <1>3, <1>4, <1>5, <1>6 DEF SendInv


\* The end of the stream: complete, or cut short and said so.
LEMMA SendStreamEnd == ASSUME SendInv, StreamEnd PROVE SendInv'
<1> USE DEF queues, asking, payload, history
<1> DEFINE e == IF sent = Files THEN "transfer_complete" ELSE "user_cancelled"
           step == OutboundOn(fsm, Files, Event(e))
           fx == <<SendEffect(Frame("cancel")), Effect("cancelled")>>
<1>0. /\ pc = "streaming" /\ pc' = "effects" /\ pending = <<>> /\ outcome = "none" /\ accepted
      /\ UNCHANGED <<batch, begun, sent, cancelled, outcome, accepted, saidCancel>>
  BY DEF StreamEnd, SendInv, SendLoop, SendPhase, Streaming
<1>1. fsm' = step.state /\ pending' = pending \o step.effects
  <2>1. Feed(Event(e))
    BY DEF StreamEnd
  <2> QED BY <2>1, Zenon DEF Feed
<1>2. /\ fsm \in {"Done", "Failed", "Cancelled"} => step.state = fsm /\ step.effects = <<>>
      /\ fsm = "Transferring" /\ sent = Files =>
            step.state = "Done" /\ step.effects = <<Effect("done")>>
      /\ fsm = "Transferring" /\ sent # Files => step.state = "Cancelled" /\ step.effects = fx
  BY SenderEnds DEF Active
<1> HIDE DEF step, e
<1>3. Quiet' <=> Quiet
  BY <1>0 DEF Quiet
<1>4. OutcomeIsState' /\ StoppedMeansTold'
  BY <1>0 DEF OutcomeIsState, StoppedMeansTold
<1>5. CASE fsm = "Transferring" /\ sent = Files
  <2>1. Effect("done") \in Effects /\ Effect("done").effect = "done"
    BY SenderEffects DEF Effect, Terminal
  <2>2. fsm' = "Done" /\ pending' = <<Effect("done")>> /\ batch = <<>>
    BY <1>0, <1>1, <1>2, <1>5, <2>1 DEF SendInv, SendPhase, Streaming
  <2>3. Fits(pending', "Done") /\ Ending(pending') /\ ~Starts(pending')
    <3>1. \A d : d.effect = "done" => Fits(<<d>>, "Done") /\ Ending(<<d>>) /\ ~Starts(<<d>>)
      BY FitsOne
    <3> QED BY <2>1, <2>2, <3>1
  <2>4. pending' \in Seq(Effects)
    BY <2>1, <2>2
  <2>5. SendTypes'
    BY <1>0, <2>2, <2>4 DEF SendInv, SendTypes
  <2>6. SendLoop'
    BY <1>0, <2>2, <2>3, FitsEmpty DEF SendLoop
  <2>7. SendPhase'
    BY <1>0, <1>5, <2>2 DEF SendInv, SendPhase, Streaming
  <2> QED BY <1>4, <2>5, <2>6, <2>7 DEF SendInv
<1>6. CASE fsm = "Transferring" /\ sent # Files
  <2>1. fx \in Seq(Effects) /\ <<>> \o fx = fx /\ <<>> \in Seq(Effects)
    BY SenderEffects DEF Terminal
  <2>2. fsm' = "Cancelled" /\ pending' = fx /\ batch = <<>>
    BY <1>0, <1>1, <1>2, <1>6, <2>1 DEF SendInv, SendPhase, Streaming
  <2>3. Fits(fx, "Cancelled") /\ Announced(fx) /\ Ending(fx) /\ ~Starts(fx)
    BY <1>6, <2>1, FitsCancel, FitsEmpty DEF Active
  <2> HIDE DEF fx
  <2>5. SendTypes'
    BY <1>0, <2>1, <2>2 DEF SendInv, SendTypes
  <2>6. SendLoop'
    BY <1>0, <2>2, <2>3, FitsEmpty DEF SendLoop
  <2>7. SendPhase'
    BY <1>0, <1>6, <2>2 DEF SendInv, SendPhase, Streaming
  <2> QED BY <1>4, <2>5, <2>6, <2>7 DEF SendInv
<1>7. CASE fsm = "Cancelled" /\ Quiet
  <2>1. fsm' = fsm /\ pending' = <<>>
    BY <1>0, <1>1, <1>2, <1>7
  <2>5. SendTypes'
    BY <1>0, <2>1 DEF SendInv, SendTypes
  <2>6. SendLoop'
    BY <1>0, <1>3, <1>7, <2>1, FitsEmpty DEF SendInv, SendLoop
  <2>7. SendPhase'
    BY <1>0, <1>3, <1>7, <2>1 DEF SendInv, SendPhase, Streaming
  <2> QED BY <1>4, <2>5, <2>6, <2>7 DEF SendInv
<1> QED BY <1>0, <1>5, <1>6, <1>7 DEF SendInv, SendPhase, Streaming

\* The end of a batch.
LEMMA SendEndOfBatch == ASSUME SendInv, EndOfBatch PROVE SendInv'
<1> USE DEF queues, asking, payload, history
<1> DEFINE step == OutboundOn(fsm, Files, Event("user_cancelled"))
           fx == <<SendEffect(Frame("cancel")), Effect("cancelled")>>
<1>0. /\ pc = "effects" /\ batch = <<>> /\ outcome = "none" /\ pending \in Seq(Effects)
      /\ UNCHANGED <<begun, sent, cancelled, outcome, accepted, saidCancel>>
      /\ Fits(pending, fsm) /\ (fsm \notin Active => Ending(pending))
      /\ fsm \in Active \cup {"Done", "Failed", "Cancelled"}
  BY FitsEmpty DEF EndOfBatch, SendInv, SendLoop, SendTypes
<1>1. Quiet' <=> Quiet
  BY <1>0 DEF Quiet
<1>2. OutcomeIsState' /\ StoppedMeansTold'
  BY <1>0 DEF OutcomeIsState, StoppedMeansTold
<1>3. CASE cancelled /\ fsm \in Active
  <2>1. step.state = "Cancelled" /\ step.effects = fx
    BY <1>3, SenderEnds
  <2>2. fsm' = "Cancelled" /\ batch' = pending \o fx /\ pending' = <<>> /\ pc' = pc
    <3>1. /\ fsm' = step.state /\ batch' = pending \o step.effects
          /\ pending' = <<>> /\ pc' = pc
      BY <1>3, Zenon DEF EndOfBatch
    <3> HIDE DEF step, fx
    <3> QED BY <2>1, <3>1
  <2>3. fx \in Seq(Effects)
    BY SenderEffects DEF Terminal
  <2>4. batch' \in Seq(Effects)
    BY <1>0, <2>2, <2>3
  <2>5. Fits(batch', "Cancelled") /\ Announced(batch') /\ Ending(batch')
        /\ (Starts(batch') => Starts(pending))
    BY <1>0, <1>3, <2>2, FitsCancel
  <2> HIDE DEF fx, step
  <2>6. ~accepted /\ Quiet
    BY <1>0, <1>3 DEF SendInv, SendPhase, Active, Streaming
  <2>7. SendTypes'
    BY <1>0, <2>2, <2>4 DEF SendInv, SendTypes
  <2>8. SendLoop'
    BY <1>0, <1>3, <2>2, <2>5, <2>6, FitsEmpty DEF SendLoop
  <2>9. SendPhase'
    BY <1>0, <1>1, <2>2, <2>6 DEF SendInv, SendPhase, Streaming
  <2> QED BY <1>2, <2>7, <2>8, <2>9 DEF SendInv
<1>4. CASE ~cancelled /\ pending = <<>>
  <2>1. UNCHANGED <<fsm, batch, pending>> /\ pc' = "read"
    BY <1>0, <1>4 DEF EndOfBatch
  <2> QED BY <1>0, <1>4, <2>1, SendStays
<1>5. CASE (cancelled /\ fsm \notin Active) \/ (~cancelled /\ pending # <<>>)
  <2>1. fsm' = fsm /\ batch' = pending /\ pending' = <<>> /\ pc' = pc
    <3>1. CASE ~cancelled /\ pending # <<>>
      BY <3>1 DEF EndOfBatch
    <3>2. CASE cancelled /\ fsm \notin Active
      <4>1. step.state = fsm /\ step.effects = <<>>
        BY <1>0, <3>2, SenderEnds
      <4>2. /\ fsm' = step.state /\ batch' = pending \o step.effects
            /\ pending' = <<>> /\ pc' = pc
        BY <3>2, Zenon DEF EndOfBatch
      <4> HIDE DEF step
      <4> QED BY <1>0, <4>1, <4>2
    <3> QED BY <1>5, <3>1, <3>2
  <2>2. SendTypes'
    BY <1>0, <2>1 DEF SendInv, SendTypes
  <2>3. SendLoop'
    BY <1>0, <1>1, <2>1, FitsEmpty DEF SendInv, SendLoop
  <2>4. SendPhase'
    BY <1>0, <1>1, <2>1 DEF SendInv, SendPhase, Streaming
  <2> QED BY <1>2, <2>2, <2>3, <2>4 DEF SendInv
<1> QED BY <1>3, <1>4, <1>5

\* One frame of the peer: nothing has been streamed while the sender reads.
LEMMA SendHandle ==
  ASSUME SendInv, NEW f, Handle(f), pc = "read"
  PROVE  SendInv'
<1> USE DEF queues, asking, payload, history
<1>0. /\ batch = <<>> /\ pending = <<>> /\ outcome = "none" /\ fsm \in Active
  BY FitsEmpty DEF SendInv, SendLoop, SendTypes
<1>1. ~accepted /\ Quiet
  BY <1>0 DEF SendInv, SendPhase, Active, Streaming
<1>2. CASE OnSharing(f)
  <2> DEFINE step == OutboundOn(fsm, Files, FrameEvent(f))
  <2>1. /\ pc' = "effects"
        /\ UNCHANGED <<batch, begun, sent, cancelled, outcome, accepted, saidCancel>>
    BY <1>2 DEF OnSharing
  <2>2. fsm' = step.state /\ pending' = pending \o step.effects
    BY <1>2, Zenon DEF OnSharing, Feed
  <2>3. \/ step.state = fsm /\ step.effects = <<>>
        \/ step.state = "Transferring" /\ step.effects = <<BeginSending(Files)>>
        \/ step.state = "Done" /\ step.effects = <<Effect("done")>>
        \/ step.state = "Cancelled" /\ step.effects = <<Effect("cancelled")>>
        \/ step.state = "Failed" /\ step.effects = <<Effect("failed")>>
    BY <1>0, SenderMoves
  <2> HIDE DEF step
  <2>4. Quiet' <=> Quiet
    BY <2>1 DEF Quiet
  <2>5. ASSUME NEW e \in Effects, step.effects = <<e>>,
               \/ e.effect = "begin_sending" /\ step.state = "Transferring"
               \/ e.effect = "done" /\ step.state = "Done"
               \/ e.effect = "cancelled" /\ step.state = "Cancelled"
               \/ e.effect = "failed" /\ step.state = "Failed"
        PROVE  /\ step.effects \in Seq(Effects) /\ Fits(step.effects, step.state)
               /\ Starts(step.effects) => step.state = "Transferring"
               /\ step.state # "Transferring" => Ending(step.effects)
    BY <2>5, FitsOne
  <2>6. /\ step.effects \in Seq(Effects) /\ Fits(step.effects, step.state)
        /\ Starts(step.effects) => step.state = "Transferring"
        /\ step.state \notin Active => Ending(step.effects)
        /\ step.state \in Active \cup {"Done", "Failed", "Cancelled"}
    <3>1. CASE step.state = fsm /\ step.effects = <<>>
      BY <1>0, <3>1, FitsEmpty
    <3>2. CASE step.state = "Transferring" /\ step.effects = <<BeginSending(Files)>>
      BY <2>5, <3>2, SenderEffects DEF BeginSending, Active
    <3>3. CASE \E e \in Terminal : /\ step.effects = <<Effect(e)>>
                                   /\ \/ e = "done" /\ step.state = "Done"
                                      \/ e = "cancelled" /\ step.state = "Cancelled"
                                      \/ e = "failed" /\ step.state = "Failed"
      BY <2>5, <3>3, SenderEffects DEF Effect, Active
    <3> QED BY <2>3, <3>1, <3>2, <3>3 DEF Terminal
  <2>7. fsm' = step.state /\ pending' = step.effects
    BY <1>0, <2>2, <2>6
  <2>8. SendTypes'
    BY <2>1, <2>6, <2>7 DEF SendInv, SendTypes
  <2>9. SendLoop'
    BY <1>0, <1>1, <2>1, <2>4, <2>6, <2>7, FitsEmpty DEF SendLoop
  <2>10. SendPhase'
    BY <1>1, <2>1, <2>4 DEF SendInv, SendPhase, Streaming
  <2>11. OutcomeIsState' /\ StoppedMeansTold'
    BY <1>0, <2>1 DEF OutcomeIsState, StoppedMeansTold
  <2> QED BY <2>8, <2>9, <2>10, <2>11 DEF SendInv
<1>3. CASE OnUpgrade(f)
  BY <1>3, SendStays DEF OnUpgrade
<1>4. CASE OnDisconnect(f)
  <2>1. sent = Files => Files \ Empty = {}
    BY <1>1 DEF Quiet
  <2> QED BY <1>0, <1>1, <1>4, <2>1, SendReturns DEF OnDisconnect, Active
<1>5. CASE OnOther(f)
  BY <1>5, SendStays DEF OnOther
<1>6. CASE OnBad(f)
  BY <1>6, SendReturns DEF OnBad
<1> QED BY <1>2, <1>3, <1>4, <1>5, <1>6 DEF Handle

\* The waits, the reads that fail and the cancel.
LEMMA SendOther ==
  ASSUME SendInv,
         \/ IoFails \/ WriteBlocks \/ ReadFails \/ WaitOver \/ AdoptEnd \/ PeerReads \/ Cancel
         \/ \E f : WaitFrame(f) \/ AdoptDrain(f)
  PROVE  SendInv'
<1> USE DEF queues, asking, payload, history
<1>1. CASE IoFails \/ ReadFails
  BY <1>1, SendReturns DEF IoFails, ReadFails
<1>1a. CASE WriteBlocks
  BY <1>1a, SendStays DEF WriteBlocks, Doing, Adopting
<1>2. CASE WaitOver
  BY <1>2, SendStays DEF WaitOver, Streaming
<1>3. CASE AdoptEnd
  BY <1>3, SendStays DEF AdoptEnd, Adopting, Streaming
<1>4. CASE PeerReads
  BY <1>4, SendStays DEF PeerReads
<1>5. ASSUME NEW f, WaitFrame(f) \/ AdoptDrain(f) PROVE SendInv'
  BY <1>5, SendStays DEF WaitFrame, AdoptDrain, Streaming
<1>6. CASE Cancel
  <2>1. /\ cancelled' /\ pc # "over"
        /\ UNCHANGED <<pc, fsm, batch, pending, begun, sent, outcome, accepted,
                       saidCancel>>
    BY <1>6 DEF Cancel
  <2>2. Quiet' <=> Quiet
    BY <2>1 DEF Quiet
  <2>3. SendTypes'
    BY <2>1 DEF SendInv, SendTypes
  <2>4. SendLoop'
    BY <2>1, <2>2 DEF SendInv, SendLoop
  <2>5. SendPhase'
    BY <2>1, <2>2 DEF SendInv, SendPhase
  <2>6. OutcomeIsState' /\ StoppedMeansTold'
    BY <2>1 DEF SendInv, OutcomeIsState, StoppedMeansTold
  <2> QED BY <2>3, <2>4, <2>5, <2>6 DEF SendInv
<1> QED BY <1>1, <1>1a, <1>2, <1>3, <1>4, <1>5, <1>6

\* Every step of the sender and of its peer preserves the invariant.
LEMMA SendStep == SendInv /\ [Next]_(vars) => SendInv'
<1> SUFFICES ASSUME SendInv, [Next]_(vars) PROVE SendInv'
  OBVIOUS
<1>1. CASE DoSend \/ DoBeginSending \/ DoDone \/ DoCancelled \/ DoFailed
  BY <1>1, SendDoing
<1>2. CASE StreamChunk \/ StreamLast
  BY <1>2, SendStream
<1>3. CASE StreamEnd
  BY <1>3, SendStreamEnd
<1>4. CASE EndOfBatch
  BY <1>4, SendEndOfBatch
<1>5. CASE Replay
  BY <1>5, SendHandle DEF Replay
<1>6. CASE PeerSends
  <2>1. PICK f : Receive(f) \/ WaitFrame(f) \/ AdoptDrain(f)
    BY <1>6, Zenon DEF PeerSends
  <2> QED BY <2>1, SendHandle, SendOther DEF Receive
<1>7. CASE IoFails \/ WriteBlocks \/ ReadFails \/ WaitOver \/ AdoptEnd \/ PeerReads \/ Cancel
  BY <1>7, SendOther
<1>8. CASE UNCHANGED vars
  BY <1>8, SendStays DEF vars
<1> QED BY <1>1, <1>2, <1>3, <1>4, <1>5, <1>6, <1>7, <1>8 DEF Next, Perform

\* No byte of any file leaves before the peer's acceptance was acted on, and no
\* two files are on the wire at once, whatever the peer sends and however the
\* upgrade question is answered.
THEOREM PayloadHeld == Spec => []PayloadAfterAcceptance
<1>1. SendInv => PayloadAfterAcceptance
  <2> SUFFICES ASSUME SendInv PROVE PayloadAfterAcceptance
    OBVIOUS
  <2> DEFINE open == begun \ sent
  <2>1. \A f, g \in open : f = g
    BY DEF SendInv, SendPhase
  <2>2. begun \cup sent # {} => accepted
    BY DEF SendInv, SendPhase, Quiet
  <2> HIDE DEF open
  <2>3. Cardinality(open) =< 1
    <3>1. CASE open = {}
      BY <3>1, FS_EmptySet
    <3>2. CASE open # {}
      <4>1. PICK f : open = {f}
        BY <2>1, <3>2
      <4>2. Cardinality({f}) = 1
        BY FS_Singleton
      <4> QED BY <4>1, <4>2
    <3> QED BY <3>1, <3>2
  <2> QED BY <2>2, <2>3, Zenon DEF PayloadAfterAcceptance, open
<1> QED BY <1>1, SendInit, SendStep, PTL DEF Spec

\* A send that ends part-way through the payload, other than by an error, has
\* told the peer so.
THEOREM PeerTold == Spec => []StoppedMeansTold
<1>1. SendInv => StoppedMeansTold
  BY DEF SendInv
<1> QED BY <1>1, SendInit, SendStep, PTL DEF Spec

\* send() returns what the machine's state and the files sent say, whatever came
\* last off the socket.
THEOREM SenderOutcome == Spec => []OutcomeIsState
<1>1. SendInv => OutcomeIsState
  BY DEF SendInv
<1> QED BY <1>1, SendInit, SendStep, PTL DEF Spec
=============================================================================
