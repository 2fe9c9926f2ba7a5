------------------------------- MODULE QsPair -------------------------------
(***************************************************************************)
(* A Quick Share transfer over the LAN between two devices running this    *)
(* daemon: the sender of QsSend and the receiver of QsReceive, joined by   *)
(* the two directions of one TCP connection.  Each direction is a FIFO     *)
(* that loses nothing until its writer returns and closes it; what was     *)
(* written before can still be read.  The network may also drop the        *)
(* connection at any time, with all that was not read yet; whether a side  *)
(* that only reads ever learns of that is left open.                       *)
(***************************************************************************)
EXTENDS Integers, Sequences, FiniteSets

CONSTANTS Files    \* the files to send

\* There is something to send: the receiving machine refuses an introduction
\* of nothing (QsReceive covers that).
ASSUME PairAssumption == Files # {}

VARIABLES
    toReceiver, toSender,                           \* the two directions
    cut,                                            \* the network dropped the connection
    s_pc, s_fsm, s_batch, s_pending, s_deferred, s_solicited, s_deadline, s_moved, s_begun, s_sent,
    s_cancelled, s_outcome, s_accepted, s_saidCancel,
    r_pc, r_fsm, r_introduction, r_batch, r_pending, r_deferred, r_upgraded, r_attempts,
    r_hosting, r_held, r_expected, r_sinks, r_written, r_cancelled, r_outcome, r_shown,
    r_approved, r_inbox, r_whole

Snd == INSTANCE QsSend WITH
        Empty <- {}, Slow <- FALSE, Safe <- TRUE, DeferCap <- 0, MaxOut <- 0,
        pc <- s_pc, fsm <- s_fsm, batch <- s_batch, pending <- s_pending,
        deferred <- s_deferred, solicited <- s_solicited, deadline <- s_deadline,
        moved <- s_moved, begun <- s_begun, sent <- s_sent, cancelled <- s_cancelled, outcome <- s_outcome,
        out <- toReceiver, accepted <- s_accepted, saidCancel <- s_saidCancel

Rcv == INSTANCE QsReceive WITH
        Texts <- {}, Slow <- FALSE, DeferCap <- 0, MaxDeferred <- 0, MaxOut <- 0,
        pc <- r_pc, fsm <- r_fsm, introduction <- r_introduction, batch <- r_batch,
        pending <- r_pending, deferred <- r_deferred, upgraded <- r_upgraded,
        attempts <- r_attempts, hosting <- r_hosting, held <- r_held, expected <- r_expected,
        sinks <- r_sinks, written <- r_written, cancelled <- r_cancelled,
        outcome <- r_outcome, out <- toSender, shown <- r_shown, approved <- r_approved,
        inbox <- r_inbox, whole <- r_whole

sender == <<s_pc, s_fsm, s_batch, s_pending, s_deferred, s_solicited, s_deadline, s_moved,
            s_begun, s_sent, s_cancelled, s_outcome, s_accepted, s_saidCancel>>
receiver == <<r_pc, r_fsm, r_introduction, r_batch, r_pending, r_deferred, r_upgraded,
              r_attempts, r_hosting, r_held, r_expected, r_sinks, r_written, r_cancelled,
              r_outcome, r_shown, r_approved, r_inbox, r_whole>>
pairVars == <<toReceiver, toSender, cut, sender, receiver>>

PairInit == Snd!Init /\ Rcv!Init /\ cut = FALSE

-----------------------------------------------------------------------------
\* What a side does without reading.  Over the LAN nobody defers a frame.  A
\* write after the cut goes into a buffer nobody reads.
SenderWorks ==
    /\ \/ Snd!DoSend \/ Snd!DoBeginSending \/ Snd!DoDone \/ Snd!DoCancelled
       \/ Snd!StreamChunk \/ Snd!StreamLast \/ Snd!StreamEnd \/ Snd!EndOfBatch
    /\ UNCHANGED <<toSender, cut, receiver>>

ReceiverWorks ==
    /\ \/ Rcv!DoSend \/ Rcv!DoAskUser \/ Rcv!DoBeginReceiving \/ Rcv!DoDone \/ Rcv!DoCancelled
       \/ Rcv!EndOfBatch \/ \E yes \in BOOLEAN : Rcv!Answered(yes)
    /\ UNCHANGED <<toReceiver, cut, sender>>

\* A frame is read by the side that is waiting for one.  Handling it may write
\* to the other direction.
SenderReads ==
    /\ ~cut
    /\ toSender # <<>>
    /\ Snd!Receive(Head(toSender))
    /\ toSender' = Tail(toSender)
    /\ UNCHANGED <<cut, receiver>>

ReceiverReads ==
    /\ ~cut
    /\ toReceiver # <<>>
    /\ Rcv!Receive(Head(toReceiver))
    /\ toReceiver' = Tail(toReceiver)
    /\ UNCHANGED <<cut, sender>>

\* The connection is gone, or the other side has returned and everything it
\* wrote has been read.
SenderSeesClose ==
    /\ cut \/ (r_pc = "over" /\ toSender = <<>>)
    /\ Snd!ReadFails
    /\ UNCHANGED <<toSender, cut, receiver>>

ReceiverSeesClose ==
    /\ cut \/ (s_pc = "over" /\ toReceiver = <<>>)
    /\ Rcv!ReadFails
    /\ UNCHANGED <<toReceiver, cut, sender>>

\* Writing to a side that cannot be reached may fail.
SenderWriteFails == (cut \/ r_pc = "over") /\ Snd!IoFails /\ UNCHANGED <<toSender, cut, receiver>>
ReceiverWriteFails == (cut \/ s_pc = "over") /\ Rcv!WriteFails /\ UNCHANGED <<toReceiver, cut, sender>>

\* Either person may cancel at any time.
SenderCancels == Snd!Cancel /\ UNCHANGED <<toSender, cut, receiver>>
ReceiverCancels == Rcv!Cancel /\ UNCHANGED <<toReceiver, cut, sender>>

Drop ==
    /\ ~cut
    /\ cut' = TRUE
    /\ UNCHANGED <<toReceiver, toSender, sender, receiver>>

PairNext ==
    \/ SenderWorks \/ SenderReads \/ SenderSeesClose \/ SenderWriteFails \/ SenderCancels
    \/ ReceiverWorks \/ ReceiverReads \/ ReceiverSeesClose \/ ReceiverWriteFails
    \/ ReceiverCancels
    \/ Drop

\* Both threads keep running, what is written arrives, and a close is seen.
\* A connection the network dropped need not be noticed: the sockets have a
\* write timeout and deliberately no read timeout.  Nobody has to cancel.
PairFairness ==
    /\ WF_pairVars(SenderWorks) /\ WF_pairVars(SenderReads)
    /\ WF_pairVars(~cut /\ SenderSeesClose)
    /\ WF_pairVars(ReceiverWorks) /\ WF_pairVars(ReceiverReads)
    /\ WF_pairVars(~cut /\ ReceiverSeesClose)

PairSpec == PairInit /\ [][PairNext]_pairVars /\ PairFairness

-----------------------------------------------------------------------------
(* Properties *)

\* Every transfer ends, on both devices, whatever the person answers and
\* whoever cancels when: neither side waits for a frame the other will not send.
\* Only after a silent loss of the network may a side be left, and then in the
\* read for the peer's next word, never with work of its own undone.
BothEnd ==
    <>[](/\ s_pc = "over" \/ (cut /\ s_pc = "read")
         /\ r_pc = "over" \/ (cut /\ r_pc = "read"))

\* What each side reports about the other.  A receiver that reports a finished,
\* approved transfer has every file whole; a sender told "true" has sent every
\* file, or was refused (a refusal ends in Done as well, so "true" alone does not
\* say that "every file went"); a sender told "false" did not deliver
\* everything; two sides that both run to their own end agree; and the receiver
\* holds only what the sender has put on the wire, none of which is refused as
\* unannounced.
Agreement ==
    /\ r_outcome = "received" /\ r_fsm = "Done" /\ r_approved # {} =>
          r_whole = Files /\ s_sent = Files
    /\ s_outcome = "true" => s_sent = Files \/ (r_fsm = "Done" /\ r_approved = {})
    /\ s_outcome = "false" => r_whole # Files
    /\ s_outcome = "false" /\ r_outcome # "none" => r_outcome # "received" \/ r_written = {}
    /\ r_whole \subseteq s_sent
    /\ r_written \subseteq s_begun
    /\ r_fsm # "Failed" /\ s_fsm # "Failed"
=============================================================================
