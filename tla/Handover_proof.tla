--------------------------- MODULE Handover_proof ---------------------------
(***************************************************************************)
(* The bandwidth handover (Handover), for any number of offers, requests   *)
(* and frames: whatever fails, it implements an ordered conversation       *)
(* (Conversation), and without a fault both ends move.                     *)
(*                                                                         *)
(* InOrder needs a ledger for each end: how much of the conversation it    *)
(* had said by each sequence number.  Only numbers tell the two sockets    *)
(* and the queue of deferred frames apart, so what an end heard, with what *)
(* it has set aside, is what the ledger says up to the number it reached.  *)
(*                                                                         *)
(* CleanMove needs to know where the two threads can be together, and what *)
(* is on the first socket meanwhile: without a fault it carries each end's *)
(* numbers without a gap, offers in the order they were made, and an end's *)
(* release after all else it wrote there (Staged).                         *)
(***************************************************************************)
EXTENDS Handover, SequenceTheorems, TLAPS

-----------------------------------------------------------------------------
(* An ordered conversation: what an end has kept, and the ledgers *)

\* A ledger k of one end tells, for every sequence number, how many frames of
\* the conversation that end had said up to it.  A frame agrees with it.
Stamp(k, f) ==
    IF f.kind = "data" THEN f.n = k[f.seq] /\ k[f.seq] = k[f.seq - 1] + 1
                       ELSE k[f.seq] = k[f.seq - 1]

\* The receiving end has decrypted up to number r: what it heard (h) and what it
\* has set aside (d) are together exactly what was said up to r, in order.
Kept(k, top, r, d, h) ==
    /\ r \in 0 .. top
    /\ \A i \in 1 .. Len(d) : d[i].seq \in 1 .. top /\ Stamp(k, d[i])
    /\ d = <<>> => Len(h) = k[r]
    /\ d # <<>> => /\ Len(h) = k[d[1].seq - 1]
                   /\ \A i \in 1 .. Len(d) - 1 : k[d[i].seq] = k[d[i + 1].seq - 1]
                   /\ k[d[Len(d)].seq] = k[r]

\* A frame with its number; an offer names a socket.
Numbered == {f \in [seq : Nat, kind : Kinds, n : Nat] : f.kind = "path" => f.n \in Sockets}

\* How much was said, by number.
Ledgers == [Nat -> Nat]

\* The next frame is set aside.
LEMMA KeptDeferred ==
  ASSUME NEW k \in Ledgers, NEW top \in Nat, NEW r \in Nat, NEW d \in Seq(Numbered),
         NEW h \in Seq(Nat), Kept(k, top, r, d, h),
         NEW f \in Numbered, f.seq = r + 1, r + 1 =< top, Stamp(k, f)
  PROVE  Kept(k, top, r + 1, Append(d, f), h)
<1> DEFINE q == Append(d, f)
<1>0. Len(d) \in Nat /\ Len(q) = Len(d) + 1 /\ q # <<>>
  <2>1. Len(d) \in Nat
    OBVIOUS
  <2> QED BY <2>1, AppendProperties
<1>1. (\A i \in 1 .. Len(d) : q[i] = d[i]) /\ q[Len(d) + 1] = f
  BY AppendProperties
<1> HIDE DEF q
<1>2. \A i \in 1 .. Len(q) : q[i].seq \in 1 .. top /\ Stamp(k, q[i])
  <2>1. f.seq \in 1 .. top
    OBVIOUS
  <2>2. \A i \in 1 .. Len(q) : i \in 1 .. Len(d) \/ i = Len(d) + 1
    BY <1>0
  <2> QED BY <1>1, <2>1, <2>2 DEF Kept
<1>3. CASE d = <<>>
  <2>1. Len(d) = 0 /\ q[1] = f /\ Len(q) = 1
    BY <1>0, <1>1, <1>3
  <2>2. Len(h) = k[q[1].seq - 1]
    BY <1>3, <2>1 DEF Kept
  <2>3. Kept(k, top, r + 1, q, h)
    BY <1>0, <1>2, <2>1, <2>2 DEF Kept
  <2> QED BY <2>3 DEF q
<1>4. CASE d # <<>>
  <2>1. Len(d) > 0 /\ 1 \in 1 .. Len(d) /\ Len(d) \in 1 .. Len(d) /\ q[1] = d[1]
    BY <1>1, <1>4
  <2>2. \A i \in 1 .. Len(q) - 1 : k[q[i].seq] = k[q[i + 1].seq - 1]
    <3> SUFFICES ASSUME NEW i \in 1 .. Len(q) - 1 PROVE k[q[i].seq] = k[q[i + 1].seq - 1]
      OBVIOUS
    <3>1. CASE i = Len(d)
      <4>1. q[i] = d[Len(d)] /\ q[i + 1].seq - 1 = r
        <5>1. q[i] = d[Len(d)] /\ q[i + 1] = f
          BY <1>1, <2>1, <3>1
        <5>2. f.seq - 1 = r
          OBVIOUS
        <5> QED BY <5>1, <5>2
      <4> QED BY <1>4, <4>1 DEF Kept
    <3>2. CASE i < Len(d)
      <4>1. i \in 1 .. Len(d) - 1 /\ i \in 1 .. Len(d) /\ i + 1 \in 1 .. Len(d)
        BY <1>0, <3>2
      <4>2. q[i] = d[i] /\ q[i + 1] = d[i + 1]
        BY <1>1, <4>1
      <4> QED BY <1>4, <4>1, <4>2 DEF Kept
    <3> QED BY <1>0, <3>1, <3>2
  <2>3. Len(h) = k[q[1].seq - 1] /\ k[q[Len(q)].seq] = k[r + 1]
    BY <1>0, <1>1, <1>4, <2>1 DEF Kept
  <2>4. Kept(k, top, r + 1, q, h)
    BY <1>0, <1>2, <2>2, <2>3 DEF Kept
  <2> QED BY <2>4 DEF q
<1> QED BY <1>3, <1>4

\* The next frame is taken, and is not of the conversation.
LEMMA KeptSkipped ==
  ASSUME NEW k \in Ledgers, NEW top \in Nat, NEW r \in Nat, NEW d \in Seq(Numbered),
         NEW h \in Seq(Nat), Kept(k, top, r, d, h),
         NEW f \in Numbered, f.seq = r + 1, r + 1 =< top, Stamp(k, f), f.kind # "data"
  PROVE  Kept(k, top, r + 1, d, h)
<1>1. k[r + 1] = k[r]
  BY DEF Stamp
<1> QED BY <1>1 DEF Kept

\* The next frame is heard.
LEMMA KeptHeard ==
  ASSUME NEW k \in Ledgers, NEW top \in Nat, NEW r \in Nat, NEW h \in Seq(Nat),
         Kept(k, top, r, <<>>, h),
         NEW f \in Numbered, f.seq = r + 1, r + 1 =< top, Stamp(k, f), f.kind = "data"
  PROVE  /\ f.n = Len(h) + 1 /\ f.n = k[r + 1]
         /\ Kept(k, top, r + 1, <<>>, Append(h, f.n))
<1>1. f.n = k[r + 1] /\ k[r + 1] = k[r] + 1 /\ Len(h) = k[r]
  BY DEF Stamp, Kept
<1>2. Len(Append(h, f.n)) = Len(h) + 1
  OBVIOUS
<1> QED BY <1>1, <1>2 DEF Kept

\* The oldest frame set aside is taken, and heard if it is of the conversation.
LEMMA KeptReplayed ==
  ASSUME NEW k \in Ledgers, NEW top \in Nat, NEW r \in Nat, NEW d \in Seq(Numbered),
         NEW h \in Seq(Nat), Kept(k, top, r, d, h), d # <<>>
  PROVE  /\ Head(d).kind # "data" => Kept(k, top, r, Tail(d), h)
         /\ Head(d).kind = "data" =>
               /\ Head(d).n = Len(h) + 1 /\ Head(d).n = k[Head(d).seq]
               /\ Kept(k, top, r, Tail(d), Append(h, Head(d).n))
<1> DEFINE q == Tail(d)  f == Head(d)
<1>0. Len(d) \in Nat /\ Len(d) > 0 /\ Len(q) = Len(d) - 1 /\ f = d[1] /\ q \in Seq(Numbered)
  OBVIOUS
<1>1. /\ \A i \in 1 .. Len(q) : q[i] = d[i + 1] /\ i + 1 \in 1 .. Len(d)
      /\ \A i \in 1 .. Len(q) - 1 : /\ i \in 1 .. Len(q) /\ i + 1 \in 1 .. Len(q)
                                    /\ i + 1 \in 1 .. Len(d) - 1
      /\ q # <<>> => 1 \in 1 .. Len(q) /\ Len(q) \in 1 .. Len(q) /\ 1 \in 1 .. Len(d) - 1
      /\ q = <<>> => Len(d) = 1
  <2>1. \A i \in 1 .. Len(q) : q[i] = d[i + 1]
    BY HeadTailProperties
  <2> HIDE DEF q, f
  <2>2. (q # <<>> => Len(q) > 0) /\ (q = <<>> => Len(q) = 0) /\ Len(q) \in Nat
    BY <1>0, EmptySeq
  <2> QED BY <1>0, <2>1, <2>2
<1>2. f \in Numbered /\ f.seq \in 1 .. top /\ Stamp(k, f) /\ Len(h) = k[f.seq - 1]
  BY <1>0 DEF Kept
<1> HIDE DEF q, f
<1>3. \A x \in Seq(Nat) : Len(x) = k[f.seq] => Kept(k, top, r, q, x)
  <2> SUFFICES ASSUME NEW x \in Seq(Nat), Len(x) = k[f.seq] PROVE Kept(k, top, r, q, x)
    OBVIOUS
  <2>1. r \in 0 .. top /\ \A i \in 1 .. Len(q) : q[i].seq \in 1 .. top /\ Stamp(k, q[i])
    BY <1>1 DEF Kept
  <2>2. q = <<>> => Len(x) = k[r]
    BY <1>0, <1>1 DEF Kept
  <2>3. q # <<>> => Len(x) = k[q[1].seq - 1]
    BY <1>0, <1>1 DEF Kept
  <2>4. ASSUME NEW i \in 1 .. Len(q) - 1 PROVE k[q[i].seq] = k[q[i + 1].seq - 1]
    <3>1. q[i] = d[i + 1] /\ q[i + 1] = d[i + 2] /\ i + 1 \in 1 .. Len(d) - 1 /\ (i + 1) + 1 = i + 2
      BY <1>1
    <3>2. k[d[i + 1].seq] = k[d[(i + 1) + 1].seq - 1]
      BY <3>1 DEF Kept
    <3> QED BY <3>1, <3>2
  <2>5. q # <<>> => k[q[Len(q)].seq] = k[r]
    <3>1. q # <<>> => q[Len(q)] = d[Len(q) + 1]
      BY <1>1
    <3>2. Len(q) + 1 = Len(d)
      BY <1>0
    <3> QED BY <3>1, <3>2 DEF Kept
  <2> QED BY <2>1, <2>2, <2>3, <2>4, <2>5 DEF Kept
<1>4. ASSUME f.kind # "data" PROVE Kept(k, top, r, q, h)
  <2>1. k[f.seq] = k[f.seq - 1]
    BY <1>4, <1>2 DEF Stamp
  <2> QED BY <1>2, <1>3, <2>1
<1>5. ASSUME f.kind = "data"
      PROVE  f.n = Len(h) + 1 /\ f.n = k[f.seq] /\ Kept(k, top, r, q, Append(h, f.n))
  <2>1. f.n = k[f.seq] /\ k[f.seq] = k[f.seq - 1] + 1
    BY <1>5, <1>2 DEF Stamp
  <2>2. f.n \in Nat
    BY <1>2 DEF Numbered
  <2>3. Append(h, f.n) \in Seq(Nat) /\ Len(Append(h, f.n)) = Len(h) + 1
    BY <2>2
  <2> QED BY <1>2, <1>3, <2>1, <2>3
<1> QED BY <1>4, <1>5 DEF q, f

\* What is kept is kept by a longer ledger that agrees so far.
LEMMA KeptLonger ==
  ASSUME NEW k \in Ledgers, NEW x \in Ledgers, NEW top \in Nat, NEW more \in Nat, top =< more,
         NEW r \in Nat, NEW d \in Seq(Numbered), NEW h \in Seq(Nat), Kept(k, top, r, d, h),
         \A i \in 0 .. top : x[i] = k[i]
  PROVE  Kept(x, more, r, d, h)
<1>1. r \in 0 .. top /\ r \in 0 .. more /\ x[r] = k[r]
  BY DEF Kept
<1>2. \A i \in 1 .. Len(d) : /\ d[i].seq \in 1 .. more
                             /\ x[d[i].seq] = k[d[i].seq] /\ x[d[i].seq - 1] = k[d[i].seq - 1]
                             /\ Stamp(x, d[i])
  <2> SUFFICES ASSUME NEW i \in 1 .. Len(d)
               PROVE  /\ d[i].seq \in 1 .. more
                      /\ x[d[i].seq] = k[d[i].seq] /\ x[d[i].seq - 1] = k[d[i].seq - 1]
                      /\ Stamp(x, d[i])
    OBVIOUS
  <2>1. d[i].seq \in 1 .. top /\ Stamp(k, d[i])
    BY DEF Kept
  <2>2. d[i].seq \in 0 .. top /\ d[i].seq - 1 \in 0 .. top
    BY <2>1
  <2> QED BY <2>1, <2>2 DEF Stamp
<1>3. Len(d) \in Nat /\ (d # <<>> => 1 \in 1 .. Len(d) /\ Len(d) \in 1 .. Len(d))
  OBVIOUS
<1>4. \A i \in 1 .. Len(d) - 1 : i \in 1 .. Len(d) /\ i + 1 \in 1 .. Len(d)
  BY <1>3
<1> QED BY <1>1, <1>2, <1>3, <1>4 DEF Kept

-----------------------------------------------------------------------------
(* What is on the wires *)

\* What may be on the sockets to each end.
Wires == [Ends -> [Sockets -> Seq(Numbered)]]

\* Frame f is on its way to end e.
OnWire(w, e, f) == \E s \in Sockets : \E i \in 1 .. Len(w[e][s]) : w[e][s][i] = f

\* A write adds at most the frame written, for the other end.
LEMMA WirePut ==
  ASSUME NEW w \in Wires, NEW e \in Ends, NEW s \in Sockets, NEW f \in Numbered
  PROVE  /\ Put(w, e, s, f) \in Wires
         /\ \A d \in Ends : \A g : OnWire(Put(w, e, s, f), d, g) =>
               OnWire(w, d, g) \/ (d = Other(e) /\ g = f)
<1> DEFINE o == Other(e)
           x == [w EXCEPT ![o][s] = Append(@, f)]
           p == Put(w, e, s, f)
<1>0. p = x \/ p = w
  BY Zenon DEF Put
<1>1. o \in Ends
  BY DEF Ends, Other
<1>2. w[o][s] \in Seq(Numbered) /\ Append(w[o][s], f) \in Seq(Numbered)
  BY <1>1 DEF Wires
<1>3. x \in Wires
  BY <1>1, <1>2 DEF Wires
<1>4. \A d \in Ends, t \in Sockets :
         x[d][t] = IF d = o /\ t = s THEN Append(w[o][s], f) ELSE w[d][t]
  BY <1>1 DEF Wires
<1> HIDE DEF x, o
<1>5. ASSUME NEW d \in Ends, NEW g, OnWire(x, d, g) PROVE OnWire(w, d, g) \/ (d = o /\ g = f)
  <2>1. PICK t \in Sockets : \E i \in 1 .. Len(x[d][t]) : x[d][t][i] = g
    BY <1>5 DEF OnWire
  <2>2. PICK i \in 1 .. Len(x[d][t]) : x[d][t][i] = g
    BY <2>1
  <2>3. CASE d = o /\ t = s
    <3>1. /\ Len(Append(w[o][s], f)) = Len(w[o][s]) + 1 /\ Len(w[o][s]) \in Nat
          /\ \A j \in 1 .. Len(w[o][s]) : Append(w[o][s], f)[j] = w[o][s][j]
          /\ Append(w[o][s], f)[Len(w[o][s]) + 1] = f
      BY <1>2, AppendProperties
    <3>2. x[d][t] = Append(w[o][s], f)
      BY <1>4, <2>3
    <3>3. CASE i = Len(w[o][s]) + 1
      BY <2>2, <2>3, <3>1, <3>2, <3>3
    <3>4. CASE i # Len(w[o][s]) + 1
      <4>1. i \in 1 .. Len(w[o][s])
        BY <3>1, <3>2, <3>4
      <4>2. w[d][t][i] = g
        BY <2>2, <2>3, <3>1, <3>2, <4>1
      <4> QED BY <2>3, <4>1, <4>2 DEF OnWire
    <3> QED BY <3>3, <3>4
  <2>4. CASE ~(d = o /\ t = s)
    <3>1. x[d][t] = w[d][t]
      BY <1>4, <2>4
    <3> QED BY <2>2, <3>1 DEF OnWire
  <2> QED BY <2>3, <2>4
<1>6. p \in Wires
  BY <1>0, <1>3
<1>7. ASSUME NEW d \in Ends, NEW g, OnWire(p, d, g) PROVE OnWire(w, d, g) \/ (d = o /\ g = f)
  BY <1>0, <1>5, <1>7
<1> QED BY <1>6, <1>7 DEF o

\* Reading a frame off a socket.
LEMMA WireTook ==
  ASSUME wire \in Wires, NEW e \in Ends, NEW s \in Sockets, Arrived(e, s)
  PROVE  /\ Took(e, s) \in Wires
         /\ \A d \in Ends : \A g : OnWire(Took(e, s), d, g) => OnWire(wire, d, g)
         /\ Head(wire[e][s]) \in Numbered /\ OnWire(wire, e, Head(wire[e][s]))
<1> DEFINE q == wire[e][s]
           x == Took(e, s)
<1>1. q \in Seq(Numbered) /\ q # <<>>
  BY DEF Wires, Arrived
<1>2. /\ Len(q) \in Nat /\ Len(q) > 0 /\ Head(q) = q[1] /\ Head(q) \in Numbered
      /\ Tail(q) \in Seq(Numbered) /\ Len(Tail(q)) = Len(q) - 1
      /\ \A i \in 1 .. Len(Tail(q)) : Tail(q)[i] = q[i + 1]
  BY <1>1, HeadTailProperties
<1>3. \A d \in Ends, t \in Sockets : x[d][t] = IF d = e /\ t = s THEN Tail(q) ELSE wire[d][t]
  BY DEF Wires, Took
<1>4. x \in Wires
  BY <1>2 DEF Wires, Took
<1>5. OnWire(wire, e, Head(q))
  <2>1. 1 \in 1 .. Len(q)
    BY <1>2
  <2> QED BY <1>2, <2>1 DEF OnWire
<1> HIDE DEF x
<1>6. ASSUME NEW d \in Ends, NEW g, OnWire(x, d, g) PROVE OnWire(wire, d, g)
  <2>1. PICK t \in Sockets : \E i \in 1 .. Len(x[d][t]) : x[d][t][i] = g
    BY <1>6 DEF OnWire
  <2>2. PICK i \in 1 .. Len(x[d][t]) : x[d][t][i] = g
    BY <2>1
  <2>3. CASE d = e /\ t = s
    <3>1. x[d][t] = Tail(q)
      BY <1>3, <2>3
    <3>2. i + 1 \in 1 .. Len(q) /\ q[i + 1] = g
      BY <1>2, <2>2, <3>1
    <3> QED BY <2>3, <3>2 DEF OnWire
  <2>4. CASE ~(d = e /\ t = s)
    <3>1. x[d][t] = wire[d][t]
      BY <1>3, <2>4
    <3> QED BY <2>2, <3>1 DEF OnWire
  <2> QED BY <2>3, <2>4
<1> QED BY <1>2, <1>4, <1>5, <1>6 DEF x

\* Closing a socket.
LEMMA WireWithout ==
  ASSUME NEW w \in Wires, NEW e \in Ends, NEW s \in Sockets
  PROVE  /\ Without(w, e, s) \in Wires
         /\ \A d \in Ends : \A g : OnWire(Without(w, e, s), d, g) => OnWire(w, d, g)
<1> DEFINE x == Without(w, e, s)
<1>1. \A d \in Ends, t \in Sockets : x[d][t] = IF d = e /\ t = s THEN <<>> ELSE w[d][t]
  BY DEF Wires, Without
<1>2. x \in Wires
  BY DEF Wires, Without
<1> HIDE DEF x
<1>3. ASSUME NEW d \in Ends, NEW g, OnWire(x, d, g) PROVE OnWire(w, d, g)
  <2>1. PICK t \in Sockets : \E i \in 1 .. Len(x[d][t]) : x[d][t][i] = g
    BY <1>3 DEF OnWire
  <2>2. x[d][t] = w[d][t]
    BY <1>1, <2>1
  <2> QED BY <2>1, <2>2 DEF OnWire
<1> QED BY <1>2, <1>3 DEF x

-----------------------------------------------------------------------------
(* The invariant of the handover, and what a step of one end may do to it *)

\* The ends are on sockets, and the offers never run out of them.
Placed ==
    /\ sock \in [Ends -> Sockets]
    /\ attempts \in Sockets /\ (~offered => attempts =< MAX_UPGRADE_ATTEMPTS)
    /\ path \in Sockets

\* The parts of the state the ledgers are about.
HandoverTypes ==
    /\ MAX_UPGRADE_ATTEMPTS \in Nat
    /\ wire \in Wires
    /\ Placed
    /\ sendSeq \in [Ends -> Nat] /\ recvSeq \in [Ends -> Nat]
    /\ deferred \in [Ends -> Seq(Numbered)]
    /\ said \in [Ends -> Nat] /\ heard \in [Ends -> Seq(Nat)]

\* Every frame that can still be read agrees with its writer's ledger, and each
\* end has kept exactly what the other had said up to the number it has reached.
Ledger(c) ==
    /\ c \in [Ends -> Ledgers]
    /\ \A e \in Ends : \A i \in Nat :
          c[e][i] =< said[e] /\ (i >= sendSeq[e] => c[e][i] = said[e])
    /\ \A e \in Ends : \A f : OnWire(wire, e, f) /\ f.seq # 0 =>
          f.seq =< sendSeq[Other(e)] /\ Stamp(c[Other(e)], f)
    /\ \A e \in Ends : Kept(c[Other(e)], sendSeq[Other(e)], recvSeq[e],
                              deferred[e], heard[e])

\* Some ledgers account for what both ends have said, kept and heard.
HandoverInv == HandoverTypes /\ \E c : Ledger(c)

\* End e writes at most one numbered frame, not of the conversation.
Writes(e) ==
    /\ wire' \in Wires /\ said' = said
    /\ sendSeq' = sendSeq \/ sendSeq' = [sendSeq EXCEPT ![e] = @ + 1]
    /\ \A d \in Ends : \A g : OnWire(wire', d, g) =>
          \/ OnWire(wire, d, g)
          \/ g.seq = 0
          \/ /\ d = Other(e) /\ g.seq = sendSeq[e] + 1 /\ g.kind # "data"
             /\ sendSeq' = [sendSeq EXCEPT ![e] = @ + 1]

\* End e decrypts the next frame or takes the oldest one set aside.
Decrypts(e) ==
    \E f \in Numbered :
       /\ OnWire(wire, e, f) /\ f.seq = recvSeq[e] + 1
       /\ recvSeq' = [recvSeq EXCEPT ![e] = f.seq]
       /\ \/ deferred' = [deferred EXCEPT ![e] = Append(@, f)] /\ UNCHANGED heard
          \/ f.kind # "data" /\ UNCHANGED <<deferred, heard>>
          \/ /\ f.kind = "data" /\ deferred[e] = <<>> /\ UNCHANGED deferred
             /\ heard' = [heard EXCEPT ![e] = Append(@, f.n)]

\* End e takes the oldest frame it set aside.
Replays(e) ==
    LET f == Head(deferred[e])
    IN  /\ deferred[e] # <<>> /\ UNCHANGED recvSeq
        /\ deferred' = [deferred EXCEPT ![e] = Tail(@)]
        /\ \/ f.kind # "data" /\ UNCHANGED heard
           \/ f.kind = "data" /\ heard' = [heard EXCEPT ![e] = Append(@, f.n)]

\* What an end may do with what was sent to it.
Reads(e) == UNCHANGED <<recvSeq, deferred, heard>> \/ Decrypts(e) \/ Replays(e)

\* The ends are each other's other.
LEMMA OtherEnd ==
  ASSUME NEW e \in Ends
  PROVE  Other(e) \in Ends /\ Other(e) # e /\ Other(Other(e)) = e
  BY DEF Ends, Other, H, S

\* The ledgers outlive any such write.
LEMMA WritesKeep ==
  ASSUME HandoverTypes, NEW c, Ledger(c), NEW e \in Ends, Writes(e)
  PROVE  /\ sendSeq' \in [Ends -> Nat]
         /\ \A d \in Ends : sendSeq[d] =< sendSeq'[d]
         /\ \A d \in Ends : \A i \in Nat :
               c[d][i] =< said'[d] /\ (i >= sendSeq'[d] => c[d][i] = said'[d])
         /\ \A d \in Ends : \A f : OnWire(wire', d, f) /\ f.seq # 0 =>
               f.seq =< sendSeq'[Other(d)] /\ Stamp(c[Other(d)], f)
<1>1. sendSeq \in [Ends -> Nat] /\ said \in [Ends -> Nat]
  BY DEF HandoverTypes
<1>2. sendSeq' \in [Ends -> Nat] /\ \A d \in Ends : sendSeq[d] =< sendSeq'[d]
  BY <1>1 DEF Writes
<1>3. \A d \in Ends : \A i \in Nat :
         c[d][i] =< said'[d] /\ (i >= sendSeq'[d] => c[d][i] = said'[d])
  BY <1>1, <1>2 DEF Writes, Ledger
<1>4. ASSUME NEW d \in Ends, NEW f, OnWire(wire', d, f), f.seq # 0
      PROVE  f.seq =< sendSeq'[Other(d)] /\ Stamp(c[Other(d)], f)
  <2>0. Other(d) \in Ends
    BY OtherEnd
  <2>1. CASE OnWire(wire, d, f)
    <3>1. f.seq =< sendSeq[Other(d)] /\ Stamp(c[Other(d)], f)
      BY <1>4, <2>1 DEF Ledger
    <3>2. wire \in Wires
      BY DEF HandoverTypes
    <3>3. f \in Numbered
      BY <2>1, <3>2 DEF OnWire, Wires
    <3>4. f.seq \in Nat
      BY <3>3 DEF Numbered
    <3> QED BY <1>1, <1>2, <2>0, <3>1, <3>4
  <2>2. CASE /\ d = Other(e) /\ f.seq = sendSeq[e] + 1 /\ f.kind # "data"
             /\ sendSeq' = [sendSeq EXCEPT ![e] = @ + 1]
    <3>1. Other(d) = e
      BY <2>2, OtherEnd
    <3>2. sendSeq[e] \in Nat /\ sendSeq'[e] = sendSeq[e] + 1
      BY <1>1, <2>2
    <3>3. c[e][sendSeq[e]] = said[e] /\ c[e][sendSeq[e] + 1] = said[e]
      BY <3>2 DEF Ledger
    <3>4. Stamp(c[e], f)
      BY <2>2, <3>2, <3>3 DEF Stamp
    <3> QED BY <2>2, <3>1, <3>2, <3>4
  <2> QED BY <1>4, <2>1, <2>2 DEF Writes
<1> QED BY <1>2, <1>3, <1>4

\* What an end reads next is the next it is owed.
LEMMA ReadsKeep ==
  ASSUME HandoverTypes, NEW c, Ledger(c), NEW e \in Ends, Reads(e)
  PROVE  /\ recvSeq' \in [Ends -> Nat] /\ deferred' \in [Ends -> Seq(Numbered)]
         /\ heard' \in [Ends -> Seq(Nat)]
         /\ heard' = heard \/ (/\ Len(heard[e]) < said[Other(e)]
                                   /\ heard' = [heard EXCEPT ![e] = Append(@, Len(@) + 1)])
         /\ \A d \in Ends : Kept(c[Other(d)], sendSeq[Other(d)], recvSeq'[d],
                                   deferred'[d], heard'[d])
<1> DEFINE o == Other(e)  k == c[o]  top == sendSeq[o]
           r == recvSeq[e]  q == deferred[e]  h == heard[e]
<1>1. o \in Ends /\ k \in Ledgers /\ top \in Nat /\ r \in Nat /\ q \in Seq(Numbered) /\ h \in Seq(Nat)
  BY OtherEnd DEF HandoverTypes, Ledger
<1>2. Kept(k, top, r, q, h) /\ \A i \in Nat : k[i] =< said[o] /\ k[i] \in Nat
  BY <1>1 DEF Ledger, Ledgers
<1>3. \A d \in Ends : Kept(c[Other(d)], sendSeq[Other(d)], recvSeq[d], deferred[d], heard[d])
  BY DEF Ledger
<1>4. /\ recvSeq \in [Ends -> Nat] /\ deferred \in [Ends -> Seq(Numbered)]
      /\ heard \in [Ends -> Seq(Nat)] /\ said[o] \in Nat
  BY <1>1 DEF HandoverTypes
<1> HIDE DEF o, k, top, r, q, h
<1>5. ASSUME NEW a \in Nat, NEW b \in Seq(Numbered), NEW x \in Seq(Nat), Kept(k, top, a, b, x),
             recvSeq' = [recvSeq EXCEPT ![e] = a], deferred' = [deferred EXCEPT ![e] = b],
             heard' = [heard EXCEPT ![e] = x],
             x = h \/ (x = Append(h, Len(h) + 1) /\ Len(h) < said[o])
      PROVE  /\ recvSeq' \in [Ends -> Nat] /\ deferred' \in [Ends -> Seq(Numbered)]
             /\ heard' \in [Ends -> Seq(Nat)]
             /\ heard' = heard \/ (/\ Len(heard[e]) < said[Other(e)]
                                       /\ heard' = [heard EXCEPT ![e] = Append(@, Len(@) + 1)])
             /\ \A d \in Ends : Kept(c[Other(d)], sendSeq[Other(d)], recvSeq'[d],
                                       deferred'[d], heard'[d])
  <2>1. /\ recvSeq' \in [Ends -> Nat] /\ deferred' \in [Ends -> Seq(Numbered)]
        /\ heard' \in [Ends -> Seq(Nat)]
    BY <1>4, <1>5
  <2>2. heard' = heard \/ (/\ Len(heard[e]) < said[Other(e)]
                               /\ heard' = [heard EXCEPT ![e] = Append(@, Len(@) + 1)])
    BY <1>4, <1>5 DEF o, h
  <2>3. ASSUME NEW d \in Ends
        PROVE  Kept(c[Other(d)], sendSeq[Other(d)], recvSeq'[d], deferred'[d], heard'[d])
    <3>1. CASE d = e
      <4>1. recvSeq'[d] = a /\ deferred'[d] = b /\ heard'[d] = x
        BY <1>4, <1>5, <3>1
      <4> QED BY <1>5, <3>1, <4>1 DEF k, top, o
    <3>2. CASE d # e
      <4>1. recvSeq'[d] = recvSeq[d] /\ deferred'[d] = deferred[d] /\ heard'[d] = heard[d]
        BY <1>4, <1>5, <3>2
      <4> QED BY <1>3, <4>1
    <3> QED BY <3>1, <3>2
  <2> QED BY <2>1, <2>2, <2>3
<1>6. CASE UNCHANGED <<recvSeq, deferred, heard>>
  BY <1>3, <1>4, <1>6
<1>7. CASE Decrypts(e)
  <2>1. PICK f \in Numbered :
           /\ OnWire(wire, e, f) /\ f.seq = r + 1
           /\ recvSeq' = [recvSeq EXCEPT ![e] = f.seq]
           /\ \/ deferred' = [deferred EXCEPT ![e] = Append(@, f)] /\ UNCHANGED heard
              \/ f.kind # "data" /\ UNCHANGED <<deferred, heard>>
              \/ /\ f.kind = "data" /\ deferred[e] = <<>> /\ UNCHANGED deferred
                 /\ heard' = [heard EXCEPT ![e] = Append(@, f.n)]
    BY <1>7 DEF Decrypts, r
  <2>2. f.seq =< top /\ Stamp(k, f)
    <3>1. f.seq # 0
      BY <1>1, <2>1
    <3> QED BY <2>1, <3>1 DEF Ledger, k, top, o
  <2>3. r + 1 =< top /\ r + 1 \in Nat /\ recvSeq' = [recvSeq EXCEPT ![e] = r + 1]
    BY <1>1, <2>1, <2>2
  <2>4. CASE deferred' = [deferred EXCEPT ![e] = Append(@, f)] /\ UNCHANGED heard
    <3>1. Kept(k, top, r + 1, Append(q, f), h)
      BY <1>1, <1>2, <2>1, <2>2, <2>3, KeptDeferred
    <3>2. /\ Append(q, f) \in Seq(Numbered) /\ deferred' = [deferred EXCEPT ![e] = Append(q, f)]
          /\ heard' = [heard EXCEPT ![e] = h]
      BY <1>1, <1>4, <2>1, <2>4 DEF q, h
    <3> QED BY <1>1, <1>5, <2>3, <3>1, <3>2
  <2>5. CASE f.kind # "data" /\ UNCHANGED <<deferred, heard>>
    <3>1. Kept(k, top, r + 1, q, h)
      BY <1>1, <1>2, <2>1, <2>2, <2>3, <2>5, KeptSkipped
    <3>2. deferred' = [deferred EXCEPT ![e] = q] /\ heard' = [heard EXCEPT ![e] = h]
      BY <1>4, <2>5 DEF q, h
    <3> QED BY <1>1, <1>5, <2>3, <3>1, <3>2
  <2>6. CASE /\ f.kind = "data" /\ deferred[e] = <<>> /\ UNCHANGED deferred
             /\ heard' = [heard EXCEPT ![e] = Append(@, f.n)]
    <3>0. q = <<>> /\ f.n \in Nat
      BY <2>6 DEF q, Numbered
    <3>1. f.n = Len(h) + 1 /\ f.n = k[r + 1] /\ Kept(k, top, r + 1, q, Append(h, f.n))
      BY <1>1, <1>2, <2>1, <2>2, <2>3, <2>6, <3>0, KeptHeard
    <3>2. /\ deferred' = [deferred EXCEPT ![e] = q] /\ heard' = [heard EXCEPT ![e] = Append(h, f.n)]
          /\ Append(h, f.n) \in Seq(Nat) /\ Len(h) \in Nat
      BY <1>1, <1>4, <2>6, <3>0 DEF q, h
    <3>3. Len(h) < said[o]
      BY <1>2, <1>4, <2>3, <3>1, <3>2
    <3> QED BY <1>1, <1>5, <2>3, <3>1, <3>2, <3>3
  <2> QED BY <2>1, <2>4, <2>5, <2>6
<1>8. CASE Replays(e)
  <2> DEFINE f == Head(q)
  <2>1. /\ q # <<>> /\ UNCHANGED recvSeq
        /\ deferred' = [deferred EXCEPT ![e] = Tail(@)]
        /\ \/ f.kind # "data" /\ UNCHANGED heard
           \/ f.kind = "data" /\ heard' = [heard EXCEPT ![e] = Append(@, f.n)]
    BY <1>8 DEF Replays, q
  <2>2. /\ f.kind # "data" => Kept(k, top, r, Tail(q), h)
        /\ f.kind = "data" =>
              /\ f.n = Len(h) + 1 /\ f.n = k[f.seq]
              /\ Kept(k, top, r, Tail(q), Append(h, f.n))
    BY <1>1, <1>2, <2>1, KeptReplayed
  <2>3. f \in Numbered /\ Tail(q) \in Seq(Numbered)
    BY <1>1, <2>1
  <2>4. f.seq \in Nat /\ f.n \in Nat
    BY <2>3 DEF Numbered
  <2> HIDE DEF f
  <2>5. /\ recvSeq' = [recvSeq EXCEPT ![e] = r] /\ deferred' = [deferred EXCEPT ![e] = Tail(q)]
    BY <1>4, <2>1 DEF r, q
  <2>6. CASE f.kind # "data" /\ UNCHANGED heard
    <3>1. heard' = [heard EXCEPT ![e] = h]
      BY <1>4, <2>6 DEF h
    <3> QED BY <1>1, <1>5, <2>2, <2>3, <2>5, <2>6, <3>1
  <2>7. CASE f.kind = "data" /\ heard' = [heard EXCEPT ![e] = Append(@, f.n)]
    <3>1. /\ heard' = [heard EXCEPT ![e] = Append(h, f.n)] /\ Append(h, f.n) \in Seq(Nat)
          /\ Len(h) \in Nat
      BY <1>1, <2>4, <2>7 DEF h
    <3>2. Len(h) < said[o]
      BY <1>2, <1>4, <2>2, <2>4, <2>7, <3>1
    <3> QED BY <1>1, <1>5, <2>2, <2>3, <2>5, <2>7, <3>1, <3>2
  <2> QED BY <2>1, <2>6, <2>7
<1> QED BY <1>6, <1>7, <1>8 DEF Reads

\* A step of one end keeps the invariant, and is a step of the conversation.
LEMMA ActKeeps ==
  ASSUME HandoverInv, NEW e \in Ends, Writes(e), Reads(e), Placed'
  PROVE  HandoverInv' /\ [Talk!Next]_<<said, heard>>
<1>1. PICK c : Ledger(c)
  BY DEF HandoverInv
<1>2. HandoverTypes
  BY DEF HandoverInv
<1>3. /\ sendSeq' \in [Ends -> Nat]
      /\ \A d \in Ends : sendSeq[d] =< sendSeq'[d]
      /\ \A d \in Ends : \A i \in Nat :
            c[d][i] =< said'[d] /\ (i >= sendSeq'[d] => c[d][i] = said'[d])
      /\ \A d \in Ends : \A f : OnWire(wire', d, f) /\ f.seq # 0 =>
            f.seq =< sendSeq'[Other(d)] /\ Stamp(c[Other(d)], f)
  BY <1>1, <1>2, WritesKeep
<1>4. /\ recvSeq' \in [Ends -> Nat] /\ deferred' \in [Ends -> Seq(Numbered)]
      /\ heard' \in [Ends -> Seq(Nat)]
      /\ heard' = heard \/ (/\ Len(heard[e]) < said[Other(e)]
                                /\ heard' = [heard EXCEPT ![e] = Append(@, Len(@) + 1)])
      /\ \A d \in Ends : Kept(c[Other(d)], sendSeq[Other(d)], recvSeq'[d],
                                deferred'[d], heard'[d])
  BY <1>1, <1>2, ReadsKeep
<1>5. said' = said /\ wire' \in Wires
  BY DEF Writes
<1>6. HandoverTypes'
  BY <1>2, <1>3, <1>4, <1>5 DEF HandoverTypes
<1>7. c \in [Ends -> Ledgers]
  BY <1>1 DEF Ledger
<1>8. ASSUME NEW d \in Ends
      PROVE  Kept(c[Other(d)], sendSeq'[Other(d)], recvSeq'[d], deferred'[d], heard'[d])
  <2>1. Other(d) \in Ends
    BY OtherEnd
  <2>2. /\ c[Other(d)] \in Ledgers /\ sendSeq[Other(d)] \in Nat /\ sendSeq'[Other(d)] \in Nat
        /\ sendSeq[Other(d)] =< sendSeq'[Other(d)]
        /\ recvSeq'[d] \in Nat /\ deferred'[d] \in Seq(Numbered) /\ heard'[d] \in Seq(Nat)
    BY <1>2, <1>3, <1>4, <1>7, <2>1 DEF HandoverTypes
  <2> QED BY <1>4, <2>2, KeptLonger
<1>9. Ledger(c)'
  BY <1>3, <1>7, <1>8 DEF Ledger
<1>10. [Talk!Next]_<<said, heard>>
  <2>1. Other(e) \in Ends \ {e}
    BY OtherEnd
  <2> QED BY <1>4, <1>5, <2>1 DEF Talk!Next, Talk!Hear
<1> QED BY <1>6, <1>9, <1>10 DEF HandoverInv

\* Nothing was added to the wires but frames without a number.
Thinned(w) ==
    /\ w \in Wires
    /\ \A d \in Ends : \A g : OnWire(w, d, g) => OnWire(wire, d, g) \/ g.seq = 0

\* Ways of adding nothing.
LEMMA ThinnedBy ==
  ASSUME HandoverTypes
  PROVE  /\ Thinned(wire)
         /\ \A e \in Ends, s \in Sockets : \A w : Thinned(w) => Thinned(Without(w, e, s))
         /\ \A e \in Ends, s \in Sockets : Arrived(e, s) => Thinned(Took(e, s))
         /\ \A e \in Ends, s \in Sockets : \A w : Thinned(w) =>
               /\ Thinned(Put(w, e, s, Plain("intro")))
               /\ Thinned(Put(w, e, s, Plain("ack")))
<1>0. wire \in Wires
  BY DEF HandoverTypes
<1>1. Thinned(wire)
  BY <1>0 DEF Thinned
<1>2. ASSUME NEW e \in Ends, NEW s \in Sockets, NEW w, Thinned(w) PROVE Thinned(Without(w, e, s))
  BY <1>2, WireWithout DEF Thinned
<1>3. ASSUME NEW e \in Ends, NEW s \in Sockets, Arrived(e, s) PROVE Thinned(Took(e, s))
  BY <1>0, <1>3, WireTook DEF Thinned
<1>4. ASSUME NEW e \in Ends, NEW s \in Sockets, NEW w, Thinned(w), NEW k \in {"intro", "ack"}
      PROVE  Thinned(Put(w, e, s, Plain(k)))
  <2>1. Plain(k) \in Numbered /\ Plain(k).seq = 0
    BY <1>4 DEF Plain, Numbered, Kinds
  <2> HIDE DEF Plain
  <2> QED BY <1>4, <2>1, WirePut DEF Thinned
<1> QED BY <1>1, <1>2, <1>3, <1>4

\* An end that writes nothing.
LEMMA WritesNone ==
  ASSUME NEW e \in Ends, Thinned(wire'), UNCHANGED <<sendSeq, said>>
  PROVE  Writes(e)
  BY DEF Writes, Thinned

\* An end that writes one frame, after dropping some.
LEMMA WritesOne ==
  ASSUME HandoverTypes, NEW e \in Ends, NEW s \in Sockets, NEW w, Thinned(w),
         NEW kind \in Kinds \ {"data"}, NEW n \in Sockets,
         wire' = Put(w, e, s, Encrypted(e, 1, kind, n)), Count(e, 1), said' = said
  PROVE  Writes(e)
<1> DEFINE f == Encrypted(e, 1, kind, n)
<1>1. sendSeq \in [Ends -> Nat] /\ MAX_UPGRADE_ATTEMPTS \in Nat
  BY DEF HandoverTypes
<1>2. n \in Nat
  BY <1>1 DEF Sockets
<1>3. f \in Numbered /\ f.seq = sendSeq[e] + 1 /\ f.kind # "data"
  BY <1>1, <1>2 DEF Encrypted, Numbered
<1> HIDE DEF f
<1>4. sendSeq' = [sendSeq EXCEPT ![e] = @ + 1]
  BY DEF Count
<1>5. w \in Wires /\ wire' = Put(w, e, s, f)
  BY DEF Thinned, f
<1>6. /\ wire' \in Wires
      /\ \A d \in Ends : \A g : OnWire(wire', d, g) => OnWire(w, d, g) \/ (d = Other(e) /\ g = f)
  BY <1>3, <1>5, WirePut
<1> QED BY <1>3, <1>4, <1>6 DEF Writes, Thinned

\* An end that decrypts the next frame, and defers it, drops it or hears it.
LEMMA ReadsNext ==
  ASSUME HandoverTypes, NEW e \in Ends, NEW s \in Sockets, Decrypt(e, s),
         \/ /\ deferred' = [deferred EXCEPT ![e] = Append(@, Head(wire[e][s]))]
            /\ UNCHANGED heard
         \/ Head(wire[e][s]).kind # "data" /\ UNCHANGED <<deferred, heard>>
         \/ /\ Head(wire[e][s]).kind = "data" /\ deferred[e] = <<>> /\ UNCHANGED deferred
            /\ heard' = [heard EXCEPT ![e] = Append(@, Head(wire[e][s]).n)]
  PROVE  Reads(e) /\ Thinned(Took(e, s)) /\ Head(wire[e][s]) \in Numbered
<1> DEFINE f == Head(wire[e][s])
<1>1. Arrived(e, s) /\ f.seq = recvSeq[e] + 1 /\ recvSeq' = [recvSeq EXCEPT ![e] = f.seq]
  BY DEF Decrypt, Authentic
<1>2. wire \in Wires
  BY DEF HandoverTypes
<1>3. f \in Numbered /\ OnWire(wire, e, f)
  BY <1>1, <1>2, WireTook
<1>4. Thinned(Took(e, s))
  BY <1>1, ThinnedBy
<1> HIDE DEF f
<1>5. Decrypts(e)
  BY <1>1, <1>3 DEF Decrypts, f
<1> QED BY <1>3, <1>4, <1>5 DEF Reads, f

\* An end that takes its next plaintext frame in the main loop.
LEMMA ReadsPlain ==
  ASSUME HandoverTypes, NEW e \in Ends, TakePlain(e),
         \/ NextPlain(e).kind # "data" /\ UNCHANGED heard
         \/ /\ NextPlain(e).kind = "data"
            /\ heard' = [heard EXCEPT ![e] = Append(@, NextPlain(e).n)]
  PROVE  Reads(e) /\ Thinned(Rest(e)) /\ NextPlain(e) \in Numbered
<1>0. sock[e] \in Sockets /\ deferred[e] \in Seq(Numbered)
  BY DEF HandoverTypes, Placed
<1>1. CASE deferred[e] # <<>>
  <2>1. /\ NextPlain(e) = Head(deferred[e]) /\ Rest(e) = wire
        /\ UNCHANGED recvSeq /\ deferred' = [deferred EXCEPT ![e] = Tail(@)]
    BY <1>1 DEF NextPlain, Rest, TakePlain
  <2>2. Replays(e)
    BY <1>1, <2>1 DEF Replays
  <2> QED BY <1>0, <1>1, <2>1, <2>2, ThinnedBy DEF Reads
<1>2. CASE deferred[e] = <<>>
  <2>1. /\ NextPlain(e) = Head(wire[e][sock[e]]) /\ Rest(e) = Took(e, sock[e])
        /\ Decrypt(e, sock[e]) /\ UNCHANGED deferred
    BY <1>2 DEF NextPlain, Rest, TakePlain
  <2> QED BY <1>0, <1>2, <2>1, ReadsNext
<1> QED BY <1>1, <1>2

-----------------------------------------------------------------------------
(* Every step of the handover *)

\* A step of the conversation, or none, that keeps the ledgers.
Onward == HandoverInv' /\ [Talk!Next]_<<said, heard>>

\* The names the steps use.
LEMMA HandoverNames ==
  ASSUME HandoverInv
  PROVE  /\ HandoverTypes /\ MAX_UPGRADE_ATTEMPTS \in Nat
         /\ H \in Ends /\ S \in Ends /\ Old \in Sockets /\ 0 \in Sockets
         /\ sock[H] \in Sockets /\ sock[S] \in Sockets
         /\ attempts \in Sockets /\ path \in Sockets
  BY DEF HandoverInv, HandoverTypes, Placed, Ends, Sockets, Old

\* An end gives up: everything it has open is closed.
LEMMA FailStep ==
  ASSUME HandoverInv, NEW e \in Ends, Fail(e)
  PROVE  Onward
<1> USE DEF hostVars, senderVars, talk
<1>1. wire \in Wires /\ wire' = [wire EXCEPT ![e] = [s \in Sockets |-> <<>>]]
  BY DEF Fail, HandoverInv, HandoverTypes
<1>2. wire' \in Wires
  BY <1>1 DEF Wires
<1>3. ASSUME NEW d \in Ends, NEW g, OnWire(wire', d, g) PROVE OnWire(wire, d, g)
  <2>1. PICK t \in Sockets : \E i \in 1 .. Len(wire'[d][t]) : wire'[d][t][i] = g
    BY <1>3 DEF OnWire
  <2>2. wire'[d][t] = wire[d][t]
    BY <1>1, <2>1 DEF Wires
  <2> QED BY <2>1, <2>2 DEF OnWire
<1>4. Thinned(wire')
  BY <1>2, <1>3 DEF Thinned
<1>5. Writes(e) /\ Reads(e)
  BY <1>4, WritesNone DEF Fail, Reads
<1>6. Placed'
  BY DEF Fail, HandoverInv, HandoverTypes, Placed
<1> QED BY <1>5, <1>6, ActKeeps DEF Onward

\* An end stays on its socket and says so.
LEMMA StayStep ==
  ASSUME HandoverInv, NEW e \in Ends, NEW new \in Sockets, StayPut(e, new),
         UNCHANGED <<sock, recvSeq, deferred, hostVars, senderVars, talk>>
  PROVE  Onward
<1> USE DEF hostVars, senderVars, talk
<1>1. HandoverTypes /\ 0 \in Sockets /\ sock[e] \in Sockets
  BY HandoverNames DEF HandoverTypes, Placed
<1>2. Thinned(Without(wire, e, new))
  BY <1>1, ThinnedBy
<1>3. "failure" \in Kinds \ {"data"}
  BY DEF Kinds
<1>4. /\ wire' = Put(Without(wire, e, new), e, sock[e], Encrypted(e, 1, "failure", 0))
      /\ Count(e, 1)
  BY DEF StayPut
<1>5. Writes(e)
  BY <1>1, <1>2, <1>3, <1>4, WritesOne
<1>6. Reads(e) /\ Placed'
  BY <1>1 DEF Reads, HandoverTypes, Placed
<1> QED BY <1>5, <1>6, ActKeeps DEF Onward

\* An end says a frame of the conversation: its ledger grows by one.
LEMMA SayStep ==
  ASSUME HandoverInv, NEW e \in Ends, Say(e)
  PROVE  Onward
<1> USE DEF hostVars, senderVars, talk
<1> DEFINE o == Other(e)
           f == Encrypted(e, 1, "data", said[e] + 1)
           top == sendSeq[e]
<1>1. PICK c : Ledger(c)
  BY DEF HandoverInv
<1>2. HandoverTypes /\ sock[e] \in Sockets /\ o \in Ends /\ Other(o) = e /\ o # e
  BY HandoverNames, OtherEnd DEF HandoverTypes, Placed
<1>3. /\ said' = [said EXCEPT ![e] = @ + 1] /\ sendSeq' = [sendSeq EXCEPT ![e] = @ + 1]
      /\ wire' = Put(wire, e, sock[e], f)
      /\ UNCHANGED <<sock, recvSeq, deferred, attempts, offered, path, heard>>
  BY DEF Say, Count
<1>4. /\ said \in [Ends -> Nat] /\ sendSeq \in [Ends -> Nat] /\ wire \in Wires
      /\ top \in Nat /\ said[e] \in Nat /\ c \in [Ends -> Ledgers]
  BY <1>1, <1>2 DEF HandoverTypes, Ledger
<1>5. f \in Numbered /\ f.seq = top + 1 /\ f.kind = "data" /\ f.n = said[e] + 1
  BY <1>4 DEF Encrypted, Numbered, Kinds
<1> HIDE DEF f
<1>6. /\ wire' \in Wires
      /\ \A d \in Ends : \A g : OnWire(wire', d, g) => OnWire(wire, d, g) \/ (d = o /\ g = f)
  BY <1>2, <1>3, <1>4, <1>5, WirePut
<1>7. HandoverTypes'
  BY <1>2, <1>3, <1>4, <1>6 DEF HandoverTypes, Placed
<1>8. PICK x \in [Ends -> Ledgers] :
         /\ \A i \in Nat : x[e][i] = IF i =< top THEN c[e][i] ELSE said[e] + 1
         /\ \A d \in Ends : d # e => x[d] = c[d]
  <2> DEFINE y == [d \in Ends |-> IF d = e THEN [i \in Nat |-> IF i =< top THEN c[e][i] ELSE said[e] + 1]
                                             ELSE c[d]]
  <2>1. /\ y \in [Ends -> Ledgers]
        /\ \A i \in Nat : y[e][i] = IF i =< top THEN c[e][i] ELSE said[e] + 1
        /\ \A d \in Ends : d # e => y[d] = c[d]
    BY <1>4 DEF Ledgers
  <2> HIDE DEF y
  <2> QED BY <2>1
<1>9. \A d \in Ends : \A i \in Nat :
         x[d][i] =< said'[d] /\ (i >= sendSeq'[d] => x[d][i] = said'[d])
  <2> SUFFICES ASSUME NEW d \in Ends, NEW i \in Nat
               PROVE  x[d][i] =< said'[d] /\ (i >= sendSeq'[d] => x[d][i] = said'[d])
    OBVIOUS
  <2>1. c[d][i] =< said[d] /\ (i >= sendSeq[d] => c[d][i] = said[d]) /\ c[d][i] \in Nat
    BY <1>1, <1>4 DEF Ledger, Ledgers
  <2>2. CASE d = e
    BY <1>3, <1>4, <1>8, <2>1, <2>2
  <2>3. CASE d # e
    BY <1>3, <1>4, <1>8, <2>1, <2>3
  <2> QED BY <2>2, <2>3
<1>10. \A i \in 0 .. top : x[e][i] = c[e][i]
  BY <1>4, <1>8
<1>11. ASSUME NEW d \in Ends, NEW g, OnWire(wire', d, g), g.seq # 0
       PROVE  g.seq =< sendSeq'[Other(d)] /\ Stamp(x[Other(d)], g)
  <2>0. Other(d) \in Ends
    BY OtherEnd
  <2>1. CASE d = o /\ g = f
    <3>1. x[e][top + 1] = said[e] + 1 /\ x[e][top] = said[e] /\ sendSeq'[e] = top + 1
      <4>1. x[e][top] = c[e][top] /\ c[e][top] = said[e]
        BY <1>1, <1>4, <1>10 DEF Ledger
      <4> QED BY <1>3, <1>4, <1>8, <4>1
    <3>2. Stamp(x[e], f)
      BY <1>4, <1>5, <3>1 DEF Stamp
    <3> QED BY <1>2, <1>4, <1>5, <2>1, <3>1, <3>2
  <2>2. CASE OnWire(wire, d, g)
    <3>1. g.seq =< sendSeq[Other(d)] /\ Stamp(c[Other(d)], g)
      BY <1>1, <1>11, <2>2 DEF Ledger
    <3>2. g \in Numbered
      BY <1>4, <2>2 DEF OnWire, Wires
    <3>3. g.seq \in Nat
      BY <3>2 DEF Numbered
    <3>4. CASE Other(d) = e
      <4>1. g.seq \in 0 .. top /\ g.seq - 1 \in 0 .. top
        BY <1>4, <1>11, <3>1, <3>3, <3>4
      <4>2. Stamp(x[e], g)
        BY <1>10, <3>1, <3>4, <4>1 DEF Stamp
      <4>3. g.seq =< sendSeq'[e]
        BY <1>3, <1>4, <4>1
      <4> QED BY <3>4, <4>2, <4>3
    <3>5. CASE Other(d) # e
      BY <1>3, <1>4, <1>8, <2>0, <3>1, <3>5
    <3> QED BY <3>4, <3>5
  <2> QED BY <1>6, <1>11, <2>1, <2>2
<1>12. ASSUME NEW d \in Ends
       PROVE  Kept(x[Other(d)], sendSeq'[Other(d)], recvSeq'[d], deferred'[d], heard'[d])
  <2>0. Other(d) \in Ends
    BY OtherEnd
  <2>1. /\ Kept(c[Other(d)], sendSeq[Other(d)], recvSeq[d], deferred[d], heard[d])
        /\ recvSeq[d] \in Nat /\ deferred[d] \in Seq(Numbered) /\ heard[d] \in Seq(Nat)
    BY <1>1, <1>2 DEF Ledger, HandoverTypes
  <2>2. CASE Other(d) = e
    <3>1. sendSeq'[e] \in Nat /\ top =< sendSeq'[e]
      BY <1>3, <1>4
    <3>2. x[e] \in Ledgers /\ c[e] \in Ledgers /\ Kept(c[e], top, recvSeq[d], deferred[d], heard[d])
      BY <1>4, <1>8, <2>1, <2>2
    <3>3. Kept(x[e], sendSeq'[e], recvSeq[d], deferred[d], heard[d])
      BY <1>4, <1>10, <2>1, <3>1, <3>2, KeptLonger
    <3> QED BY <1>3, <2>2, <3>3
  <2>3. CASE Other(d) # e
    <3>1. x[Other(d)] = c[Other(d)] /\ sendSeq'[Other(d)] = sendSeq[Other(d)]
      BY <1>3, <1>4, <1>8, <2>0, <2>3
    <3> QED BY <1>3, <2>1, <3>1
  <2> QED BY <2>2, <2>3
<1>13. Ledger(x)'
  BY <1>8, <1>9, <1>11, <1>12 DEF Ledger
<1>14. [Talk!Next]_<<said, heard>>
  BY <1>3 DEF Talk!Next, Talk!Say
<1> QED BY <1>7, <1>13, <1>14 DEF Onward, HandoverInv

\* A step that leaves the ends where they are.
LEMMA StaysPlaced ==
  ASSUME HandoverInv, UNCHANGED <<sock, attempts, offered, path>>
  PROVE  Placed'
  BY DEF HandoverInv, HandoverTypes, Placed

\* The main loop of either end: a frame is heard, ignored or refused.
LEMMA LoopStep ==
  ASSUME HandoverInv, NEW e \in Ends, Hear(e) \/ Ignore(e) \/ LoopError(e)
  PROVE  Onward
<1> USE DEF hostVars, senderVars, talk
<1>0. HandoverTypes
  BY HandoverNames
<1>1. CASE Hear(e)
  <2>1. Reads(e) /\ Thinned(Rest(e))
    BY <1>0, <1>1, ReadsPlain DEF Hear
  <2>2. Writes(e)
    BY <1>1, <2>1, WritesNone DEF Hear
  <2>3. Placed'
    BY <1>1, StaysPlaced DEF Hear
  <2> QED BY <2>1, <2>2, <2>3, ActKeeps DEF Onward
<1>2. CASE Ignore(e)
  <2>0. NextPlain(e).kind # "data"
    BY <1>2 DEF Ignore
  <2>1. Reads(e) /\ Thinned(Rest(e))
    BY <1>0, <1>2, <2>0, ReadsPlain DEF Ignore
  <2>2. Writes(e)
    BY <1>2, <2>1, WritesNone DEF Ignore
  <2>3. Placed'
    BY <1>2, StaysPlaced DEF Ignore
  <2> QED BY <2>1, <2>2, <2>3, ActKeeps DEF Onward
<1>3. CASE LoopError(e)
  BY <1>3, FailStep DEF LoopError
<1> QED BY <1>1, <1>2, <1>3

\* An end in a handover reads the first socket and keeps the frame for later.
LEMMA DeferStep ==
  ASSUME HandoverInv, NEW e \in Ends, Decrypt(e, Old), Defer(e),
         UNCHANGED <<hostVars, senderVars, talk>>
  PROVE  Onward
<1> USE DEF hostVars, senderVars, talk
<1>0. HandoverTypes /\ Old \in Sockets
  BY HandoverNames
<1>1. /\ deferred' = [deferred EXCEPT ![e] = Append(@, Head(wire[e][Old]))]
      /\ wire' = Took(e, Old) /\ UNCHANGED <<sock, sendSeq, heard, said>>
  BY DEF Defer
<1>2. Reads(e) /\ Thinned(wire')
  BY <1>0, <1>1, ReadsNext
<1>3. Writes(e)
  BY <1>1, <1>2, WritesNone
<1>4. Placed'
  BY <1>1, StaysPlaced
<1> QED BY <1>2, <1>3, <1>4, ActKeeps DEF Onward

\* An end in a handover reads a control frame off the first socket, and writes
\* at most one frame.
LEMMA DropStep ==
  ASSUME HandoverInv, NEW e \in Ends, Decrypt(e, Old),
         Head(wire[e][Old]).kind # "data", Writes(e), Placed',
         UNCHANGED <<deferred, heard>>
  PROVE  Onward
<1>0. HandoverTypes /\ Old \in Sockets
  BY HandoverNames
<1>2. Reads(e)
  BY <1>0, ReadsNext
<1> QED BY <1>2, ActKeeps DEF Onward

\* Neither end reads or writes anything, though some of the wire may be lost.
LEMMA IdleStep ==
  ASSUME HandoverInv, Thinned(wire'), Placed',
         UNCHANGED <<sendSeq, recvSeq, deferred, said, heard>>
  PROVE  Onward
<1>1. H \in Ends
  BY HandoverNames
<1>2. Writes(H)
  BY <1>1, WritesNone
<1>3. Reads(H)
  BY DEF Reads
<1> QED BY <1>1, <1>2, <1>3, ActKeeps DEF Onward

\* An end writes one control frame and reads nothing.
LEMMA WriteStep ==
  ASSUME HandoverInv, NEW e \in Ends, NEW s \in Sockets, NEW w, Thinned(w),
         NEW kind \in {"request", "path", "failure", "last", "safe"}, NEW n \in Sockets,
         wire' = Put(w, e, s, Encrypted(e, 1, kind, n)), Count(e, 1), Placed',
         UNCHANGED <<recvSeq, deferred, said, heard>>
  PROVE  Onward
<1>0. HandoverTypes /\ kind \in Kinds \ {"data"}
  BY HandoverNames DEF Kinds
<1>1. Writes(e)
  BY <1>0, WritesOne
<1>2. Reads(e)
  BY DEF Reads
<1> QED BY <1>1, <1>2, ActKeeps DEF Onward

\* The host up to the join: offers, requests declined, the drain, the listener.
LEMMA HostOffers ==
  ASSUME HandoverInv,
         \/ OfferUnprompted \/ OfferOnRequest \/ DeclineRequest \/ Drain
         \/ NoGroup \/ Group \/ Accept \/ JoinTimeout
  PROVE  Onward
<1> USE DEF hostVars, senderVars, talk, transport
<1>0. /\ HandoverTypes /\ MAX_UPGRADE_ATTEMPTS \in Nat /\ H \in Ends /\ Old \in Sockets /\ 0 \in Sockets
      /\ sock[H] \in Sockets /\ attempts \in Sockets
  BY HandoverNames
<1>1. CASE OfferUnprompted
  <2>1. Placed'
    <3>1. /\ ~offered /\ offered' = TRUE /\ attempts' = attempts + 1
          /\ UNCHANGED <<sock, path>>
      BY <1>1 DEF OfferUnprompted, Offer
    <3>2. attempts =< MAX_UPGRADE_ATTEMPTS
      BY <1>0, <3>1 DEF HandoverTypes, Placed
    <3>3. attempts + 1 \in Sockets
      BY <1>0, <3>2 DEF Sockets
    <3> QED BY <1>0, <3>1, <3>3 DEF HandoverTypes, Placed
  <2>2. Thinned(wire')
    BY <1>0, <1>1, ThinnedBy DEF OfferUnprompted
  <2> QED BY <1>1, <2>1, <2>2, IdleStep DEF OfferUnprompted, Offer
<1>2. CASE OfferOnRequest
  <2>1. Placed'
    <3>1. /\ attempts < MAX_UPGRADE_ATTEMPTS /\ offered' = offered /\ attempts' = attempts + 1
          /\ UNCHANGED <<sock, path>>
      BY <1>2 DEF OfferOnRequest, Offer
    <3>2. attempts + 1 \in Sockets /\ attempts + 1 =< MAX_UPGRADE_ATTEMPTS
      BY <1>0, <3>1 DEF Sockets
    <3> QED BY <1>0, <3>1, <3>2 DEF HandoverTypes, Placed
  <2>2. TakePlain(H) /\ NextPlain(H).kind # "data" /\ heard' = heard
    BY <1>2 DEF OfferOnRequest, Offer
  <2>3. Reads(H) /\ Thinned(Rest(H))
    BY <1>0, <2>2, ReadsPlain
  <2>4. wire' = Rest(H) /\ UNCHANGED <<sendSeq, said>>
    BY <1>2 DEF OfferOnRequest, Offer
  <2>5. Writes(H)
    BY <1>0, <2>3, <2>4, WritesNone
  <2> QED BY <1>0, <2>1, <2>3, <2>5, ActKeeps DEF Onward
<1>3. CASE DeclineRequest
  <2>1. Placed'
    BY <1>3, StaysPlaced DEF DeclineRequest
  <2>2. TakePlain(H) /\ NextPlain(H).kind # "data" /\ heard' = heard
    BY <1>3 DEF DeclineRequest
  <2>3. Reads(H) /\ Thinned(Rest(H))
    BY <1>0, <2>2, ReadsPlain
  <2>4. /\ wire' = Put(Rest(H), H, sock[H], Encrypted(H, 1, "failure", 0))
        /\ Count(H, 1) /\ said' = said
    BY <1>3 DEF DeclineRequest
  <2>5. "failure" \in Kinds \ {"data"}
    BY DEF Kinds
  <2>6. Writes(H)
    BY <1>0, <2>3, <2>4, <2>5, WritesOne
  <2> QED BY <1>0, <2>1, <2>3, <2>6, ActKeeps DEF Onward
<1>4. CASE Drain
  BY <1>0, <1>4, DeferStep DEF Drain
<1>5. CASE NoGroup
  BY <1>0, <1>5, StayStep DEF NoGroup
<1>6. CASE Group
  <2>1. Placed'
    BY <1>6, StaysPlaced DEF Group
  <2>2. Thinned(wire)
    BY <1>0, ThinnedBy
  <2> QED BY <1>0, <1>6, <2>1, <2>2, WriteStep DEF Group
<1>7. CASE Accept
  <2>1. Placed'
    BY <1>7, StaysPlaced DEF Accept
  <2>2. Thinned(wire')
    BY <1>0, <1>7, ThinnedBy DEF Accept
  <2> QED BY <1>7, <2>1, <2>2, IdleStep DEF Accept
<1>8. CASE JoinTimeout
  BY <1>0, <1>8, StayStep DEF JoinTimeout
<1> QED BY <1>1, <1>2, <1>3, <1>4, <1>5, <1>6, <1>7, <1>8

\* The host closes the first socket and moves on.
LEMMA HostSwaps ==
  ASSUME HandoverInv, HostSwap(wire)
  PROVE  Writes(H) /\ Placed' /\ UNCHANGED <<deferred, heard>>
<1> USE DEF senderVars, talk
<1>0. HandoverTypes /\ H \in Ends /\ Old \in Sockets /\ 0 \in Sockets /\ attempts \in Sockets
  BY HandoverNames
<1>1. Thinned(Without(wire, H, Old))
  BY <1>0, ThinnedBy
<1>2. "safe" \in Kinds \ {"data"}
  BY DEF Kinds
<1>3. /\ wire' = Put(Without(wire, H, Old), H, Old, Encrypted(H, 1, "safe", 0))
      /\ Count(H, 1) /\ said' = said
  BY DEF HostSwap
<1>4. Writes(H)
  BY <1>0, <1>1, <1>2, <1>3, WritesOne
<1>5. sock' = [sock EXCEPT ![H] = attempts] /\ UNCHANGED <<attempts, offered, path, deferred, heard>>
  BY DEF HostSwap
<1>6. Placed'
  BY <1>0, <1>5 DEF HandoverTypes, Placed
<1> QED BY <1>4, <1>5, <1>6

\* The host from the introduction to the swap.
LEMMA HostMoves ==
  ASSUME HandoverInv,
         \/ Introduced \/ IntroTimeout \/ ReleaseOther \/ Release \/ ReleaseTimeout
         \/ OfferError
  PROVE  Onward
<1> USE DEF hostVars, senderVars, talk
<1>0. /\ HandoverTypes /\ H \in Ends /\ Old \in Sockets /\ 0 \in Sockets
      /\ sock[H] \in Sockets /\ attempts \in Sockets
  BY HandoverNames
<1>1. CASE Introduced
  <2> DEFINE w == Put(Took(H, attempts), H, attempts, Plain("ack"))
  <2>1. Placed'
    BY <1>1, StaysPlaced DEF Introduced
  <2>2. Thinned(w)
    <3>1. Thinned(Took(H, attempts))
      BY <1>0, <1>1, ThinnedBy DEF Introduced
    <3> QED BY <1>0, <3>1, ThinnedBy
  <2>3. /\ wire' = Put(w, H, Old, Encrypted(H, 1, "last", 0)) /\ Count(H, 1)
        /\ UNCHANGED <<recvSeq, deferred, said, heard>>
    BY <1>1 DEF Introduced
  <2> HIDE DEF w
  <2> QED BY <1>0, <2>1, <2>2, <2>3, WriteStep
<1>2. CASE IntroTimeout
  BY <1>0, <1>2, StayStep DEF IntroTimeout
<1>3. CASE ReleaseOther
  <2>1. Decrypt(H, Old) /\ UNCHANGED <<hostVars, senderVars, talk>>
    BY <1>3 DEF ReleaseOther
  <2>2. CASE Defer(H)
    BY <1>0, <2>1, <2>2, DeferStep
  <2>3. CASE /\ ReleaseFrame = "last" /\ wire' = Took(H, Old)
             /\ UNCHANGED <<open, sock, sendSeq, deferred>>
    <3>1. Placed'
      BY <2>1, <2>3, StaysPlaced
    <3>2. Head(wire[H][Old]).kind # "data"
      BY <2>3 DEF ReleaseFrame
    <3>3. Arrived(H, Old)
      BY <2>1 DEF Decrypt
    <3>4. Writes(H)
      BY <1>0, <2>1, <2>3, <3>3, ThinnedBy, WritesNone
    <3> QED BY <1>0, <2>1, <2>3, <3>1, <3>2, <3>4, DropStep
  <2> QED BY <1>3, <2>2, <2>3 DEF ReleaseOther
<1>4. CASE Release
  <2>1. Decrypt(H, Old) /\ Head(wire[H][Old]).kind # "data" /\ HostSwap(wire)
    BY <1>4 DEF Release, ReleaseFrame
  <2> QED BY <1>0, <2>1, HostSwaps, DropStep
<1>5. CASE ReleaseTimeout
  <2>1. Writes(H) /\ Placed' /\ UNCHANGED <<recvSeq, deferred, heard>>
    BY <1>5, HostSwaps DEF ReleaseTimeout
  <2> QED BY <1>0, <2>1, ActKeeps DEF Onward, Reads
<1>6. CASE OfferError
  <2>1. CASE Fail(H)
    BY <1>0, <2>1, FailStep
  <2>2. CASE /\ wire' = Without(IF Arrived(H, Old) THEN Took(H, Old) ELSE wire,
                                    H, attempts)
             /\ UNCHANGED <<sock, sendSeq, recvSeq, deferred, hostVars, senderVars, talk>>
    <3> DEFINE w == IF Arrived(H, Old) THEN Took(H, Old) ELSE wire
    <3>1. Placed'
      BY <2>2, StaysPlaced
    <3>2. Thinned(w)
      BY <1>0, ThinnedBy
    <3> HIDE DEF w
    <3>3. Thinned(Without(w, H, attempts))
      BY <1>0, <3>2, ThinnedBy
    <3>4. Thinned(wire')
      BY <2>2, <3>3 DEF w
    <3> QED BY <2>2, <3>1, <3>4, IdleStep
  <2> QED BY Zenon, <1>6, <2>1, <2>2 DEF OfferError
<1> QED BY <1>1, <1>2, <1>3, <1>4, <1>5, <1>6

\* The sender up to the join: the request, the wait, the offer taken up.
LEMMA SenderWaits ==
  ASSUME HandoverInv,
         \/ Ask \/ OfferOther \/ OfferRefused \/ OfferTimeout \/ OfferWaitError
         \/ PathAvailable \/ JoinFails \/ Connect
  PROVE  Onward
<1> USE DEF hostVars, senderVars, talk, transport
<1>0. /\ HandoverTypes /\ S \in Ends /\ H \in Ends /\ Old \in Sockets /\ 0 \in Sockets
      /\ sock[S] \in Sockets /\ path \in Sockets
  BY HandoverNames
<1>1. CASE Ask
  <2>1. Placed'
    BY <1>1, StaysPlaced DEF Ask
  <2>2. Thinned(wire)
    BY <1>0, ThinnedBy
  <2> QED BY <1>0, <1>1, <2>1, <2>2, WriteStep DEF Ask
<1>2. CASE OfferOther
  BY <1>0, <1>2, DeferStep DEF OfferOther
<1>3. CASE OfferRefused
  <2>1. /\ Decrypt(S, Old) /\ Head(wire[S][Old]).kind # "data"
        /\ wire' = Took(S, Old) /\ UNCHANGED <<sendSeq, said, deferred, heard>>
    BY <1>3 DEF OfferRefused
  <2>2. Placed'
    BY <1>3, StaysPlaced DEF OfferRefused
  <2>3. Arrived(S, Old)
    BY <2>1 DEF Decrypt
  <2>4. Writes(S)
    BY <1>0, <2>1, <2>3, ThinnedBy, WritesNone
  <2> QED BY <1>0, <2>1, <2>2, <2>4, DropStep
<1>4. CASE OfferTimeout
  <2>1. Placed'
    BY <1>4, StaysPlaced DEF OfferTimeout
  <2>2. Thinned(wire')
    BY <1>0, <1>4, ThinnedBy DEF OfferTimeout
  <2> QED BY <1>4, <2>1, <2>2, IdleStep DEF OfferTimeout
<1>5. CASE OfferWaitError
  BY <1>0, <1>5, FailStep DEF OfferWaitError
<1>6. CASE PathAvailable
  <2>1. UNCHANGED <<sock, sendSeq, attempts, offered, said, heard>>
    BY <1>6 DEF PathAvailable
  <2>2. CASE /\ TakePlain(S) /\ NextPlain(S).kind = "path"
             /\ path' = NextPlain(S).n /\ wire' = Rest(S)
    <3>1. Reads(S) /\ Thinned(Rest(S)) /\ NextPlain(S) \in Numbered
      BY <1>0, <2>1, <2>2, ReadsPlain
    <3>2. path' \in Sockets
      BY <2>2, <3>1 DEF Numbered
    <3>3. Placed'
      BY <1>0, <2>1, <3>2 DEF HandoverTypes, Placed
    <3>4. Writes(S)
      BY <1>0, <2>1, <2>2, <3>1, WritesNone
    <3> QED BY <1>0, <3>1, <3>3, <3>4, ActKeeps DEF Onward
  <2>3. CASE /\ Decrypt(S, Old) /\ Head(wire[S][Old]).kind = "path"
             /\ path' = Head(wire[S][Old]).n /\ wire' = Took(S, Old)
             /\ UNCHANGED deferred
    <3>1. Reads(S) /\ Thinned(Took(S, Old)) /\ Head(wire[S][Old]) \in Numbered
      BY <1>0, <2>1, <2>3, ReadsNext
    <3>2. path' \in Sockets
      BY <2>3, <3>1 DEF Numbered
    <3>3. Placed'
      BY <1>0, <2>1, <3>2 DEF HandoverTypes, Placed
    <3>4. Writes(S)
      BY <1>0, <2>1, <2>3, <3>1, WritesNone
    <3> QED BY <1>0, <3>1, <3>3, <3>4, ActKeeps DEF Onward
  <2> QED BY Zenon, <1>6, <2>2, <2>3 DEF PathAvailable
<1>7. CASE JoinFails
  BY <1>0, <1>7, StayStep DEF JoinFails
<1>8. CASE Connect
  <2>1. Placed'
    BY <1>8, StaysPlaced DEF Connect
  <2>2. /\ wire \in Wires
        /\ wire' = [wire EXCEPT ![H][path] = <<Plain("intro")>>]
    BY <1>0, <1>8 DEF Connect, HandoverTypes
  <2>3. Plain("intro") \in Numbered /\ Plain("intro").seq = 0
    BY DEF Plain, Numbered, Kinds
  <2>4. <<Plain("intro")>> \in Seq(Numbered)
    BY <2>3
  <2> DEFINE f == Plain("intro")
  <2> HIDE DEF f
  <2>5. wire' \in Wires
    BY <1>0, <2>2, <2>4 DEF Wires
  <2>6. ASSUME NEW d \in Ends, NEW g, OnWire(wire', d, g) PROVE OnWire(wire, d, g) \/ g.seq = 0
    <3>1. PICK t \in Sockets : \E i \in 1 .. Len(wire'[d][t]) : wire'[d][t][i] = g
      BY <2>6 DEF OnWire
    <3>2. CASE d = H /\ t = path
      <4>1. wire'[d][t] = <<f>>
        BY <1>0, <2>2, <3>2 DEF Wires, f
      <4>2. g = f
        BY <3>1, <4>1
      <4> QED BY <2>3, <4>2 DEF f
    <3>3. CASE ~(d = H /\ t = path)
      <4>1. wire'[d][t] = wire[d][t]
        BY <1>0, <2>2, <3>3 DEF Wires
      <4> QED BY <3>1, <4>1 DEF OnWire
    <3> QED BY <3>2, <3>3
  <2>7. Thinned(wire')
    BY <2>5, <2>6 DEF Thinned
  <2> QED BY <1>8, <2>1, <2>7, IdleStep DEF Connect
<1> QED BY <1>1, <1>2, <1>3, <1>4, <1>5, <1>6, <1>7, <1>8

\* The sender closes the first socket and moves on.
LEMMA SenderSwaps ==
  ASSUME HandoverInv, SenderSwap
  PROVE  Writes(S) /\ Placed' /\ UNCHANGED <<deferred, heard>>
<1> USE DEF hostVars, senderVars, talk
<1> DEFINE w == Without(wire, S, Old)
<1>0. HandoverTypes /\ S \in Ends /\ Old \in Sockets /\ 0 \in Sockets /\ path \in Sockets
  BY HandoverNames
<1>1. Thinned(w)
  BY <1>0, ThinnedBy
<1>2. "safe" \in Kinds \ {"data"}
  BY DEF Kinds
<1>3. /\ wire' = IF released THEN w ELSE Put(w, S, Old, Encrypted(S, 1, "safe", 0))
      /\ Count(S, IF released THEN 0 ELSE 1)
      /\ sock' = [sock EXCEPT ![S] = path]
      /\ UNCHANGED <<deferred, attempts, offered, path, said, heard>>
  BY DEF SenderSwap
<1> HIDE DEF w
<1>4. CASE released
  <2>1. wire' = w /\ Count(S, 0)
    BY <1>3, <1>4
  <2>2. sendSeq' = sendSeq
    BY <1>0, <2>1 DEF Count, HandoverTypes
  <2>3. Writes(S)
    BY <1>0, <1>1, <1>3, <2>1, <2>2, WritesNone
  <2>4. Placed'
    BY <1>0, <1>3 DEF HandoverTypes, Placed
  <2> QED BY <1>3, <2>3, <2>4
<1>5. CASE ~released
  <2>1. wire' = Put(w, S, Old, Encrypted(S, 1, "safe", 0)) /\ Count(S, 1)
    BY <1>3, <1>5
  <2>2. Writes(S)
    BY <1>0, <1>1, <1>2, <1>3, <2>1, WritesOne
  <2>3. Placed'
    BY <1>0, <1>3 DEF HandoverTypes, Placed
  <2> QED BY <1>3, <2>2, <2>3
<1> QED BY <1>4, <1>5

\* The sender from the acknowledgement to the swap.
LEMMA SenderAdopts ==
  ASSUME HandoverInv,
         \/ Acknowledged \/ AckError \/ AckTimeout \/ DrainLast \/ DrainOther
         \/ DrainSafe \/ DrainTimeout \/ DrainError
  PROVE  Onward
<1> USE DEF hostVars, senderVars, talk
<1>0. /\ HandoverTypes /\ S \in Ends /\ Old \in Sockets /\ 0 \in Sockets
      /\ sock[S] \in Sockets /\ path \in Sockets
  BY HandoverNames
<1>1. CASE Acknowledged
  <2>1. Placed'
    BY <1>1, StaysPlaced DEF Acknowledged
  <2>2. Thinned(Took(S, path))
    BY <1>0, <1>1, ThinnedBy DEF Acknowledged
  <2> QED BY <1>0, <1>1, <2>1, <2>2, WriteStep DEF Acknowledged
<1>2. CASE AckError
  BY <1>0, <1>2, StayStep DEF AckError
<1>3. CASE AckTimeout
  BY <1>0, <1>3, StayStep DEF AckTimeout
<1>4. CASE DrainLast
  <2>1. /\ Decrypt(S, Old) /\ Head(wire[S][Old]).kind # "data"
        /\ UNCHANGED <<said, deferred, heard>>
    BY <1>4 DEF DrainLast, DrainFrame
  <2>2. Placed'
    BY <1>4, StaysPlaced DEF DrainLast
  <2>3. Arrived(S, Old)
    BY <2>1 DEF Decrypt
  <2>4. Thinned(Took(S, Old))
    BY <1>0, <2>3, ThinnedBy
  <2>5. CASE released
    <3>1. wire' = Took(S, Old) /\ Count(S, 0)
      BY <1>4, <2>5 DEF DrainLast
    <3>2. sendSeq' = sendSeq
      BY <1>0, <3>1 DEF Count, HandoverTypes
    <3>3. Writes(S)
      BY <1>0, <2>1, <2>4, <3>1, <3>2, WritesNone
    <3> QED BY <1>0, <2>1, <2>2, <3>3, DropStep
  <2>6. CASE ~released
    <3>1. /\ wire' = Put(Took(S, Old), S, Old, Encrypted(S, 1, "safe", 0))
          /\ Count(S, 1)
      BY <1>4, <2>6 DEF DrainLast
    <3>2. "safe" \in Kinds \ {"data"}
      BY DEF Kinds
    <3>3. Writes(S)
      BY <1>0, <2>1, <2>4, <3>1, <3>2, WritesOne
    <3> QED BY <1>0, <2>1, <2>2, <3>3, DropStep
  <2> QED BY <2>5, <2>6
<1>5. CASE DrainOther
  BY <1>0, <1>5, DeferStep DEF DrainOther
<1>6. CASE DrainSafe
  <2>1. Decrypt(S, Old) /\ Head(wire[S][Old]).kind # "data" /\ SenderSwap
    BY <1>6 DEF DrainSafe, DrainFrame
  <2> QED BY <1>0, <2>1, SenderSwaps, DropStep
<1>7. CASE DrainTimeout
  <2>1. Writes(S) /\ Placed' /\ UNCHANGED <<recvSeq, deferred, heard>>
    BY <1>7, SenderSwaps DEF DrainTimeout
  <2> QED BY <1>0, <2>1, ActKeeps DEF Onward, Reads
<1>8. CASE DrainError
  <2>1. UNCHANGED <<sock, recvSeq, deferred, hostVars, senderVars, talk>>
    BY <1>8 DEF DrainError
  <2>2. CASE StayPut(S, path)
    BY <1>0, <2>1, <2>2, StayStep
  <2>3. CASE /\ Arrived(S, Old) /\ Count(S, 1)
             /\ wire' = Put(Without(Took(S, Old), S, path), S, Old,
                                Encrypted(S, 1, "failure", 0))
    <3>1. Placed'
      BY <2>1, StaysPlaced
    <3>2. Thinned(Took(S, Old))
      BY <1>0, <2>3, ThinnedBy
    <3>3. Thinned(Without(Took(S, Old), S, path))
      BY <1>0, <3>2, ThinnedBy
    <3> QED BY <1>0, <2>1, <2>3, <3>1, <3>3, WriteStep
  <2> QED BY Zenon, <1>8, <2>2, <2>3 DEF DrainError
<1> QED BY <1>1, <1>2, <1>3, <1>4, <1>5, <1>6, <1>7, <1>8

\* Every step, whatever times out, fails or is cut, is a step of the conversation.
LEMMA HandoverStep ==
  ASSUME HandoverInv, [Next]_(vars)
  PROVE  Onward
<1> USE DEF hostVars, senderVars, talk, transport
<1>0. HandoverTypes /\ H \in Ends /\ S \in Ends
  BY HandoverNames
<1>1. ASSUME NEW e \in Ends, Say(e) PROVE Onward
  BY <1>1, SayStep
<1>2. CASE HostStep
  <2>1. CASE Hear(H) \/ Ignore(H) \/ LoopError(H)
    BY <1>0, <2>1, LoopStep
  <2>2. CASE \/ OfferOnRequest \/ DeclineRequest \/ Drain \/ NoGroup \/ Group
             \/ Accept \/ JoinTimeout
    BY <2>2, HostOffers
  <2>3. CASE Introduced \/ IntroTimeout \/ ReleaseOther \/ Release \/ OfferError
    BY <2>3, HostMoves
  <2> QED BY Zenon, <1>2, <2>1, <2>2, <2>3 DEF HostStep
<1>3. CASE SenderStep
  <2>1. CASE Hear(S) \/ Ignore(S) \/ LoopError(S)
    BY <1>0, <2>1, LoopStep
  <2>2. CASE \/ OfferOther \/ OfferRefused \/ OfferTimeout \/ OfferWaitError
             \/ PathAvailable \/ JoinFails \/ Connect
    BY <2>2, SenderWaits
  <2>3. CASE \/ Acknowledged \/ AckError \/ DrainLast \/ DrainOther \/ DrainSafe
             \/ DrainError
    BY <2>3, SenderAdopts
  <2> QED BY Zenon, <1>3, <2>1, <2>2, <2>3 DEF SenderStep
<1>4. CASE Ask
  BY <1>4, SenderWaits
<1>5. CASE OfferUnprompted
  BY <1>5, HostOffers
<1>6. CASE ReleaseTimeout
  BY <1>6, HostMoves
<1>7. CASE AckTimeout \/ DrainTimeout
  BY <1>7, SenderAdopts
<1>8. CASE Cut
  <2>1. Placed'
    BY <1>8, StaysPlaced DEF Cut
  <2>2. Thinned(wire')
    BY <1>0, <1>8, ThinnedBy DEF Cut
  <2> QED BY <1>8, <2>1, <2>2, IdleStep DEF Cut
<1>9. CASE UNCHANGED vars
  <2>1. Placed'
    BY <1>9, StaysPlaced DEF vars
  <2>2. Thinned(wire')
    BY <1>0, <1>9, ThinnedBy DEF vars
  <2> QED BY <1>9, <2>1, <2>2, IdleStep DEF vars
<1> QED BY Zenon, <1>1, <1>2, <1>3, <1>4, <1>5, <1>6, <1>7, <1>8, <1>9 DEF Next

\* Nothing has been said: every ledger is zero.
LEMMA HandoverInit ==
  ASSUME MAX_UPGRADE_ATTEMPTS \in Nat, Init
  PROVE  HandoverInv /\ Talk!Init
<1> DEFINE c == [e \in Ends |-> [i \in Nat |-> 0]]
<1>1. Talk!Init
  BY DEF Init, Talk!Init
<1>2. <<>> \in Seq(Numbered) /\ <<>> \in Seq(Nat)
  OBVIOUS
<1>3. wire \in Wires
  BY <1>2 DEF Init, Wires
<1>4. Placed
  BY DEF Init, Placed, Sockets, Old
<1>5. HandoverTypes
  BY <1>2, <1>3, <1>4 DEF Init, HandoverTypes
<1>6. c \in [Ends -> Ledgers] /\ \A e \in Ends, i \in Nat : c[e][i] = 0
  BY DEF Ledgers
<1> HIDE DEF c
<1>7. /\ said = [e \in Ends |-> 0] /\ sendSeq = [e \in Ends |-> 0]
      /\ recvSeq = [e \in Ends |-> 0] /\ deferred = [e \in Ends |-> <<>>]
      /\ heard = [e \in Ends |-> <<>>] /\ wire = [e \in Ends |-> [s \in Sockets |-> <<>>]]
  BY DEF Init
<1>8. \A e \in Ends : \A f : ~OnWire(wire, e, f)
  BY <1>7 DEF OnWire
<1>9. ASSUME NEW e \in Ends
      PROVE  Kept(c[Other(e)], sendSeq[Other(e)], recvSeq[e], deferred[e], heard[e])
  <2>1. Other(e) \in Ends
    BY OtherEnd
  <2> QED BY <1>6, <1>7, <2>1 DEF Kept
<1>10. Ledger(c)
  BY <1>6, <1>7, <1>8, <1>9 DEF Ledger
<1> QED BY <1>1, <1>5, <1>10 DEF HandoverInv

\* The handover implements the conversation: whatever it interrupts, each end
\* hears a prefix of what the other said, in order and once
\* (connection.rs offer_group and drain_old, outbound.rs wait_for_upgrade and
\* adopt, channel.rs decrypt).
THEOREM HandoverInOrder == Spec => InOrder
<1>0. MAX_UPGRADE_ATTEMPTS \in Nat
  BY HandoverAssumption
<1>1. Init => HandoverInv /\ Talk!Init
  BY <1>0, HandoverInit
<1>2. HandoverInv /\ [Next]_(vars) => HandoverInv' /\ [Talk!Next]_<<said, heard>>
  BY <1>0, HandoverStep DEF Onward
<1> QED BY <1>1, <1>2, PTL DEF Spec, InOrder, Talk!Spec

-----------------------------------------------------------------------------
(* A clean move: what the two lanes of the first socket carry *)

\* The frames of q carry the numbers after lo, up to hi, without a gap.
Run(q, lo, hi) == Len(q) = hi - lo /\ \A i \in 1 .. Len(q) : q[i].seq = lo + i

\* No frame of q is of that kind.
Lacks(q, kind) == \A i \in 1 .. Len(q) : q[i].kind # kind

\* A frame of that kind ends q.
Closing(q, kind) == \A i \in 1 .. Len(q) : q[i].kind = kind => i = Len(q)

\* The offers in q are some of those after p, up to a, in the order they were made.
Offers(q, p, a) ==
    /\ \A i \in 1 .. Len(q) : q[i].kind = "path" => p < q[i].n /\ q[i].n =< a
    /\ \A i, j \in 1 .. Len(q) :
          i < j /\ q[i].kind = "path" /\ q[j].kind = "path" => q[i].n < q[j].n

\* To the host: the sender's release, if it has been written, comes last.
ToHost(q, lo, hi, safe) ==
    Run(q, lo, hi) /\ Closing(q, "safe") /\ (~safe => Lacks(q, "safe"))

\* To the sender, as long as the host has not swapped.
ToSender(q, lo, hi, p, a) == Run(q, lo, hi) /\ Lacks(q, "safe") /\ Offers(q, p, a)

\* What a frame appended to, and the first one taken off, do to a queue.
LEMMA QueueAppend ==
  ASSUME NEW q \in Seq(Numbered), NEW f \in Numbered
  PROVE  LET x == Append(q, f)
         IN  /\ x \in Seq(Numbered) /\ Len(q) \in Nat /\ Len(x) = Len(q) + 1 /\ x # <<>>
             /\ x[Len(q) + 1] = f
             /\ \A i \in 1 .. Len(x) : i = Len(q) + 1 \/ (i \in 1 .. Len(q) /\ x[i] = q[i])
<1>1. Len(q) \in Nat
  OBVIOUS
<1>2. /\ Append(q, f) \in Seq(Numbered) /\ Len(Append(q, f)) = Len(q) + 1
      /\ Append(q, f)[Len(q) + 1] = f
      /\ \A i \in 1 .. Len(q) : Append(q, f)[i] = q[i]
  BY AppendProperties
<1>3. Append(q, f) # <<>>
  BY <1>1, <1>2
<1>4. \A i \in 1 .. Len(q) + 1 : i = Len(q) + 1 \/ i \in 1 .. Len(q)
  BY <1>1
<1> QED BY <1>1, <1>2, <1>3, <1>4

\* Taking the first frame off a queue.
LEMMA QueueTail ==
  ASSUME NEW q \in Seq(Numbered), q # <<>>
  PROVE  LET x == Tail(q)
         IN  /\ x \in Seq(Numbered) /\ Len(q) \in Nat /\ Len(q) > 0 /\ Len(x) = Len(q) - 1
             /\ Head(q) = q[1] /\ 1 \in 1 .. Len(q) /\ Head(q) \in Numbered
             /\ \A i \in 1 .. Len(x) : i + 1 \in 1 .. Len(q) /\ x[i] = q[i + 1]
<1>1. Len(q) \in Nat /\ Len(q) > 0
  BY EmptySeq
<1>2. /\ Tail(q) \in Seq(Numbered) /\ Len(Tail(q)) = Len(q) - 1 /\ Head(q) = q[1]
      /\ Head(q) \in Numbered
      /\ \A i \in 1 .. Len(Tail(q)) : Tail(q)[i] = q[i + 1]
  BY HeadTailProperties
<1>3. 1 \in 1 .. Len(q) /\ \A i \in 1 .. Len(q) - 1 : i + 1 \in 1 .. Len(q)
  BY <1>1
<1> QED BY <1>1, <1>2, <1>3

\* Numbers go on without a gap when the next one is written ...
LEMMA RunAppend ==
  ASSUME NEW q \in Seq(Numbered), NEW f \in Numbered, NEW lo \in Nat, NEW hi \in Nat,
         Run(q, lo, hi), f.seq = hi + 1
  PROVE  Run(Append(q, f), lo, hi + 1)
<1> DEFINE x == Append(q, f)
<1>1. /\ x \in Seq(Numbered) /\ Len(q) \in Nat /\ Len(x) = Len(q) + 1 /\ x[Len(q) + 1] = f
      /\ \A i \in 1 .. Len(x) : i = Len(q) + 1 \/ (i \in 1 .. Len(q) /\ x[i] = q[i])
  BY QueueAppend
<1> HIDE DEF x
<1>2. Run(x, lo, hi + 1)
  BY <1>1 DEF Run
<1> QED BY <1>2 DEF x

\* ... and when the first is read, which is then the next one.
LEMMA RunTail ==
  ASSUME NEW q \in Seq(Numbered), q # <<>>, NEW lo \in Nat, NEW hi \in Nat, Run(q, lo, hi)
  PROVE  Head(q).seq = lo + 1 /\ Run(Tail(q), lo + 1, hi)
<1> DEFINE x == Tail(q)
<1>1. /\ Len(q) \in Nat /\ Len(x) = Len(q) - 1 /\ Head(q) = q[1] /\ 1 \in 1 .. Len(q)
      /\ \A i \in 1 .. Len(x) : i + 1 \in 1 .. Len(q) /\ x[i] = q[i + 1]
  BY QueueTail
<1> HIDE DEF x
<1>2. Head(q).seq = lo + 1
  BY <1>1 DEF Run
<1>3. Len(x) = hi - (lo + 1)
  BY <1>1 DEF Run
<1>4. ASSUME NEW i \in 1 .. Len(x) PROVE x[i].seq = (lo + 1) + i
  <2>1. i + 1 \in 1 .. Len(q) /\ x[i] = q[i + 1]
    BY <1>1
  <2>2. q[i + 1].seq = lo + (i + 1)
    BY <2>1 DEF Run
  <2> QED BY <2>1, <2>2
<1> QED BY <1>2, <1>3, <1>4 DEF Run, x

\* A kind that is lacking stays lacking.
LEMMA LacksAppend ==
  ASSUME NEW q \in Seq(Numbered), NEW f \in Numbered, NEW k, Lacks(q, k), f.kind # k
  PROVE  Lacks(Append(q, f), k)
<1> DEFINE x == Append(q, f)
<1>1. /\ x[Len(q) + 1] = f
      /\ \A i \in 1 .. Len(x) : i = Len(q) + 1 \/ (i \in 1 .. Len(q) /\ x[i] = q[i])
  BY QueueAppend
<1> HIDE DEF x
<1>2. Lacks(x, k)
  BY <1>1 DEF Lacks
<1> QED BY <1>2 DEF x

\* A kind that is lacking is lacking in the rest.
LEMMA LacksTail ==
  ASSUME NEW q \in Seq(Numbered), q # <<>>, NEW k, Lacks(q, k)
  PROVE  Lacks(Tail(q), k) /\ Head(q).kind # k
<1> DEFINE x == Tail(q)
<1>1. /\ Head(q) = q[1] /\ 1 \in 1 .. Len(q)
      /\ \A i \in 1 .. Len(x) : i + 1 \in 1 .. Len(q) /\ x[i] = q[i + 1]
  BY QueueTail
<1> HIDE DEF x
<1>2. Lacks(x, k) /\ Head(q).kind # k
  BY <1>1 DEF Lacks
<1> QED BY <1>2 DEF x

\* A closing frame is written after frames of other kinds, and is alone when
\* it is the next one.
LEMMA ClosingAppend ==
  ASSUME NEW q \in Seq(Numbered), NEW f \in Numbered, NEW k, Lacks(q, k)
  PROVE  Closing(Append(q, f), k)
<1> DEFINE x == Append(q, f)
<1>1. /\ Len(x) = Len(q) + 1
      /\ \A i \in 1 .. Len(x) : i = Len(q) + 1 \/ (i \in 1 .. Len(q) /\ x[i] = q[i])
  BY QueueAppend
<1> HIDE DEF x
<1>2. Closing(x, k)
  BY <1>1 DEF Lacks, Closing
<1> QED BY <1>2 DEF x

\* A closing frame closes the rest too, and is the first only if it is alone.
LEMMA ClosingTail ==
  ASSUME NEW q \in Seq(Numbered), q # <<>>, NEW k, Closing(q, k)
  PROVE  Closing(Tail(q), k) /\ (Head(q).kind = k => Len(q) = 1 /\ Tail(q) = <<>>)
<1> DEFINE x == Tail(q)
<1>1. /\ x \in Seq(Numbered) /\ Len(q) \in Nat /\ Len(x) = Len(q) - 1
      /\ Head(q) = q[1] /\ 1 \in 1 .. Len(q)
      /\ \A i \in 1 .. Len(x) : i + 1 \in 1 .. Len(q) /\ x[i] = q[i + 1]
  BY QueueTail
<1> HIDE DEF x
<1>2. Closing(x, k)
  <2> SUFFICES ASSUME NEW i \in 1 .. Len(x), x[i].kind = k PROVE i = Len(x)
    BY DEF Closing
  <2>1. i + 1 = Len(q)
    BY <1>1 DEF Closing
  <2> QED BY <1>1, <2>1
<1>3. Head(q).kind = k => Len(q) = 1
  BY <1>1 DEF Closing
<1>4. Len(q) = 1 => x = <<>>
  BY <1>1, EmptySeq
<1> QED BY <1>2, <1>3, <1>4 DEF x

\* The offers, in order.
LEMMA OffersAppend ==
  ASSUME NEW q \in Seq(Numbered), NEW f \in Numbered, NEW p \in Nat, NEW a \in Nat, NEW b \in Nat,
         Offers(q, p, a), a =< b,
         f.kind = "path" => p < f.n /\ a < f.n /\ f.n =< b
  PROVE  Offers(Append(q, f), p, b)
<1> DEFINE x == Append(q, f)
<1>1. /\ Len(q) \in Nat /\ Len(x) = Len(q) + 1 /\ x[Len(q) + 1] = f
      /\ \A i \in 1 .. Len(x) : i = Len(q) + 1 \/ (i \in 1 .. Len(q) /\ x[i] = q[i])
  BY QueueAppend
<1>0. f.n \in Nat /\ \A i \in 1 .. Len(q) : q[i].n \in Nat
  BY <1>1 DEF Numbered
<1> HIDE DEF x
<1>2. ASSUME NEW i \in 1 .. Len(x), x[i].kind = "path" PROVE p < x[i].n /\ x[i].n =< b
  <2>1. CASE i = Len(q) + 1
    BY <1>1, <1>2, <2>1
  <2>2. CASE i \in 1 .. Len(q) /\ x[i] = q[i]
    <3>1. p < q[i].n /\ q[i].n =< a
      BY <1>2, <2>2 DEF Offers
    <3> QED BY <1>0, <2>2, <3>1
  <2> QED BY <1>1, <2>1, <2>2
<1>3. ASSUME NEW i \in 1 .. Len(x), NEW j \in 1 .. Len(x), i < j,
             x[i].kind = "path", x[j].kind = "path"
      PROVE  x[i].n < x[j].n
  <2>1. i \in 1 .. Len(q) /\ x[i] = q[i]
    BY <1>1, <1>3
  <2>2. CASE j = Len(q) + 1
    <3>1. q[i].n =< a /\ a < x[j].n
      BY <1>1, <1>3, <2>1, <2>2 DEF Offers
    <3> QED BY <1>0, <1>1, <2>1, <2>2, <3>1
  <2>3. CASE j \in 1 .. Len(q) /\ x[j] = q[j]
    BY <1>3, <2>1, <2>3 DEF Offers
  <2> QED BY <1>1, <2>2, <2>3
<1>4. Offers(x, p, b)
  BY <1>2, <1>3 DEF Offers
<1> QED BY <1>4 DEF x

\* The rest of the queue has the offers after the one taken.
LEMMA OffersTail ==
  ASSUME NEW q \in Seq(Numbered), q # <<>>, NEW p \in Nat, NEW a \in Nat, Offers(q, p, a)
  PROVE  /\ Offers(Tail(q), p, a)
         /\ Head(q).kind = "path" => /\ p < Head(q).n /\ Head(q).n =< a
                                     /\ Offers(Tail(q), Head(q).n, a)
<1> DEFINE x == Tail(q)
<1>1. /\ Len(q) \in Nat /\ Len(x) = Len(q) - 1 /\ Head(q) = q[1] /\ 1 \in 1 .. Len(q)
      /\ \A i \in 1 .. Len(x) : i + 1 \in 1 .. Len(q) /\ x[i] = q[i + 1]
  BY QueueTail
<1> HIDE DEF x
<1>2. ASSUME NEW i \in 1 .. Len(x), NEW j \in 1 .. Len(x), i < j,
             x[i].kind = "path", x[j].kind = "path"
      PROVE  x[i].n < x[j].n
  <2>1. i + 1 \in 1 .. Len(q) /\ j + 1 \in 1 .. Len(q) /\ i + 1 < j + 1
    BY <1>1, <1>2
  <2> QED BY <1>1, <1>2, <2>1 DEF Offers
<1>3. ASSUME NEW i \in 1 .. Len(x), x[i].kind = "path"
      PROVE  /\ p < x[i].n /\ x[i].n =< a
             /\ Head(q).kind = "path" => Head(q).n < x[i].n
  <2>1. i + 1 \in 1 .. Len(q) /\ 1 < i + 1 /\ x[i] = q[i + 1]
    BY <1>1
  <2> QED BY <1>1, <1>3, <2>1 DEF Offers
<1>4. Head(q).kind = "path" => p < Head(q).n /\ Head(q).n =< a
  BY <1>1 DEF Offers
<1>5. Offers(x, p, a) /\ (Head(q).kind = "path" => Offers(x, Head(q).n, a))
  BY <1>2, <1>3 DEF Offers
<1> QED BY <1>4, <1>5 DEF x

\* Once the last offer has been taken up there is none left.
LEMMA OffersNone ==
  ASSUME NEW q \in Seq(Numbered), NEW p \in Nat, Offers(q, p, p)
  PROVE  Lacks(q, "path")
<1>1. \A i \in 1 .. Len(q) : q[i].n \in Nat
  BY DEF Numbered
<1> QED BY <1>1 DEF Offers, Lacks

\* Making an offer leaves those on their way in order.
LEMMA OffersWiden ==
  ASSUME NEW q \in Seq(Numbered), NEW p \in Nat, NEW a \in Nat, NEW b \in Nat, a =< b,
         Offers(q, p, a)
  PROVE  Offers(q, p, b)
<1>1. \A i \in 1 .. Len(q) : q[i].n \in Nat
  BY DEF Numbered
<1> QED BY <1>1 DEF Offers

-----------------------------------------------------------------------------
(* The invariant of a clean move *)

\* Both directions of the first socket.
Lanes(w, r, s, safe, p, a) ==
    ToHost(w[H][Old], r[H], s[S], safe) /\ ToSender(w[S][Old], r[S], s[H], p, a)

\* The sockets of the groups carry the same.
Beside(w, x) == \A d \in Ends : \A t \in Sockets \ {Old} : x[d][t] = w[d][t]

\* Nothing is on its way to the sender on the socket of a group.
Bare(w) == \A t \in Sockets \ {Old} : w[S][t] = <<>>

\* The offers that are on their way or behind.
Made == IF st[H] = "group" THEN attempts - 1 ELSE attempts

\* Both ends use the first socket.
Apart ==
    /\ ~upgraded /\ sock[H] = Old /\ sock[S] = Old
    /\ Old \in open[H] /\ Old \in open[S]
    /\ Lanes(wire, recvSeq, sendSeq, (st[S] = "drain" /\ released), path, Made)
    /\ path =< Made
    /\ Lacks(deferred[S], "path")
    /\ joined \subseteq 1 .. attempts
    /\ st[H] # "run" => attempts # 0
    /\ st[S] \in {"join", "ack", "drain"} => path # 0

\* Nobody has come to the present offer; the sender may still wait for the
\* answer to an earlier one.
Single ==
    /\ st[H] \in {"run", "group", "listen"} /\ st[S] \in {"run", "offer", "join", "ack"}
    /\ st[H] # "run" => attempts \notin joined
    /\ Bare(wire)

\* The offer taken up is the last one made, and both ends have its socket.
Paired == path = attempts /\ path \in open[H] /\ path \in open[S] /\ path \in joined

\* The sender has come, and introduced itself.
Met ==
    /\ Paired /\ st[H] \in {"listen", "intro"} /\ st[S] = "ack"
    /\ wire[H][path] = <<Plain("intro")>> /\ Bare(wire)

\* It has been acknowledged.
Acked ==
    /\ Paired /\ st[H] = "release" /\ st[S] = "ack"
    /\ wire[H][path] = <<>> /\ wire[S][path] = <<Plain("ack")>>

\* Each end waits for the other's release.
Releasing ==
    /\ Paired /\ st[H] = "release" /\ st[S] = "drain"
    /\ wire[H][path] = <<>> /\ wire[S][path] = <<>>

\* The host has swapped.
Across ==
    /\ st[H] = "run" /\ upgraded /\ path = attempts /\ path # 0 /\ sock[H] = path
    /\ path \in open[H] /\ path \in open[S]
    /\ Run(wire[H][path], recvSeq[H], sendSeq[S])
    /\ Lacks(wire[S][path], "path") /\ Lacks(deferred[S], "path")

\* The sender still reads the first socket, up to the host's release; what the
\* host writes meanwhile waits on the new one, under the numbers that follow.
Ending(q, r, n, hi) ==
    /\ q # <<>> /\ q[Len(q)].kind = "safe" /\ Closing(q, "safe") /\ Lacks(q, "path")
    /\ Run(q, r, r + Len(q)) /\ Run(n, r + Len(q), hi)

\* The sender is still draining the first socket.
Leaving ==
    /\ st[S] = "drain" /\ sock[S] = Old /\ released
    /\ Ending(wire[S][Old], recvSeq[S], wire[S][path], sendSeq[H])

\* The sender has followed.
Moved == st[S] = "run" /\ sock[S] = path /\ Run(wire[S][path], recvSeq[S], sendSeq[H])

\* Where the two ends can be together without a fault.
Staged == (Apart /\ (Single \/ Met \/ Acked \/ Releasing)) \/ (Across /\ (Leaving \/ Moved))

\* What each thread has open where it is, whatever failed.
Shaped ==
    /\ st \in [Ends -> {"run", "group", "listen", "intro", "release", "failed",
                        "offer", "join", "ack", "drain"}]
    /\ open \in [Ends -> SUBSET Sockets]

CleanInv == HandoverInv /\ Shaped /\ fault \in BOOLEAN /\ (~fault => Staged)

-----------------------------------------------------------------------------
(* What writing, reading and closing do to the lanes *)

\* What a write leaves on each socket.
LEMMA CellPut ==
  ASSUME NEW w \in Wires, NEW e \in Ends, NEW s \in Sockets, NEW f \in Numbered,
         s \in open[Other(e)]
  PROVE  /\ Put(w, e, s, f) \in Wires
         /\ Put(w, e, s, f)[Other(e)][s] = Append(w[Other(e)][s], f)
         /\ w[Other(e)][s] \in Seq(Numbered)
         /\ \A d \in Ends, t \in Sockets :
               ~(d = Other(e) /\ t = s) => Put(w, e, s, f)[d][t] = w[d][t]
<1>1. Other(e) \in Ends /\ w[e][s] \in Seq(Numbered) /\ w[Other(e)][s] \in Seq(Numbered)
  BY OtherEnd DEF Wires
<1>2. Put(w, e, s, f) = [w EXCEPT ![Other(e)][s] = Append(@, f)]
  BY DEF Put
<1>3. Append(w[Other(e)][s], f) \in Seq(Numbered)
  BY <1>1
<1>4. Put(w, e, s, f) \in Wires
  BY <1>1, WirePut
<1> QED BY <1>1, <1>2, <1>3, <1>4 DEF Wires

\* What closing a socket leaves on each socket.
LEMMA CellWithout ==
  ASSUME NEW w \in Wires, NEW e \in Ends, NEW s \in Sockets
  PROVE  /\ Without(w, e, s) \in Wires /\ Without(w, e, s)[e][s] = <<>>
         /\ \A d \in Ends, t \in Sockets : ~(d = e /\ t = s) => Without(w, e, s)[d][t] = w[d][t]
  BY WireWithout DEF Wires, Without

\* What reading a frame leaves on each socket.
LEMMA CellTook ==
  ASSUME wire \in Wires, NEW e \in Ends, NEW s \in Sockets, Arrived(e, s)
  PROVE  /\ Took(e, s) \in Wires /\ Took(e, s)[e][s] = Tail(wire[e][s])
         /\ \A d \in Ends, t \in Sockets : ~(d = e /\ t = s) => Took(e, s)[d][t] = wire[d][t]
         /\ wire[e][s] # <<>> /\ wire[e][s] \in Seq(Numbered)
<1>1. Took(e, s) \in Wires
  BY WireTook
<1> QED BY <1>1 DEF Took, Wires, Arrived

\* The two ends, by name.
LEMMA EndNames ==
  /\ H \in Ends /\ S \in Ends /\ H # S /\ Other(H) = S /\ Other(S) = H
  /\ \A e \in Ends : e = H \/ e = S
  BY DEF H, S, Ends, Other

\* The host writes on the first socket: not an offer, not its release.
LEMMA HostWrites ==
  ASSUME NEW w \in Wires, NEW r \in [Ends -> Nat], NEW s \in [Ends -> Nat], NEW safe \in BOOLEAN,
         NEW p \in Nat, NEW a \in Nat, Lanes(w, r, s, safe, p, a),
         NEW f \in Numbered, f.seq = s[H] + 1, f.kind \notin {"safe", "path"},
         Old \in open[S], Old \in Sockets
  PROVE  /\ Put(w, H, Old, f) \in Wires /\ Beside(w, Put(w, H, Old, f))
         /\ Lanes(Put(w, H, Old, f), r, [s EXCEPT ![H] = @ + 1], safe, p, a)
<1> DEFINE x == Put(w, H, Old, f)
           z == [s EXCEPT ![H] = @ + 1]
<1>0. /\ x \in Wires /\ x[S][Old] = Append(w[S][Old], f)
      /\ \A d \in Ends, t \in Sockets : ~(d = S /\ t = Old) => x[d][t] = w[d][t]
  <2>1. Other(H) = S /\ H \in Ends
    BY EndNames
  <2>2. Old \in open[Other(H)]
    BY <2>1
  <2>3. x \in Wires
    BY <2>1, <2>2, CellPut
  <2>4. x[Other(H)][Old] = Append(w[Other(H)][Old], f)
    BY <2>1, <2>2, CellPut
  <2>5. \A d \in Ends, t \in Sockets : ~(d = Other(H) /\ t = Old) => x[d][t] = w[d][t]
    BY <2>1, <2>2, CellPut
  <2> QED BY <2>1, <2>3, <2>4, <2>5
<1> HIDE DEF x
<1>1. /\ x \in Wires /\ x[S][Old] = Append(w[S][Old], f) /\ x[H][Old] = w[H][Old]
      /\ Beside(w, x)
  BY <1>0, EndNames DEF Beside
<1>2. w[S][Old] \in Seq(Numbered) /\ r[S] \in Nat /\ s[H] \in Nat
  BY EndNames DEF Wires
<1>3. z[H] = s[H] + 1 /\ z[S] = s[S]
  BY EndNames
<1> HIDE DEF x, z
<1>4. ToSender(w[S][Old], r[S], s[H], p, a) /\ ToHost(w[H][Old], r[H], s[S], safe)
  BY DEF Lanes
<1>5. Run(Append(w[S][Old], f), r[S], s[H] + 1)
  BY <1>2, <1>4, RunAppend DEF ToSender
<1>6. Lacks(Append(w[S][Old], f), "safe")
  BY <1>2, <1>4, LacksAppend DEF ToSender
<1>7. Offers(Append(w[S][Old], f), p, a)
  BY <1>2, <1>4, OffersAppend DEF ToSender
<1>8. ToSender(x[S][Old], r[S], z[H], p, a)
  BY <1>1, <1>3, <1>5, <1>6, <1>7 DEF ToSender
<1>9. ToHost(x[H][Old], r[H], z[S], safe)
  BY <1>1, <1>3, <1>4
<1>10. Lanes(x, r, z, safe, p, a)
  BY <1>8, <1>9 DEF Lanes
<1> QED BY <1>1, <1>10 DEF x, z

\* The sender writes on the first socket, its release not being there.
LEMMA SenderWrites ==
  ASSUME NEW w \in Wires, NEW r \in [Ends -> Nat], NEW s \in [Ends -> Nat], NEW safe \in BOOLEAN,
         NEW p \in Nat, NEW a \in Nat, Lanes(w, r, s, FALSE, p, a),
         NEW f \in Numbered, f.seq = s[S] + 1, f.kind = "safe" => safe,
         Old \in open[H], Old \in Sockets
  PROVE  /\ Put(w, S, Old, f) \in Wires /\ Beside(w, Put(w, S, Old, f))
         /\ Lanes(Put(w, S, Old, f), r, [s EXCEPT ![S] = @ + 1], safe, p, a)
<1> DEFINE x == Put(w, S, Old, f)
           z == [s EXCEPT ![S] = @ + 1]
<1>0. /\ x \in Wires /\ x[H][Old] = Append(w[H][Old], f)
      /\ \A d \in Ends, t \in Sockets : ~(d = H /\ t = Old) => x[d][t] = w[d][t]
  <2>1. Other(S) = H /\ S \in Ends
    BY EndNames
  <2>2. Old \in open[Other(S)]
    BY <2>1
  <2>3. x \in Wires
    BY <2>1, <2>2, CellPut
  <2>4. x[Other(S)][Old] = Append(w[Other(S)][Old], f)
    BY <2>1, <2>2, CellPut
  <2>5. \A d \in Ends, t \in Sockets : ~(d = Other(S) /\ t = Old) => x[d][t] = w[d][t]
    BY <2>1, <2>2, CellPut
  <2> QED BY <2>1, <2>3, <2>4, <2>5
<1> HIDE DEF x
<1>1. /\ x \in Wires /\ x[H][Old] = Append(w[H][Old], f) /\ x[S][Old] = w[S][Old]
      /\ Beside(w, x)
  BY <1>0, EndNames DEF Beside
<1>2. w[H][Old] \in Seq(Numbered) /\ r[H] \in Nat /\ s[S] \in Nat
  BY EndNames DEF Wires
<1>3. z[S] = s[S] + 1 /\ z[H] = s[H]
  BY EndNames
<1> HIDE DEF x, z
<1>4. /\ ToSender(w[S][Old], r[S], s[H], p, a)
      /\ Run(w[H][Old], r[H], s[S]) /\ Lacks(w[H][Old], "safe")
  BY DEF Lanes, ToHost
<1>5. Run(Append(w[H][Old], f), r[H], s[S] + 1)
  BY <1>2, <1>4, RunAppend
<1>6. ~safe => Lacks(Append(w[H][Old], f), "safe")
  BY <1>2, <1>4, LacksAppend
<1>7. Closing(Append(w[H][Old], f), "safe")
  BY <1>2, <1>4, ClosingAppend
<1>8. ToHost(x[H][Old], r[H], z[S], safe)
  BY <1>1, <1>3, <1>5, <1>6, <1>7 DEF ToHost
<1>9. ToSender(x[S][Old], r[S], z[H], p, a)
  BY <1>1, <1>3, <1>4
<1>10. Lanes(x, r, z, safe, p, a)
  BY <1>8, <1>9 DEF Lanes
<1> QED BY <1>1, <1>10 DEF x, z

\* An end reads the first socket: the frame is the next one.
LEMMA LaneRead ==
  ASSUME wire \in Wires, NEW r \in [Ends -> Nat], NEW s \in [Ends -> Nat], NEW safe \in BOOLEAN,
         NEW p \in Nat, NEW a \in Nat, Lanes(wire, r, s, safe, p, a),
         NEW e \in Ends, Arrived(e, Old), Old \in Sockets
  PROVE  /\ Head(wire[e][Old]).seq = r[e] + 1
         /\ Took(e, Old) \in Wires /\ Beside(wire, Took(e, Old))
         /\ Lanes(Took(e, Old), [r EXCEPT ![e] = r[e] + 1], s, safe, p, a)
<1> DEFINE x == Took(e, Old)
           z == [r EXCEPT ![e] = r[e] + 1]
           q == wire[e][Old]
<1>1. /\ x \in Wires /\ x[e][Old] = Tail(q) /\ q # <<>> /\ q \in Seq(Numbered)
      /\ x[Other(e)][Old] = wire[Other(e)][Old]
  BY CellTook, OtherEnd
<1>2. Beside(wire, x)
  BY CellTook DEF Beside
<1>3. z[e] = r[e] + 1 /\ z[Other(e)] = r[Other(e)] /\ r[e] \in Nat /\ s[Other(e)] \in Nat
  BY OtherEnd
<1> HIDE DEF x, z
<1>4. ToSender(wire[S][Old], r[S], s[H], p, a) /\ ToHost(wire[H][Old], r[H], s[S], safe)
  BY DEF Lanes
<1>5. Run(q, r[e], s[Other(e)])
  BY <1>4, EndNames DEF ToSender, ToHost
<1>6. Head(q).seq = r[e] + 1 /\ Run(Tail(q), r[e] + 1, s[Other(e)])
  BY <1>1, <1>3, <1>5, RunTail
<1>7. CASE e = H
  <2>1. Closing(q, "safe") /\ (~safe => Lacks(q, "safe"))
    BY <1>4, <1>7 DEF ToHost
  <2>2. Closing(Tail(q), "safe") /\ (~safe => Lacks(Tail(q), "safe"))
    BY <1>1, <2>1, ClosingTail, LacksTail
  <2>3. ToHost(x[H][Old], z[H], s[S], safe)
    BY <1>1, <1>3, <1>6, <1>7, <2>2, EndNames DEF ToHost
  <2>4. ToSender(x[S][Old], z[S], s[H], p, a)
    BY <1>1, <1>3, <1>4, <1>7, EndNames
  <2> QED BY <1>1, <1>2, <1>6, <2>3, <2>4 DEF Lanes, x, z
<1>8. CASE e = S
  <2>1. Lacks(q, "safe") /\ Offers(q, p, a)
    BY <1>4, <1>8 DEF ToSender
  <2>2. Lacks(Tail(q), "safe") /\ Offers(Tail(q), p, a)
    BY <1>1, <2>1, LacksTail, OffersTail
  <2>3. ToSender(x[S][Old], z[S], s[H], p, a)
    BY <1>1, <1>3, <1>6, <1>8, <2>2, EndNames DEF ToSender
  <2>4. ToHost(x[H][Old], z[H], s[S], safe)
    BY <1>1, <1>3, <1>4, <1>8, EndNames
  <2> QED BY <1>1, <1>2, <1>6, <2>3, <2>4 DEF Lanes, x, z
<1> QED BY <1>7, <1>8, EndNames

\* Closing the socket of a group.
LEMMA LaneClosed ==
  ASSUME NEW w \in Wires, NEW r, NEW s, NEW safe, NEW p, NEW a, Lanes(w, r, s, safe, p, a),
         NEW e \in Ends, NEW t \in Sockets, t # Old, Old \in Sockets
  PROVE  /\ Without(w, e, t) \in Wires /\ Lanes(Without(w, e, t), r, s, safe, p, a)
         /\ Bare(w) => Bare(Without(w, e, t))
<1> DEFINE x == Without(w, e, t)
<1>1. x \in Wires /\ x[H][Old] = w[H][Old] /\ x[S][Old] = w[S][Old]
  BY CellWithout, EndNames
<1>2. \A d \in Ends, u \in Sockets : x[d][u] = w[d][u] \/ x[d][u] = <<>>
  BY CellWithout
<1> HIDE DEF x
<1>3. Bare(w) => Bare(x)
  BY <1>2, EndNames DEF Bare
<1>4. Lanes(x, r, s, safe, p, a)
  BY <1>1 DEF Lanes
<1> QED BY <1>1, <1>3, <1>4 DEF x

-----------------------------------------------------------------------------
(* Steps while both ends use the first socket *)

\* Types and shape, before and after a step.
Grounded == HandoverInv /\ HandoverInv' /\ Shaped /\ Shaped'

\* The types the steps rely on.
LEMMA Ground ==
  ASSUME Grounded
  PROVE  /\ wire \in Wires /\ wire' \in Wires /\ Old \in Sockets /\ Old = 0
         /\ sendSeq \in [Ends -> Nat] /\ recvSeq \in [Ends -> Nat]
         /\ deferred \in [Ends -> Seq(Numbered)]
         /\ attempts \in Nat /\ attempts' \in Nat /\ path \in Nat /\ path' \in Nat
         /\ attempts \in Sockets /\ attempts' \in Sockets /\ path \in Sockets /\ path' \in Sockets
         /\ sock \in [Ends -> Sockets]
         /\ DOMAIN st = Ends /\ DOMAIN open = Ends
<1>1. HandoverTypes /\ HandoverTypes' /\ Placed /\ Placed'
  BY DEF Grounded, HandoverInv, HandoverTypes
<1>2. Sockets \subseteq Nat /\ Old \in Sockets /\ Old = 0
  BY <1>1 DEF HandoverTypes, Sockets, Old
<1>3. wire' \in Wires
  BY <1>1 DEF HandoverTypes
<1>4. attempts' \in Sockets /\ path' \in Sockets
  BY <1>1 DEF Placed
<1>5. DOMAIN st = Ends /\ DOMAIN open = Ends
  BY DEF Grounded, Shaped
<1> QED BY <1>1, <1>2, <1>3, <1>4, <1>5 DEF HandoverTypes, Placed

\* The sockets of the groups stay bare as long as they carry the same.
LEMMA BareBeside ==
  ASSUME NEW w, NEW x, Bare(w), Beside(w, x)
  PROVE  Bare(x)
  BY EndNames DEF Bare, Beside

\* The host writes a frame on the first socket.
LEMMA HostWritten ==
  ASSUME Grounded, NEW w \in Wires, NEW r \in [Ends -> Nat], NEW safe \in BOOLEAN,
         NEW p \in Nat, NEW a \in Nat, Lanes(w, r, sendSeq, safe, p, a), Old \in open[S],
         NEW kind \in Kinds \ {"safe", "path"}, NEW n \in Nat, Count(H, 1)
  PROVE  LET x == Put(w, H, Old, Encrypted(H, 1, kind, n))
         IN  x \in Wires /\ Beside(w, x) /\ Lanes(x, r, sendSeq', safe, p, a)
<1> DEFINE f == Encrypted(H, 1, kind, n)
<1>1. sendSeq \in [Ends -> Nat] /\ Old \in Sockets /\ sendSeq[H] + 1 \in Nat
  BY Ground, EndNames
<1>2. f \in Numbered /\ f.seq = sendSeq[H] + 1 /\ f.kind = kind /\ f.kind \notin {"safe", "path"}
  BY <1>1 DEF Encrypted, Numbered
<1>3. sendSeq' = [sendSeq EXCEPT ![H] = @ + 1]
  BY DEF Count
<1> HIDE DEF f
<1>4. /\ Put(w, H, Old, f) \in Wires /\ Beside(w, Put(w, H, Old, f))
      /\ Lanes(Put(w, H, Old, f), r, [sendSeq EXCEPT ![H] = @ + 1], safe, p, a)
  BY <1>1, <1>2, HostWrites
<1> QED BY <1>3, <1>4 DEF f

\* The sender writes a frame on the first socket.
LEMMA SenderWritten ==
  ASSUME Grounded, NEW w \in Wires, NEW r \in [Ends -> Nat], NEW safe \in BOOLEAN,
         NEW p \in Nat, NEW a \in Nat, Lanes(w, r, sendSeq, safe, p, a), ~safe, Old \in open[H],
         NEW kind \in Kinds \ {"safe", "path"}, NEW n \in Nat, Count(S, 1)
  PROVE  LET x == Put(w, S, Old, Encrypted(S, 1, kind, n))
         IN  x \in Wires /\ Beside(w, x) /\ Lanes(x, r, sendSeq', safe, p, a)
<1> DEFINE f == Encrypted(S, 1, kind, n)
<1>1. sendSeq \in [Ends -> Nat] /\ Old \in Sockets /\ sendSeq[S] + 1 \in Nat
  BY Ground, EndNames
<1>2. f \in Numbered /\ f.seq = sendSeq[S] + 1 /\ f.kind = kind /\ f.kind \notin {"safe", "path"}
  BY <1>1 DEF Encrypted, Numbered
<1>3. sendSeq' = [sendSeq EXCEPT ![S] = @ + 1]
  BY DEF Count
<1> HIDE DEF f
<1>4. /\ Put(w, S, Old, f) \in Wires /\ Beside(w, Put(w, S, Old, f))
      /\ Lanes(Put(w, S, Old, f), r, [sendSeq EXCEPT ![S] = @ + 1], safe, p, a)
  BY <1>1, <1>2, SenderWrites
<1> QED BY <1>3, <1>4 DEF f

\* Either end writes a frame on the first socket.
LEMMA Written ==
  ASSUME Grounded, NEW w \in Wires, NEW r \in [Ends -> Nat], NEW safe \in BOOLEAN,
         NEW p \in Nat, NEW a \in Nat, NEW e \in Ends,
         Lanes(w, r, sendSeq, safe, p, a), e = S => ~safe, Old \in open[Other(e)],
         NEW kind \in Kinds \ {"safe", "path"}, NEW n \in Nat, Count(e, 1)
  PROVE  LET x == Put(w, e, Old, Encrypted(e, 1, kind, n))
         IN  x \in Wires /\ Beside(w, x) /\ Lanes(x, r, sendSeq', safe, p, a)
<1>1. CASE e = H
  <2>1. Old \in open[S] /\ Count(H, 1)
    BY <1>1, EndNames
  <2> QED BY <1>1, <2>1, HostWritten
<1>2. CASE e = S
  <2>1. Old \in open[H] /\ Count(S, 1) /\ ~safe
    BY <1>2, EndNames
  <2> QED BY <1>2, <2>1, SenderWritten
<1> QED BY <1>1, <1>2, EndNames

\* The sender's release is on its way.
Freed == st[S] = "drain" /\ released

\* What both ends on the first socket can rely on.
LEMMA ApartFacts ==
  ASSUME Grounded, Apart
  PROVE  /\ Freed \in BOOLEAN /\ Made \in Nat /\ Made =< attempts /\ path =< Made
         /\ Lanes(wire, recvSeq, sendSeq, Freed, path, Made)
         /\ \A e \in Ends : sock[e] = Old /\ Old \in open[e] /\ Old \in open[Other(e)]
<1>1. Made \in Nat /\ Made =< attempts
  BY Ground, EndNames DEF Made, Apart
<1>2. Freed \in BOOLEAN
  BY DEF Freed
<1>3. Lanes(wire, recvSeq, sendSeq, Freed, path, Made)
  BY DEF Apart, Freed
<1>4. \A e \in Ends : sock[e] = Old /\ Old \in open[e] /\ Old \in open[Other(e)]
  BY EndNames DEF Apart
<1> QED BY <1>1, <1>2, <1>3, <1>4 DEF Apart

\* Nothing is wrong with the first socket.
LEMMA ApartSound ==
  ASSUME Grounded, Apart, NEW e \in Ends
  PROVE  ~Closed(e, Old) /\ (Arrived(e, Old) => Authentic(e, Head(wire[e][Old])))
<1>1. ~Closed(e, Old)
  BY ApartFacts DEF Closed
<1>2. ASSUME Arrived(e, Old) PROVE Authentic(e, Head(wire[e][Old]))
  <2>1. /\ Head(wire[e][Old]).seq = recvSeq[e] + 1
        /\ Took(e, Old) \in Wires /\ Beside(wire, Took(e, Old))
        /\ Lanes(Took(e, Old), [recvSeq EXCEPT ![e] = recvSeq[e] + 1], sendSeq, Freed, path, Made)
    BY <1>2, Ground, ApartFacts, LaneRead
  <2> QED BY <2>1 DEF Authentic
<1> QED BY <1>1, <1>2

\* A frame is decrypted off the first socket.
LEMMA ApartDecrypts ==
  ASSUME Grounded, Apart, NEW e \in Ends, Decrypt(e, Old)
  PROVE  /\ Took(e, Old) \in Wires /\ Beside(wire, Took(e, Old))
         /\ recvSeq' \in [Ends -> Nat]
         /\ Lanes(Took(e, Old), recvSeq', sendSeq, Freed, path, Made)
         /\ Arrived(e, Old)
<1>1. Arrived(e, Old) /\ recvSeq' = [recvSeq EXCEPT ![e] = Head(wire[e][Old]).seq]
  BY DEF Decrypt
<1>2. /\ Head(wire[e][Old]).seq = recvSeq[e] + 1
      /\ Took(e, Old) \in Wires /\ Beside(wire, Took(e, Old))
      /\ Lanes(Took(e, Old), [recvSeq EXCEPT ![e] = recvSeq[e] + 1], sendSeq, Freed, path, Made)
  BY <1>1, Ground, ApartFacts, LaneRead
<1>3. recvSeq[e] + 1 \in Nat /\ recvSeq \in [Ends -> Nat]
  BY Ground
<1>4. recvSeq' = [recvSeq EXCEPT ![e] = recvSeq[e] + 1]
  BY <1>1, <1>2
<1>5. recvSeq' \in [Ends -> Nat]
  BY <1>3, <1>4
<1> QED BY <1>1, <1>2, <1>4, <1>5

\* The main loop takes a frame.
LEMMA ApartTakes ==
  ASSUME Grounded, Apart, NEW e \in Ends, TakePlain(e)
  PROVE  /\ Rest(e) \in Wires /\ Beside(wire, Rest(e)) /\ recvSeq' \in [Ends -> Nat]
         /\ Lanes(Rest(e), recvSeq', sendSeq, Freed, path, Made)
         /\ Lacks(deferred'[S], "path")
<1>0. Lacks(deferred[S], "path") /\ sock[e] = Old /\ deferred \in [Ends -> Seq(Numbered)]
  BY Ground, ApartFacts DEF Apart
<1>1. CASE deferred[e] # <<>> /\ deferred' = [deferred EXCEPT ![e] = Tail(@)] /\ UNCHANGED recvSeq
  <2>1. Rest(e) = wire
    BY <1>1 DEF Rest
  <2>2. Lacks(deferred'[S], "path")
    <3>1. CASE e = S
      <4>1. deferred[S] \in Seq(Numbered) /\ deferred[S] # <<>> /\ deferred'[S] = Tail(deferred[S])
        BY <1>0, <1>1, <3>1
      <4> QED BY <1>0, <4>1, LacksTail
    <3>2. CASE e # S
      BY <1>0, <1>1, <3>2
    <3> QED BY <3>1, <3>2
  <2>3. Beside(wire, wire)
    BY DEF Beside
  <2> QED BY <1>1, <2>1, <2>2, <2>3, Ground, ApartFacts
<1>2. CASE deferred[e] = <<>> /\ Decrypt(e, sock[e]) /\ UNCHANGED deferred
  <2>1. Rest(e) = Took(e, Old) /\ Decrypt(e, Old)
    BY <1>0, <1>2 DEF Rest
  <2> QED BY <1>0, <1>2, <2>1, ApartDecrypts
<1> QED BY <1>1, <1>2 DEF TakePlain

\* Both ends on the first socket, at one of the four stages.
Quiet == Apart /\ (Single \/ Met \/ Acked \/ Releasing)

\* A step that leaves both ends on the first socket and the offers as they are.
LEMMA ApartKept ==
  ASSUME Grounded, Apart, UNCHANGED <<upgraded, sock, attempts, path, joined>>,
         Old \in open'[H], Old \in open'[S],
         Lanes(wire', recvSeq', sendSeq', Freed', path, Made),
         Lacks(deferred'[S], "path"),
         st'[H] = "group" => st[H] = "group",
         st'[H] # "run" => attempts # 0,
         st'[S] \in {"join", "ack", "drain"} => path # 0
  PROVE  Apart'
<1>1. Made' \in Nat /\ Made =< Made' /\ Made \in Nat /\ path =< Made /\ path \in Nat
  BY Ground, ApartFacts DEF Made
<1>2. ToHost(wire'[H][Old], recvSeq'[H], sendSeq'[S], Freed')
  BY DEF Lanes
<1>3. ToSender(wire'[S][Old], recvSeq'[S], sendSeq'[H], path, Made)
  BY DEF Lanes
<1>4. wire'[S][Old] \in Seq(Numbered)
  BY Ground, EndNames DEF Wires
<1>5. ToSender(wire'[S][Old], recvSeq'[S], sendSeq'[H], path, Made')
  BY <1>1, <1>3, <1>4, OffersWiden DEF ToSender
<1>6. Lanes(wire', recvSeq', sendSeq', Freed', path', Made')
  BY <1>2, <1>5 DEF Lanes
<1>7. Lanes(wire', recvSeq', sendSeq', (st'[S] = "drain" /\ released'), path', Made')
  BY <1>6 DEF Freed
<1>8. path' =< Made'
  BY <1>1
<1>9. joined' \subseteq 1 .. attempts'
  BY DEF Apart
<1> QED BY <1>7, <1>8, <1>9 DEF Apart

\* An end speaks on the first socket.
LEMMA SayApart ==
  ASSUME Grounded, Quiet, NEW e \in Ends, Say(e)
  PROVE  Quiet'
<1> USE DEF hostVars, senderVars
<1>1. Apart /\ sock[e] = Old /\ Old \in open[Other(e)]
  BY ApartFacts DEF Quiet
<1>2. /\ wire' = Put(wire, e, Old, Encrypted(e, 1, "data", said[e] + 1)) /\ Count(e, 1)
      /\ UNCHANGED <<open, sock, st, recvSeq, deferred, hostVars, senderVars>>
      /\ st[e] # "drain"
  BY <1>1 DEF Say
<1>3. said[e] + 1 \in Nat /\ "data" \in Kinds \ {"safe", "path"}
  BY DEF Grounded, HandoverInv, HandoverTypes, Kinds
<1>4. e = S => ~Freed
  BY <1>2 DEF Freed
<1>5. Beside(wire, wire') /\ Lanes(wire', recvSeq, sendSeq', Freed, path, Made)
  BY <1>1, <1>2, <1>3, <1>4, Ground, ApartFacts, Written
<1>6. Freed' = Freed
  BY <1>2 DEF Freed
<1>7. Apart'
  BY <1>1, <1>2, <1>5, <1>6, ApartKept DEF Apart
<1>8. path \in Sockets /\ (path # 0 => wire'[H][path] = wire[H][path] /\ wire'[S][path] = wire[S][path])
  BY <1>5, Ground, EndNames DEF Beside
<1>9. Bare(wire) => Bare(wire')
  BY <1>5, BareBeside
<1>10. Single => Single'
  BY <1>2, <1>9 DEF Single
<1>11. Met => Met'
  BY <1>1, <1>2, <1>8, <1>9 DEF Met, Paired, Apart, Plain
<1>12. Acked => Acked'
  BY <1>1, <1>2, <1>8 DEF Acked, Paired, Apart, Plain
<1>13. Releasing => Releasing'
  BY <1>1, <1>2, <1>8 DEF Releasing, Paired, Apart
<1> QED BY <1>7, <1>10, <1>11, <1>12, <1>13 DEF Quiet

\* The main loop of an end takes a frame that changes nothing else.
LEMMA LoopApart ==
  ASSUME Grounded, Quiet, NEW e \in Ends, Hear(e) \/ Ignore(e)
  PROVE  Quiet'
<1> USE DEF hostVars, senderVars
<1>1. /\ st[e] = "run" /\ TakePlain(e) /\ wire' = Rest(e)
      /\ UNCHANGED <<open, sock, st, sendSeq, hostVars, senderVars>>
  BY Zenon DEF Hear, Ignore
<1>2. Apart /\ Single
  BY <1>1, EndNames DEF Quiet, Met, Acked, Releasing
<1>3. /\ Beside(wire, wire') /\ Lanes(wire', recvSeq', sendSeq, Freed, path, Made)
      /\ Lacks(deferred'[S], "path")
  BY <1>1, <1>2, ApartTakes
<1>4. Freed' = Freed
  BY <1>1 DEF Freed
<1>5. Apart'
  BY <1>1, <1>2, <1>3, <1>4, ApartKept DEF Apart
<1>6. Single'
  BY <1>1, <1>2, <1>3, BareBeside DEF Single
<1> QED BY <1>5, <1>6 DEF Quiet

\* Nothing on the first socket makes an end give up.
LEMMA NoErrorApart ==
  ASSUME Grounded, Quiet
  PROVE  /\ \A e \in Ends : ~LoopError(e)
         /\ ~OfferError /\ ~OfferWaitError /\ ~DrainError
<1>1. Apart /\ sock[H] = Old /\ sock[S] = Old
  BY DEF Quiet, Apart
<1>2. \A e \in Ends : ~Closed(e, Old) /\ (Arrived(e, Old) => Authentic(e, Head(wire[e][Old])))
  BY <1>1, ApartSound
<1>3. ASSUME NEW e \in Ends PROVE ~LoopError(e)
  BY <1>1, <1>2, EndNames DEF LoopError
<1>4. ~OfferError
  BY <1>2, EndNames DEF OfferError
<1>5. ~OfferWaitError
  BY <1>2, EndNames DEF OfferWaitError
<1>6. ~DrainError
  BY <1>2, EndNames DEF DrainError
<1> QED BY <1>3, <1>4, <1>5, <1>6

\* The host makes an offer.
LEMMA OfferApart ==
  ASSUME Grounded, Quiet, OfferUnprompted \/ OfferOnRequest
  PROVE  Quiet'
<1> USE DEF hostVars, senderVars
<1>1. /\ st[H] = "run" /\ st' = [st EXCEPT ![H] = "group"] /\ attempts' = attempts + 1
      /\ UNCHANGED <<open, sock, sendSeq, upgraded, path, joined, released>>
  BY DEF OfferUnprompted, OfferOnRequest, Offer, Go
<1>2. Apart /\ Single
  BY <1>1 DEF Quiet, Met, Acked, Releasing
<1>3. st'[H] = "group" /\ st'[S] = st[S]
  BY <1>1, Ground, EndNames
<1>4. Freed' = Freed /\ Made = attempts /\ Made' = attempts
  BY <1>1, <1>3, Ground DEF Freed, Made
<1>5. /\ Beside(wire, wire') /\ Lanes(wire', recvSeq', sendSeq, Freed, path, Made)
      /\ Lacks(deferred'[S], "path")
  <2>1. CASE OfferUnprompted
    <3>1. UNCHANGED <<wire, recvSeq, deferred>>
      BY <2>1 DEF OfferUnprompted
    <3>2. Beside(wire, wire)
      BY DEF Beside
    <3> QED BY <1>2, <3>1, <3>2, ApartFacts DEF Apart
  <2>2. CASE OfferOnRequest
    <3>1. TakePlain(H) /\ wire' = Rest(H)
      BY <2>2 DEF OfferOnRequest
    <3> QED BY <1>2, <3>1, ApartTakes, EndNames
  <2> QED BY <2>1, <2>2
<1>6. Lanes(wire', recvSeq', sendSeq', (st'[S] = "drain" /\ released'), path', Made')
  BY <1>1, <1>4, <1>5 DEF Freed
<1>7. joined' \subseteq 1 .. attempts' /\ attempts' \notin joined' /\ attempts' # 0 /\ path' =< Made'
  BY <1>1, <1>2, <1>4, Ground DEF Apart
<1>8. Apart'
  BY <1>1, <1>2, <1>3, <1>5, <1>6, <1>7 DEF Apart
<1>9. Single'
  BY <1>2, <1>3, <1>5, <1>7, BareBeside DEF Single
<1> QED BY <1>8, <1>9 DEF Quiet

\* The host declines a request.
LEMMA DeclineApart ==
  ASSUME Grounded, Quiet, DeclineRequest
  PROVE  Quiet'
<1> USE DEF hostVars, senderVars
<1>1. /\ st[H] = "run" /\ TakePlain(H) /\ Count(H, 1)
      /\ wire' = Put(Rest(H), H, sock[H], Encrypted(H, 1, "failure", 0))
      /\ UNCHANGED <<open, sock, st, hostVars, senderVars>>
  BY DEF DeclineRequest
<1>2. Apart /\ Single
  BY <1>1 DEF Quiet, Met, Acked, Releasing
<1>3. /\ Rest(H) \in Wires /\ Beside(wire, Rest(H)) /\ recvSeq' \in [Ends -> Nat]
      /\ Lanes(Rest(H), recvSeq', sendSeq, Freed, path, Made) /\ Lacks(deferred'[S], "path")
  BY <1>1, <1>2, ApartTakes, EndNames
<1>4. /\ sock[H] = Old /\ Old \in open[S] /\ "failure" \in Kinds \ {"safe", "path"}
      /\ 0 \in Nat
  BY <1>2, ApartFacts, EndNames DEF Kinds
<1>x. wire' = Put(Rest(H), H, Old, Encrypted(H, 1, "failure", 0))
  BY <1>1, <1>4
<1>5. Beside(Rest(H), wire') /\ Lanes(wire', recvSeq', sendSeq', Freed, path, Made)
  <2>1. path \in Nat /\ Made \in Nat /\ Freed \in BOOLEAN
    BY <1>2, Ground, ApartFacts
  <2>2. LET x == Put(Rest(H), H, Old, Encrypted(H, 1, "failure", 0))
        IN  x \in Wires /\ Beside(Rest(H), x) /\ Lanes(x, recvSeq', sendSeq', Freed, path, Made)
    BY <1>1, <1>3, <1>4, <2>1, HostWritten
  <2> QED BY <1>x, <2>2
<1>6. Freed' = Freed
  BY <1>1 DEF Freed
<1>7. Apart'
  BY <1>1, <1>2, <1>3, <1>5, <1>6, ApartKept DEF Apart
<1>8. Single'
  BY <1>1, <1>2, <1>3, <1>5, BareBeside DEF Single
<1> QED BY <1>7, <1>8 DEF Quiet

\* An end keeps a frame of the first socket for later, or lets it go.
LEMMA SetAside ==
  ASSUME Grounded, Apart, NEW e \in Ends, Decrypt(e, Old),
         wire' = Took(e, Old) /\ UNCHANGED <<open, sock, sendSeq, hostVars, path, joined, released>>,
         \/ UNCHANGED deferred
         \/ /\ deferred' = [deferred EXCEPT ![e] = Append(@, Head(wire[e][Old]))]
            /\ e = S => Head(wire[e][Old]).kind # "path",
         st'[H] = st[H],
         st'[S] = st[S] \/ (st[S] # "drain" /\ st'[S] = "run")
  PROVE  Apart' /\ Beside(wire, wire')
<1> USE DEF hostVars
<1>1. Beside(wire, wire') /\ Lanes(wire', recvSeq', sendSeq, Freed, path, Made) /\ Arrived(e, Old)
  BY ApartDecrypts
<1>2. Freed' = Freed
  BY DEF Freed
<1>3. Lacks(deferred'[S], "path")
  <2>0. Lacks(deferred[S], "path") /\ deferred \in [Ends -> Seq(Numbered)]
    BY Ground DEF Apart
  <2>1. CASE UNCHANGED deferred
    BY <2>0, <2>1
  <2>2. CASE /\ deferred' = [deferred EXCEPT ![e] = Append(@, Head(wire[e][Old]))]
             /\ e = S => Head(wire[e][Old]).kind # "path"
    <3>1. CASE e = S
      <4>1. Head(wire[e][Old]) \in Numbered
        BY <1>1, Ground, WireTook
      <4>2. deferred[S] \in Seq(Numbered) /\ deferred'[S] = Append(deferred[S], Head(wire[e][Old]))
        BY <2>0, <2>2, <3>1
      <4> QED BY <2>0, <2>2, <3>1, <4>1, <4>2, LacksAppend
    <3>2. CASE e # S
      BY <2>0, <2>2, <3>2
    <3> QED BY <3>1, <3>2
  <2> QED BY <2>1, <2>2
<1>4. Apart'
  BY <1>1, <1>2, <1>3, ApartKept DEF Apart
<1> QED BY <1>1, <1>4

\* What the groups' sockets and the threads' places say survives a step that
\* changes neither.
LEMMA StageKept ==
  ASSUME Grounded, Quiet, Beside(wire, wire'), UNCHANGED <<open, st, attempts, path, joined>>, Apart'
  PROVE  Quiet'
<1>1. path \in Sockets /\ (path # 0 => wire'[H][path] = wire[H][path] /\ wire'[S][path] = wire[S][path])
  BY Ground, EndNames DEF Beside
<1>2. Bare(wire) => Bare(wire')
  BY BareBeside
<1>3. Single => Single'
  BY <1>2 DEF Single
<1>4. Met => Met'
  BY <1>1, <1>2 DEF Met, Paired, Quiet, Apart, Plain
<1>5. Acked => Acked'
  BY <1>1 DEF Acked, Paired, Quiet, Apart, Plain
<1>6. Releasing => Releasing'
  BY <1>1 DEF Releasing, Paired, Quiet, Apart
<1> QED BY <1>3, <1>4, <1>5, <1>6 DEF Quiet

\* The host drains the first socket.
LEMMA DrainApart ==
  ASSUME Grounded, Quiet, Drain \/ ReleaseOther
  PROVE  Quiet'
<1> USE DEF hostVars, senderVars
<1>1. /\ Decrypt(H, Old) /\ wire' = Took(H, Old)
      /\ UNCHANGED <<open, sock, st, sendSeq, hostVars, path, joined, released>>
      /\ UNCHANGED deferred \/ deferred' = [deferred EXCEPT ![H] = Append(@, Head(wire[H][Old]))]
  BY DEF Drain, ReleaseOther, Defer
<1>2. Apart' /\ Beside(wire, wire')
  BY <1>1, EndNames, SetAside DEF Quiet
<1> QED BY <1>1, <1>2, StageKept

\* An end stays on the first socket and says so.
LEMMA StayApart ==
  ASSUME Grounded, Apart, Single \/ Met, NEW e \in Ends, NEW new \in Sockets, new # Old,
         st[e] # "run", e = S => Single,
         StayPut(e, new), UNCHANGED <<sock, recvSeq, deferred, hostVars, senderVars>>
  PROVE  Quiet'
<1> USE DEF hostVars, senderVars
<1>1. /\ wire' = Put(Without(wire, e, new), e, Old, Encrypted(e, 1, "failure", 0))
      /\ Count(e, 1) /\ open' = [open EXCEPT ![e] = @ \ {new}] /\ st' = [st EXCEPT ![e] = "run"]
  BY ApartFacts DEF StayPut, Shut, Go
<1>2. st[S] # "drain" /\ Freed = FALSE
  BY DEF Single, Met, Freed
<1>3. st'[e] = "run" /\ st'[Other(e)] = st[Other(e)]
  BY <1>1, Ground, OtherEnd
<1>4. Freed' = FALSE
  BY <1>2, <1>3, EndNames DEF Freed
<1>5. Old \in open'[H] /\ Old \in open'[S]
  BY <1>1, Ground, EndNames DEF Apart
<1>6. Bare(wire) /\ Lanes(wire, recvSeq, sendSeq, Freed, path, Made)
  BY ApartFacts DEF Single, Met
<1>7. /\ Without(wire, e, new) \in Wires /\ Bare(Without(wire, e, new))
      /\ Lanes(Without(wire, e, new), recvSeq, sendSeq, Freed, path, Made)
  BY <1>6, Ground, LaneClosed
<1>8. "failure" \in Kinds \ {"safe", "path"} /\ Old \in open[Other(e)] /\ 0 \in Nat
  BY ApartFacts DEF Kinds
<1>9. /\ Beside(Without(wire, e, new), wire')
      /\ Lanes(wire', recvSeq, sendSeq', Freed, path, Made)
  BY <1>1, <1>2, <1>7, <1>8, Ground, ApartFacts, Written
<1>10. Bare(wire')
  BY <1>7, <1>9, BareBeside
<1>11. Apart'
  <2>1. st'[H] = "group" => st[H] = "group"
    BY <1>3, EndNames
  <2>2. (st'[H] # "run" => attempts # 0) /\ (st'[S] \in {"join", "ack", "drain"} => path # 0)
    BY <1>3, EndNames DEF Apart
  <2>3. Lanes(wire', recvSeq', sendSeq', Freed', path, Made)
    BY <1>2, <1>4, <1>9
  <2> QED BY <1>5, <2>1, <2>2, <2>3, ApartKept DEF Apart
<1>12. Single'
  <2>1. CASE e = H
    <3>1. st'[H] = "run" /\ st'[S] = st[S] /\ st[S] \in {"run", "offer", "join", "ack"}
      BY <1>3, <2>1, EndNames DEF Single, Met
    <3> QED BY <1>10, <3>1 DEF Single
  <2>2. CASE e = S
    <3>1. st'[S] = "run" /\ st'[H] = st[H] /\ Single
      BY <1>3, <2>2, EndNames
    <3> QED BY <1>10, <3>1 DEF Single
  <2> QED BY <2>1, <2>2, EndNames
<1> QED BY <1>11, <1>12 DEF Quiet

\* No group, nobody at the listener, no introduction: the host stays.
LEMMA HostStays ==
  ASSUME Grounded, Quiet, NoGroup \/ JoinTimeout \/ IntroTimeout
  PROVE  Quiet'
<1>1. /\ st[H] \in {"group", "listen", "intro"} /\ StayPut(H, attempts)
      /\ UNCHANGED <<sock, recvSeq, deferred, hostVars, senderVars>>
  BY DEF NoGroup, JoinTimeout, IntroTimeout
<1>2. Apart /\ (Single \/ Met)
  BY <1>1 DEF Quiet, Acked, Releasing
<1>3. attempts \in Sockets /\ attempts # Old /\ st[H] # "run" /\ H # S
  BY <1>1, <1>2, Ground, EndNames DEF Apart
<1> QED BY <1>1, <1>2, <1>3, EndNames, StayApart

\* The sender cannot join, or finds the socket of its offer closed.
LEMMA SenderStays ==
  ASSUME Grounded, Quiet, JoinFails \/ AckError
  PROVE  Quiet'
<1>1. /\ st[S] \in {"join", "ack"} /\ StayPut(S, path)
      /\ UNCHANGED <<sock, recvSeq, deferred, hostVars, senderVars>>
      /\ st[S] = "ack" => Closed(S, path)
  BY DEF JoinFails, AckError
<1>2. ~Met
  BY <1>1, EndNames DEF Met, Paired, Closed
<1>3. ~Acked
  <2> SUFFICES ASSUME Acked PROVE FALSE
    OBVIOUS
  <2>1. wire[S][path] = <<Plain("ack")>> /\ st[S] = "ack"
    BY DEF Acked
  <2>2. wire[S][path] # <<>>
    BY <2>1
  <2> QED BY <1>1, <2>1, <2>2 DEF Closed, Arrived
<1>4. Apart /\ Single
  BY <1>1, <1>2, <1>3 DEF Quiet, Releasing
<1>5. path \in Sockets /\ path # Old /\ st[S] # "run"
  BY <1>1, <1>4, Ground DEF Apart
<1> QED BY <1>1, <1>4, <1>5, EndNames, StayApart

\* The group is up: the offer goes out.
LEMMA GroupApart ==
  ASSUME Grounded, Quiet, Group
  PROVE  Quiet'
<1> USE DEF hostVars, senderVars
<1> DEFINE f == Encrypted(H, 1, "path", attempts)
           q == wire[S][Old]
<1>1. /\ st[H] = "group" /\ st' = [st EXCEPT ![H] = "listen"]
      /\ wire' = Put(wire, H, Old, f) /\ sendSeq' = [sendSeq EXCEPT ![H] = @ + 1]
      /\ UNCHANGED <<open, sock, recvSeq, deferred, hostVars, senderVars>>
  BY DEF Group, Go, Count
<1>2. Apart /\ Single
  BY <1>1 DEF Quiet, Met, Acked, Releasing
<1>3. st'[H] = "listen" /\ st'[S] = st[S]
  BY <1>1, Ground, EndNames
<1>4. Freed' = Freed /\ Made = attempts - 1 /\ Made' = attempts /\ attempts # 0
  BY <1>1, <1>2, <1>3, Ground DEF Freed, Made, Apart
<1>5. sendSeq[H] + 1 \in Nat /\ sendSeq[H] \in Nat /\ recvSeq[S] \in Nat
  BY Ground, EndNames
<1>6. f \in Numbered /\ f.seq = sendSeq[H] + 1 /\ f.kind = "path" /\ f.n = attempts
  BY <1>5, Ground DEF Encrypted, Numbered, Kinds
<1>7. q \in Seq(Numbered) /\ Old \in open[Other(H)]
  BY <1>2, Ground, ApartFacts, EndNames DEF Wires
<1> HIDE DEF f
<1>8. /\ wire'[S][Old] = Append(q, f)
      /\ \A d \in Ends, t \in Sockets : ~(d = S /\ t = Old) => wire'[d][t] = wire[d][t]
  <2>1. Other(H) = S /\ H \in Ends /\ wire \in Wires /\ Old \in Sockets
    BY Ground, EndNames
  <2>2. Put(wire, H, Old, f)[Other(H)][Old] = Append(wire[Other(H)][Old], f)
    BY <1>6, <1>7, <2>1, CellPut
  <2>3. \A d \in Ends, t \in Sockets :
           ~(d = Other(H) /\ t = Old) => Put(wire, H, Old, f)[d][t] = wire[d][t]
    BY <1>6, <1>7, <2>1, CellPut
  <2> QED BY <1>1, <2>1, <2>2, <2>3
<1>9. Beside(wire, wire') /\ wire'[H][Old] = wire[H][Old]
  BY <1>8, Ground, EndNames DEF Beside
<1>10. /\ ToHost(wire[H][Old], recvSeq[H], sendSeq[S], Freed)
       /\ ToSender(q, recvSeq[S], sendSeq[H], path, Made)
  BY <1>2, ApartFacts DEF Lanes
<1>11. sendSeq'[H] = sendSeq[H] + 1 /\ sendSeq'[S] = sendSeq[S]
  BY <1>1, Ground, EndNames
<1> HIDE DEF q
<1>12. Run(Append(q, f), recvSeq[S], sendSeq[H] + 1)
  BY <1>5, <1>6, <1>7, <1>10, RunAppend DEF ToSender
<1>13. Lacks(Append(q, f), "safe")
  BY <1>6, <1>7, <1>10, LacksAppend DEF ToSender
<1>14. Offers(Append(q, f), path, attempts)
  <2>1. /\ Made \in Nat /\ path \in Nat /\ attempts \in Nat /\ Made =< attempts
        /\ path < attempts /\ Made < attempts
    BY <1>2, <1>4, Ground, ApartFacts
  <2> QED BY <1>6, <1>7, <1>10, <2>1, OffersAppend DEF ToSender
<1>15. ToSender(wire'[S][Old], recvSeq'[S], sendSeq'[H], path', Made')
  BY <1>1, <1>4, <1>8, <1>11, <1>12, <1>13, <1>14 DEF ToSender
<1>16. ToHost(wire'[H][Old], recvSeq'[H], sendSeq'[S], Freed')
  BY <1>1, <1>4, <1>9, <1>10, <1>11
<1>17. Lanes(wire', recvSeq', sendSeq', (st'[S] = "drain" /\ released'), path', Made')
  BY <1>15, <1>16 DEF Lanes, Freed
<1>18. path' =< Made' /\ attempts' # 0
  BY <1>1, <1>2, <1>4, Ground, ApartFacts
<1>19. Apart'
  BY <1>1, <1>2, <1>3, <1>17, <1>18 DEF Apart
<1>20. Single'
  BY <1>1, <1>2, <1>3, <1>9, BareBeside DEF Single
<1> QED BY <1>19, <1>20 DEF Quiet

\* The sender has come: the host turns to its socket.
LEMMA AcceptApart ==
  ASSUME Grounded, Quiet, Accept
  PROVE  Quiet'
<1> USE DEF hostVars, senderVars, transport
<1>1. /\ st[H] = "listen" /\ attempts \in joined /\ st' = [st EXCEPT ![H] = "intro"]
      /\ UNCHANGED <<wire, open, sock, sendSeq, recvSeq, deferred, hostVars, senderVars>>
  BY DEF Accept, Go
<1>2. Apart /\ Met
  BY <1>1 DEF Quiet, Single, Acked, Releasing
<1>3. st'[H] = "intro" /\ st'[S] = st[S]
  BY <1>1, Ground, EndNames
<1>4. Freed' = Freed
  BY <1>1, <1>3 DEF Freed
<1>5. Lanes(wire', recvSeq', sendSeq', Freed', path, Made)
  BY <1>1, <1>2, <1>4, ApartFacts
<1>6. Apart'
  BY <1>1, <1>2, <1>3, <1>5, ApartKept DEF Apart
<1>7. Met'
  BY <1>1, <1>2, <1>3 DEF Met, Paired, Plain, Bare
<1> QED BY <1>6, <1>7 DEF Quiet

\* The introduction is acknowledged, and the host writes its last.
LEMMA IntroducedApart ==
  ASSUME Grounded, Quiet, Introduced
  PROVE  Quiet'
<1> USE DEF hostVars, senderVars
<1> DEFINE w == Took(H, path)
           v == Put(w, H, path, Plain("ack"))
<1>1. /\ st[H] = "intro" /\ st' = [st EXCEPT ![H] = "release"] /\ Arrived(H, attempts)
      /\ wire' = Put(Put(Took(H, attempts), H, attempts, Plain("ack")),
                     H, Old, Encrypted(H, 1, "last", 0))
      /\ Count(H, 1)
      /\ UNCHANGED <<open, sock, recvSeq, deferred, hostVars, senderVars>>
  BY DEF Introduced, Go
<1>2. Apart /\ Met /\ path = attempts
  BY <1>1 DEF Quiet, Single, Met, Acked, Releasing, Paired
<1>3. st'[H] = "release" /\ st'[S] = st[S]
  BY <1>1, Ground, EndNames
<1>4. path # Old /\ path \in Sockets /\ path \in open[S] /\ path \in open[H]
  BY <1>1, <1>2, Ground DEF Apart, Paired, Met
<1>5. /\ w \in Wires /\ w[H][path] = Tail(wire[H][path])
      /\ \A d \in Ends, t \in Sockets : ~(d = H /\ t = path) => w[d][t] = wire[d][t]
  BY <1>1, <1>2, <1>4, Ground, EndNames, CellTook
<1>6. w[H][path] = <<>> /\ w[S][path] = <<>>
  <2>1. wire[H][path] = <<Plain("intro")>> /\ wire[S][path] = <<>>
    BY <1>2, <1>4 DEF Met, Bare
  <2> QED BY <1>4, <1>5, <2>1, EndNames
<1>7. Plain("ack") \in Numbered
  BY DEF Plain, Numbered, Kinds
<1> HIDE DEF w
<1>8. /\ v \in Wires /\ v[S][path] = Append(w[S][path], Plain("ack"))
      /\ \A d \in Ends, t \in Sockets : ~(d = S /\ t = path) => v[d][t] = w[d][t]
  <2>1. Other(H) = S /\ H \in Ends /\ path \in open[Other(H)]
    BY <1>4, EndNames
  <2>2. v \in Wires
    BY <1>4, <1>5, <1>7, <2>1, CellPut
  <2>3. v[Other(H)][path] = Append(w[Other(H)][path], Plain("ack"))
    BY <1>4, <1>5, <1>7, <2>1, CellPut
  <2>4. \A d \in Ends, t \in Sockets : ~(d = Other(H) /\ t = path) => v[d][t] = w[d][t]
    BY <1>4, <1>5, <1>7, <2>1, CellPut
  <2> QED BY <2>1, <2>2, <2>3, <2>4
<1> HIDE DEF v
<1>9. v[S][path] = <<Plain("ack")>> /\ v[H][path] = <<>>
  BY <1>4, <1>6, <1>8, EndNames
<1>10. v[H][Old] = wire[H][Old] /\ v[S][Old] = wire[S][Old]
  BY <1>4, <1>5, <1>8, Ground, EndNames
<1>11. Lanes(v, recvSeq, sendSeq, Freed, path, Made)
  BY <1>2, <1>10, ApartFacts DEF Lanes
<1>12. "last" \in Kinds \ {"safe", "path"} /\ Old \in open[S] /\ 0 \in Nat
  BY <1>2, ApartFacts, EndNames DEF Kinds
<1>13. wire' = Put(v, H, Old, Encrypted(H, 1, "last", 0))
  BY <1>1, <1>2 DEF v, w
<1>14. Beside(v, wire') /\ Lanes(wire', recvSeq, sendSeq', Freed, path, Made)
  <2>1. path \in Nat /\ Made \in Nat /\ Freed \in BOOLEAN /\ recvSeq \in [Ends -> Nat]
    BY <1>2, Ground, ApartFacts
  <2>2. LET x == Put(v, H, Old, Encrypted(H, 1, "last", 0))
        IN  x \in Wires /\ Beside(v, x) /\ Lanes(x, recvSeq, sendSeq', Freed, path, Made)
    BY <1>1, <1>8, <1>11, <1>12, <2>1, HostWritten
  <2> QED BY <1>13, <2>2
<1>15. wire'[S][path] = <<Plain("ack")>> /\ wire'[H][path] = <<>>
  BY <1>4, <1>9, <1>14, EndNames DEF Beside
<1>16. Freed' = Freed
  BY <1>1, <1>3 DEF Freed
<1>17. Apart'
  BY <1>1, <1>2, <1>3, <1>4, <1>14, <1>16, ApartKept DEF Apart, Old
<1>18. Acked'
  BY <1>1, <1>2, <1>3, <1>15 DEF Acked, Met, Paired, Plain
<1> QED BY <1>17, <1>18 DEF Quiet

\* The sender asks for a better network.
LEMMA AskApart ==
  ASSUME Grounded, Quiet, Ask
  PROVE  Quiet'
<1> USE DEF hostVars, senderVars
<1>1. /\ st[S] = "run" /\ st' = [st EXCEPT ![S] = "offer"] /\ Count(S, 1)
      /\ wire' = Put(wire, S, Old, Encrypted(S, 1, "request", 0))
      /\ UNCHANGED <<open, sock, recvSeq, deferred, hostVars, path, joined, released>>
  BY DEF Ask, Go
<1>2. Apart /\ Single
  BY <1>1 DEF Quiet, Met, Acked, Releasing
<1>3. st'[S] = "offer" /\ st'[H] = st[H]
  BY <1>1, Ground, EndNames
<1>4. Freed = FALSE /\ Freed' = FALSE
  BY <1>1, <1>3 DEF Freed
<1>5. /\ path \in Nat /\ Made \in Nat /\ recvSeq \in [Ends -> Nat] /\ wire \in Wires /\ 0 \in Nat
      /\ Lanes(wire, recvSeq, sendSeq, FALSE, path, Made) /\ Old \in open[H]
      /\ "request" \in Kinds \ {"safe", "path"}
  BY <1>2, <1>4, Ground, ApartFacts, EndNames DEF Kinds
<1>6. LET x == Put(wire, S, Old, Encrypted(S, 1, "request", 0))
      IN  x \in Wires /\ Beside(wire, x) /\ Lanes(x, recvSeq, sendSeq', FALSE, path, Made)
  BY <1>1, <1>5, SenderWritten
<1>7. Beside(wire, wire') /\ Lanes(wire', recvSeq', sendSeq', Freed', path, Made)
  BY <1>1, <1>4, <1>6
<1>8. Apart'
  BY <1>1, <1>2, <1>3, <1>7, ApartKept DEF Apart
<1>9. Single'
  BY <1>1, <1>2, <1>3, <1>7, BareBeside DEF Single
<1> QED BY <1>8, <1>9 DEF Quiet

\* What the sender does with a frame while it waits for the answer.
LEMMA WaitApart ==
  ASSUME Grounded, Quiet, OfferOther \/ OfferRefused \/ OfferTimeout
  PROVE  Quiet'
<1> USE DEF hostVars, senderVars
<1>0. st[S] = "offer"
  BY DEF OfferOther, OfferRefused, OfferTimeout
<1>00. Apart /\ Single
  BY <1>0 DEF Quiet, Met, Acked, Releasing
<1>1. CASE OfferOther
  <2>1. /\ Decrypt(S, Old) /\ wire' = Took(S, Old)
        /\ UNCHANGED <<open, sock, st, sendSeq, hostVars, path, joined, released>>
        /\ deferred' = [deferred EXCEPT ![S] = Append(@, Head(wire[S][Old]))]
        /\ Head(wire[S][Old]).kind # "path"
    BY <1>1 DEF OfferOther, Defer
  <2>2. Apart' /\ Beside(wire, wire')
    BY <1>00, <2>1, EndNames, SetAside
  <2> QED BY <2>1, <2>2, StageKept
<1>2. CASE OfferRefused
  <2>1. /\ Decrypt(S, Old) /\ wire' = Took(S, Old) /\ st' = [st EXCEPT ![S] = "run"]
        /\ UNCHANGED <<open, sock, sendSeq, deferred, hostVars, path, joined, released>>
    BY <1>2 DEF OfferRefused, Go
  <2>2. st'[S] = "run" /\ st'[H] = st[H] /\ st[S] # "drain"
    BY <1>0, <2>1, Ground, EndNames
  <2>3. Apart' /\ Beside(wire, wire')
    BY <1>00, <2>1, <2>2, EndNames, SetAside
  <2>4. Single'
    BY <1>00, <2>1, <2>2, <2>3, BareBeside DEF Single
  <2> QED BY <2>3, <2>4 DEF Quiet
<1>3. CASE OfferTimeout
  <2>1. /\ st' = [st EXCEPT ![S] = "run"]
        /\ UNCHANGED <<wire, open, sock, sendSeq, recvSeq, deferred, hostVars, path, joined, released>>
    BY <1>3 DEF OfferTimeout, Go, transport
  <2>2. st'[S] = "run" /\ st'[H] = st[H]
    BY <2>1, Ground, EndNames
  <2>3. Freed' = Freed
    BY <1>0, <2>1, <2>2 DEF Freed
  <2>4. Lanes(wire', recvSeq', sendSeq', Freed', path, Made)
    BY <1>00, <2>1, <2>3, ApartFacts
  <2>5. Apart'
    BY <1>00, <2>1, <2>2, <2>4, ApartKept DEF Apart
  <2>6. Single'
    BY <1>00, <2>1, <2>2 DEF Single, Bare
  <2> QED BY <2>5, <2>6 DEF Quiet
<1> QED BY <1>1, <1>2, <1>3

\* An offer reaches the sender, in the wait or in the main loop.
LEMMA PathApart ==
  ASSUME Grounded, Quiet, PathAvailable
  PROVE  Quiet'
<1> USE DEF hostVars, senderVars
<1> DEFINE f == Head(wire[S][Old])
<1>1. /\ st[S] \in {"run", "offer"} /\ st' = [st EXCEPT ![S] = "join"]
      /\ UNCHANGED <<open, sock, sendSeq, hostVars, joined, released>>
  BY DEF PathAvailable, Go
<1>2. Apart /\ Single
  BY <1>1 DEF Quiet, Met, Acked, Releasing
<1>3. Decrypt(S, Old) /\ f.kind = "path" /\ path' = f.n /\ wire' = Took(S, Old) /\ UNCHANGED deferred
  <2>1. CASE /\ st[S] = "offer" /\ Decrypt(S, Old) /\ f.kind = "path"
             /\ path' = f.n /\ wire' = Took(S, Old) /\ UNCHANGED deferred
    BY <2>1
  <2>2. CASE /\ st[S] = "run" /\ TakePlain(S) /\ NextPlain(S).kind = "path"
             /\ path' = NextPlain(S).n /\ wire' = Rest(S)
    <3>1. deferred[S] = <<>>
      <4> SUFFICES ASSUME deferred[S] # <<>> PROVE FALSE
        OBVIOUS
      <4>1. deferred[S] \in Seq(Numbered) /\ Lacks(deferred[S], "path")
        BY <1>2, Ground, EndNames DEF Apart
      <4>2. Head(deferred[S]).kind = "path"
        BY <2>2 DEF NextPlain
      <4> QED BY <4>1, <4>2, LacksTail
    <3>2. sock[S] = Old
      BY <1>2 DEF Apart
    <3> QED BY <2>2, <3>1, <3>2 DEF TakePlain, NextPlain, Rest
  <2> QED BY Zenon, <2>1, <2>2 DEF PathAvailable
<1>4. st'[S] = "join" /\ st'[H] = st[H]
  BY <1>1, Ground, EndNames
<1>5. /\ Beside(wire, wire') /\ Lanes(wire', recvSeq', sendSeq, Freed, path, Made)
      /\ Arrived(S, Old)
  BY <1>2, <1>3, ApartDecrypts, EndNames
<1>6. wire[S][Old] \in Seq(Numbered) /\ wire[S][Old] # <<>> /\ wire'[S][Old] = Tail(wire[S][Old])
  BY <1>3, <1>5, Ground, CellTook, EndNames
<1>7. Offers(wire[S][Old], path, Made)
  BY <1>2, ApartFacts DEF Lanes, ToSender
<1>8. path < f.n /\ f.n =< Made /\ Offers(wire'[S][Old], f.n, Made)
  BY <1>2, <1>3, <1>6, <1>7, Ground, ApartFacts, OffersTail
<1>9. Freed = FALSE /\ Freed' = FALSE /\ Made' = Made
  BY <1>1, <1>4 DEF Freed, Made
<1>10. ToHost(wire'[H][Old], recvSeq'[H], sendSeq[S], Freed)
  BY <1>5 DEF Lanes
<1>11. ToSender(wire'[S][Old], recvSeq'[S], sendSeq[H], path', Made)
  BY <1>3, <1>5, <1>8 DEF Lanes, ToSender
<1>12. Lanes(wire', recvSeq', sendSeq', (st'[S] = "drain" /\ released'), path', Made')
  BY <1>1, <1>4, <1>9, <1>10, <1>11 DEF Lanes
<1>13. path' =< Made' /\ path' # 0
  BY <1>3, <1>8, <1>9, Ground
<1>14. Apart'
  BY <1>1, <1>2, <1>3, <1>4, <1>12, <1>13 DEF Apart
<1>15. Single'
  BY <1>1, <1>2, <1>4, <1>5, BareBeside DEF Single
<1> QED BY <1>14, <1>15 DEF Quiet

\* The sender comes to the listener of its offer.
LEMMA ConnectApart ==
  ASSUME Grounded, Quiet, Connect
  PROVE  Quiet'
<1> USE DEF hostVars, senderVars
<1>1. /\ st[S] = "join" /\ st[H] = "listen" /\ attempts = path
      /\ joined' = joined \cup {path} /\ open' = [e \in Ends |-> open[e] \cup {path}]
      /\ wire' = [wire EXCEPT ![H][path] = <<Plain("intro")>>]
      /\ st' = [st EXCEPT ![S] = "ack"]
      /\ UNCHANGED <<sock, sendSeq, recvSeq, deferred, hostVars, path>>
  BY DEF Connect, Go
<1>2. Apart /\ Single
  BY <1>1 DEF Quiet, Met, Acked, Releasing
<1>3. st'[S] = "ack" /\ st'[H] = "listen"
  BY <1>1, Ground, EndNames
<1>4. path # 0 /\ path # Old /\ path \in Sockets
  BY <1>1, <1>2, Ground DEF Apart
<1>5. /\ wire'[H][path] = <<Plain("intro")>>
      /\ wire'[H][Old] = wire[H][Old] /\ wire'[S] = wire[S]
  BY <1>1, <1>4, Ground, EndNames DEF Wires
<1>6. Freed = FALSE /\ Freed' = FALSE /\ Made' = Made /\ Made = attempts
  BY <1>1, <1>3 DEF Freed, Made
<1>7. Lanes(wire', recvSeq', sendSeq', (st'[S] = "drain" /\ released'), path', Made')
  BY <1>1, <1>2, <1>3, <1>5, <1>6, ApartFacts DEF Lanes
<1>8. joined' \subseteq 1 .. attempts' /\ path' =< Made'
  BY <1>1, <1>2, <1>4, <1>6, Ground DEF Apart
<1>9. /\ Old \in open'[H] /\ Old \in open'[S] /\ path \in open'[H] /\ path \in open'[S]
      /\ path \in joined'
  BY <1>1, <1>2, EndNames DEF Apart
<1>10. Apart'
  BY <1>1, <1>2, <1>3, <1>4, <1>7, <1>8, <1>9 DEF Apart
<1>11. Bare(wire')
  BY <1>2, <1>5 DEF Single, Bare
<1>12. Met'
  BY <1>1, <1>3, <1>5, <1>9, <1>11 DEF Met, Paired, Plain
<1> QED BY <1>10, <1>12 DEF Quiet

\* The acknowledgement: the sender writes its last and waits for the host's release.
LEMMA AcknowledgedApart ==
  ASSUME Grounded, Quiet, Acknowledged
  PROVE  Quiet'
<1> USE DEF hostVars, senderVars
<1> DEFINE w == Took(S, path)
<1>1. /\ st[S] = "ack" /\ Arrived(S, path) /\ st' = [st EXCEPT ![S] = "drain"] /\ Count(S, 1)
      /\ wire' = Put(w, S, Old, Encrypted(S, 1, "last", 0))
      /\ UNCHANGED <<open, sock, recvSeq, deferred, hostVars, senderVars>>
  BY DEF Acknowledged, Go
<1>2. Apart /\ path # 0 /\ path # Old /\ path \in Sockets
  BY <1>1, Ground DEF Quiet, Apart
<1>3. Acked
  BY <1>1, <1>2 DEF Quiet, Single, Met, Releasing, Bare, Arrived
<1>4. st'[S] = "drain" /\ st'[H] = "release"
  BY <1>1, <1>3, Ground, EndNames DEF Acked
<1>5. /\ w \in Wires /\ w[S][path] = Tail(wire[S][path])
      /\ \A d \in Ends, t \in Sockets : ~(d = S /\ t = path) => w[d][t] = wire[d][t]
  BY <1>1, <1>2, Ground, EndNames, CellTook
<1>6. w[S][path] = <<>> /\ w[H][path] = <<>>
  <2>1. wire[S][path] = <<Plain("ack")>> /\ wire[H][path] = <<>>
    BY <1>3 DEF Acked
  <2> QED BY <1>2, <1>5, <2>1, EndNames
<1> HIDE DEF w
<1>7. w[H][Old] = wire[H][Old] /\ w[S][Old] = wire[S][Old]
  BY <1>2, <1>5, Ground, EndNames
<1>8. Freed = FALSE
  BY <1>1 DEF Freed
<1>9. /\ path \in Nat /\ Made \in Nat /\ recvSeq \in [Ends -> Nat] /\ 0 \in Nat
      /\ Lanes(w, recvSeq, sendSeq, FALSE, path, Made) /\ Old \in open[H]
      /\ "last" \in Kinds \ {"safe", "path"}
  BY <1>2, <1>7, <1>8, Ground, ApartFacts, EndNames DEF Kinds, Lanes
<1>10. LET x == Put(w, S, Old, Encrypted(S, 1, "last", 0))
       IN  x \in Wires /\ Beside(w, x) /\ Lanes(x, recvSeq, sendSeq', FALSE, path, Made)
  BY <1>1, <1>5, <1>9, SenderWritten
<1>11. Beside(w, wire') /\ Lanes(wire', recvSeq, sendSeq', FALSE, path, Made)
  BY <1>1, <1>10
<1>12. Lanes(wire', recvSeq', sendSeq', Freed', path, Made)
  <2>1. ToHost(wire'[H][Old], recvSeq[H], sendSeq'[S], FALSE)
    BY <1>11 DEF Lanes
  <2>2. ToHost(wire'[H][Old], recvSeq[H], sendSeq'[S], Freed')
    BY <2>1 DEF ToHost
  <2>3. ToSender(wire'[S][Old], recvSeq[S], sendSeq'[H], path, Made)
    BY <1>11 DEF Lanes
  <2> QED BY <1>1, <2>2, <2>3 DEF Lanes
<1>13. Apart'
  BY <1>1, <1>2, <1>4, <1>12, ApartKept DEF Apart
<1>14. wire'[S][path] = <<>> /\ wire'[H][path] = <<>>
  BY <1>2, <1>6, <1>11, EndNames DEF Beside
<1>15. Releasing'
  BY <1>1, <1>3, <1>4, <1>14 DEF Acked, Releasing, Paired
<1> QED BY <1>13, <1>15 DEF Quiet

\* Once it waits for the host's release, the sender has taken up the last offer.
LEMMA NoOfferLeft ==
  ASSUME Grounded, Apart, Releasing
  PROVE  Lacks(wire[S][Old], "path") /\ Lacks(wire[S][Old], "safe")
<1>1. ToSender(wire[S][Old], recvSeq[S], sendSeq[H], path, Made) /\ Made = path
  BY ApartFacts DEF Releasing, Paired, Made, Lanes
<1>2. wire[S][Old] \in Seq(Numbered) /\ path \in Nat
  BY Ground, EndNames DEF Wires
<1> QED BY <1>1, <1>2, OffersNone DEF ToSender

\* The sender drains the first socket.
LEMMA DrainsApart ==
  ASSUME Grounded, Quiet, DrainLast \/ DrainOther
  PROVE  Quiet'
<1> USE DEF hostVars, senderVars
<1>0. st[S] = "drain" /\ Decrypt(S, Old) /\ UNCHANGED <<open, sock, st, hostVars, path, joined>>
  BY DEF DrainLast, DrainOther, Defer
<1>00. Apart /\ Releasing
  BY <1>0 DEF Quiet, Single, Met, Acked
<1>1. /\ Took(S, Old) \in Wires /\ Beside(wire, Took(S, Old)) /\ recvSeq' \in [Ends -> Nat]
      /\ Lanes(Took(S, Old), recvSeq', sendSeq, Freed, path, Made) /\ Arrived(S, Old)
  BY <1>0, <1>00, ApartDecrypts, EndNames
<1>2. CASE DrainOther
  <2>1. /\ wire' = Took(S, Old)
        /\ UNCHANGED <<sendSeq, released>>
        /\ deferred' = [deferred EXCEPT ![S] = Append(@, Head(wire[S][Old]))]
    BY <1>2 DEF DrainOther, Defer
  <2>2. Head(wire[S][Old]).kind # "path"
    <3>1. wire[S][Old] \in Seq(Numbered) /\ wire[S][Old] # <<>> /\ Lacks(wire[S][Old], "path")
      BY <1>00, <1>1, Ground, CellTook, NoOfferLeft, EndNames
    <3> QED BY <3>1, LacksTail
  <2>3. Apart' /\ Beside(wire, wire')
    BY <1>0, <1>00, <2>1, <2>2, EndNames, SetAside
  <2> QED BY <1>0, <2>3, StageKept
<1>3. CASE DrainLast /\ released
  <2>1. wire' = Took(S, Old) /\ Count(S, 0) /\ UNCHANGED deferred /\ released' = TRUE
    BY <1>3 DEF DrainLast
  <2>2. sendSeq' = sendSeq
    <3>1. sendSeq[S] + 0 = sendSeq[S] /\ sendSeq \in [Ends -> Nat]
      BY Ground, EndNames
    <3>2. sendSeq' = [sendSeq EXCEPT ![S] = sendSeq[S]]
      BY <2>1, <3>1 DEF Count
    <3> QED BY <3>1, <3>2
  <2>3. Freed' = Freed
    BY <1>0, <1>3, <2>1 DEF Freed
  <2>4. Apart'
    BY <1>0, <1>00, <1>1, <2>1, <2>2, <2>3, ApartKept DEF Apart
  <2> QED BY <1>0, <1>1, <2>1, <2>4, StageKept
<1>4. CASE DrainLast /\ ~released
  <2> DEFINE f == Encrypted(S, 1, "safe", 0)
             w == Took(S, Old)
  <2>1. /\ wire' = Put(w, S, Old, f) /\ UNCHANGED deferred /\ released' = TRUE
        /\ sendSeq' = [sendSeq EXCEPT ![S] = @ + 1]
    BY <1>4 DEF DrainLast, Count
  <2>2. Freed = FALSE /\ Freed' = TRUE
    BY <1>0, <1>4, <2>1 DEF Freed
  <2>3. sendSeq \in [Ends -> Nat] /\ sendSeq[S] + 1 \in Nat /\ Old \in Sockets
    BY Ground, EndNames
  <2>4. f \in Numbered /\ f.seq = sendSeq[S] + 1 /\ f.kind = "safe"
    BY <2>3 DEF Encrypted, Numbered, Kinds
  <2> HIDE DEF f, w
  <2>5. w \in Wires /\ Lanes(w, recvSeq', sendSeq, FALSE, path, Made) /\ Beside(wire, w)
    BY <1>1, <2>2 DEF w
  <2>6. path \in Nat /\ Made \in Nat /\ TRUE \in BOOLEAN /\ Old \in open[H]
    BY <1>00, Ground, ApartFacts, EndNames
  <2>7. /\ Beside(w, Put(w, S, Old, f))
        /\ Lanes(Put(w, S, Old, f), recvSeq', [sendSeq EXCEPT ![S] = @ + 1], TRUE, path, Made)
    BY <1>1, <2>3, <2>4, <2>5, <2>6, SenderWrites
  <2>8. Beside(wire, wire')
    BY <2>1, <2>5, <2>7 DEF Beside
  <2>9. Lanes(wire', recvSeq', sendSeq', Freed', path, Made)
    BY <2>1, <2>2, <2>7
  <2>10. Apart'
    BY <1>0, <1>00, <2>1, <2>9, ApartKept DEF Apart
  <2> QED BY <1>0, <2>8, <2>10, StageKept
<1> QED BY <1>2, <1>3, <1>4

\* There is no release of the host to find while it is still here.
LEMMA NoSafeApart ==
  ASSUME Grounded, Quiet
  PROVE  ~DrainSafe
<1> SUFFICES ASSUME DrainSafe PROVE FALSE
  OBVIOUS
<1>1. st[S] = "drain" /\ Arrived(S, Old) /\ Head(wire[S][Old]).kind = "safe"
  BY DEF DrainSafe, Decrypt, DrainFrame
<1>2. Apart /\ Releasing
  BY <1>1 DEF Quiet, Single, Met, Acked
<1>3. wire[S][Old] \in Seq(Numbered) /\ wire[S][Old] # <<>> /\ Lacks(wire[S][Old], "safe")
  BY <1>1, <1>2, Ground, CellTook, NoOfferLeft, EndNames
<1> QED BY <1>1, <1>3, LacksTail

-----------------------------------------------------------------------------
(* The host swaps *)

\* The host has swapped, and the sender is leaving or has left.
Beyond == Across /\ (Leaving \/ Moved)

\* An empty queue: no number is on its way.
LEMMA RunNone ==
  ASSUME NEW n \in Nat
  PROVE  Run(<<>>, n, n) /\ \A k : Lacks(<<>>, k)
  BY DEF Run, Lacks

\* A queue of one frame carries the next number.
LEMMA RunOne ==
  ASSUME NEW q, NEW lo \in Nat, NEW hi \in Nat, Run(q, lo, hi), Len(q) = 1
  PROVE  hi = lo + 1
<1>1. Len(q) = hi - lo
  BY DEF Run
<1>2. hi - lo = 1
  BY <1>1
<1> QED BY <1>2

\* The sender's release is the last it wrote on the first socket; the host's goes
\* out, and from here on the two read different sockets.
LEMMA HostSwapsCleanly ==
  ASSUME Grounded, Quiet, Release
  PROVE  Beyond'
<1> USE DEF hostVars, senderVars
<1> DEFINE f == Encrypted(H, 1, "safe", 0)
           w == Without(wire, H, Old)
           q == wire[S][Old]
<1>1. /\ st[H] = "release" /\ Decrypt(H, Old) /\ Head(wire[H][Old]).kind = "safe"
      /\ wire' = Put(w, H, Old, f) /\ sendSeq' = [sendSeq EXCEPT ![H] = @ + 1]
      /\ open' = [open EXCEPT ![H] = @ \ {Old}] /\ sock' = [sock EXCEPT ![H] = attempts]
      /\ st' = [st EXCEPT ![H] = "run"] /\ upgraded' = TRUE
      /\ UNCHANGED <<deferred, attempts, path, joined, released>>
  BY DEF Release, ReleaseFrame, HostSwap, Count, Shut, Go
<1>2. Apart /\ attempts # 0
  BY <1>1 DEF Quiet, Apart
<1>3. /\ ToHost(wire[H][Old], recvSeq[H], sendSeq[S], Freed)
      /\ ToSender(q, recvSeq[S], sendSeq[H], path, Made)
  BY <1>2, ApartFacts DEF Lanes
<1>4. wire[H][Old] \in Seq(Numbered) /\ wire[H][Old] # <<>> /\ q \in Seq(Numbered)
  <2>1. Arrived(H, Old)
    BY <1>1 DEF Decrypt
  <2>2. wire[H][Old] # <<>>
    BY <2>1 DEF Arrived
  <2> QED BY <2>2, Ground, EndNames DEF Wires
<1>5. Freed
  <2> SUFFICES ASSUME ~Freed PROVE FALSE
    OBVIOUS
  <2>1. Lacks(wire[H][Old], "safe")
    BY <1>3 DEF ToHost
  <2> QED BY <1>1, <1>4, <2>1, LacksTail
<1>6. Releasing /\ released
  BY <1>5 DEF Quiet, Single, Met, Acked, Freed
<1>7. /\ path = attempts /\ path # Old /\ path \in Sockets /\ path \in open[H] /\ path \in open[S]
      /\ Old \in open[S] /\ sock[S] = Old
      /\ wire[H][path] = <<>> /\ wire[S][path] = <<>>
  BY <1>2, <1>6, Ground DEF Apart, Releasing, Paired
<1>8. st'[H] = "run" /\ st'[S] = "drain" /\ sock'[H] = path /\ sock'[S] = Old
  BY <1>1, <1>6, <1>7, Ground, EndNames DEF Releasing
<1>9. path \in open'[H] /\ path \in open'[S]
  BY <1>1, <1>7, Ground, EndNames
<1>10. sendSeq[H] \in Nat /\ sendSeq[S] \in Nat /\ recvSeq[H] \in Nat /\ recvSeq[S] \in Nat
  BY Ground, EndNames
<1>11. recvSeq'[H] = sendSeq[S] /\ recvSeq'[S] = recvSeq[S]
  <2>1. Run(wire[H][Old], recvSeq[H], sendSeq[S]) /\ Closing(wire[H][Old], "safe")
    BY <1>3 DEF ToHost
  <2>2. Head(wire[H][Old]).seq = recvSeq[H] + 1
    BY <1>4, <1>10, <2>1, RunTail
  <2>3. Len(wire[H][Old]) = 1
    BY <1>1, <1>4, <2>1, ClosingTail
  <2>4. sendSeq[S] = recvSeq[H] + 1
    BY <1>10, <2>1, <2>3, RunOne
  <2>5. recvSeq' = [recvSeq EXCEPT ![H] = sendSeq[S]]
    BY <1>1, <2>2, <2>4 DEF Decrypt
  <2> QED BY <2>5, Ground, EndNames
<1>12. f \in Numbered /\ f.seq = sendSeq[H] + 1 /\ f.kind = "safe"
  <2>1. sendSeq[H] + 1 \in Nat
    BY <1>10
  <2> QED BY <2>1 DEF Encrypted, Numbered, Kinds
<1>13. /\ w \in Wires
       /\ \A d \in Ends, t \in Sockets : ~(d = H /\ t = Old) => w[d][t] = wire[d][t]
  <2>1. H \in Ends /\ wire \in Wires /\ Old \in Sockets
    BY Ground, EndNames
  <2> QED BY <2>1, CellWithout
<1> HIDE DEF f, w
<1>14. /\ wire'[S][Old] = Append(w[S][Old], f)
       /\ \A d \in Ends, t \in Sockets : ~(d = S /\ t = Old) => wire'[d][t] = w[d][t]
  <2>1. Other(H) = S /\ H \in Ends /\ Old \in Sockets /\ Old \in open[Other(H)]
    BY <1>7, Ground, EndNames
  <2>2. Put(w, H, Old, f)[Other(H)][Old] = Append(w[Other(H)][Old], f)
    BY <1>12, <1>13, <2>1, CellPut
  <2>3. \A d \in Ends, t \in Sockets :
           ~(d = Other(H) /\ t = Old) => Put(w, H, Old, f)[d][t] = w[d][t]
    BY <1>12, <1>13, <2>1, CellPut
  <2> QED BY <1>1, <2>1, <2>2, <2>3
<1>15. wire'[H][path] = <<>> /\ wire'[S][path] = <<>> /\ wire'[S][Old] = Append(q, f)
  <2>1. H \in Ends /\ S \in Ends /\ H # S /\ Old \in Sockets
    BY Ground, EndNames
  <2>2. w[H][path] = wire[H][path] /\ w[S][path] = wire[S][path] /\ w[S][Old] = wire[S][Old]
    BY <1>7, <1>13, <2>1
  <2>3. wire'[H][path] = w[H][path] /\ wire'[S][path] = w[S][path]
    BY <1>7, <1>14, <2>1
  <2> QED BY <1>7, <1>14, <2>2, <2>3
<1>16. Lacks(q, "safe") /\ Lacks(q, "path") /\ Run(q, recvSeq[S], sendSeq[H])
  BY <1>2, <1>3, <1>6, NoOfferLeft DEF ToSender
<1> HIDE DEF q
<1>17. Run(Append(q, f), recvSeq[S], sendSeq[H] + 1)
  BY <1>4, <1>10, <1>12, <1>16, RunAppend
<1>18. /\ Append(q, f) # <<>> /\ Len(Append(q, f)) = Len(q) + 1 /\ Append(q, f)[Len(q) + 1] = f
       /\ Len(q) \in Nat
  BY <1>4, <1>12, QueueAppend
<1>19. Closing(Append(q, f), "safe") /\ Lacks(Append(q, f), "path")
  BY <1>4, <1>12, <1>16, ClosingAppend, LacksAppend
<1>20. sendSeq[H] + 1 = recvSeq[S] + Len(Append(q, f)) /\ sendSeq[H] + 1 \in Nat
  BY <1>10, <1>16, <1>18 DEF Run
<1>21. sendSeq'[H] = sendSeq[H] + 1 /\ sendSeq'[S] = sendSeq[S]
  BY <1>1, Ground, EndNames
<1>22. Ending(wire'[S][Old], recvSeq'[S], wire'[S][path], sendSeq'[H])
  <2>1. Run(<<>>, sendSeq[H] + 1, sendSeq[H] + 1)
    BY <1>20, RunNone
  <2>2. Append(q, f)[Len(Append(q, f))].kind = "safe"
    BY <1>12, <1>18
  <2>3. Ending(Append(q, f), recvSeq[S], <<>>, sendSeq[H] + 1)
    BY <1>17, <1>18, <1>19, <1>20, <2>1, <2>2 DEF Ending
  <2> QED BY <1>11, <1>15, <1>21, <2>3
<1>23. Leaving'
  BY <1>1, <1>6, <1>8, <1>22 DEF Leaving
<1>24. Run(wire'[H][path], recvSeq'[H], sendSeq'[S]) /\ Lacks(wire'[S][path], "path")
  BY <1>10, <1>11, <1>15, <1>21, RunNone
<1>25. Across'
  BY <1>1, <1>2, <1>7, <1>8, <1>9, <1>24 DEF Across, Apart
<1> QED BY <1>23, <1>25 DEF Beyond

-----------------------------------------------------------------------------
(* Steps after the host has swapped *)

\* What is left of the first socket, and what has begun on the new one.
LEMMA EndingTail ==
  ASSUME NEW q \in Seq(Numbered), NEW n, NEW r \in Nat, NEW hi \in Nat, Ending(q, r, n, hi)
  PROVE  /\ Head(q).seq = r + 1 /\ Head(q).kind # "path"
         /\ Head(q).kind = "safe" => Run(n, r + 1, hi)
         /\ Head(q).kind # "safe" => Ending(Tail(q), r + 1, n, hi)
<1> DEFINE x == Tail(q)
<1>1. /\ q # <<>> /\ q[Len(q)].kind = "safe" /\ Closing(q, "safe") /\ Lacks(q, "path")
      /\ Run(q, r, r + Len(q)) /\ Run(n, r + Len(q), hi)
  BY DEF Ending
<1>2. /\ x \in Seq(Numbered) /\ Len(q) \in Nat /\ Len(q) > 0 /\ Len(x) = Len(q) - 1
      /\ Head(q) = q[1]
      /\ \A i \in 1 .. Len(x) : i + 1 \in 1 .. Len(q) /\ x[i] = q[i + 1]
  BY <1>1, QueueTail
<1>3. r + Len(q) \in Nat
  BY <1>2
<1>4. Head(q).seq = r + 1 /\ Run(x, r + 1, r + Len(q))
  BY <1>1, <1>3, RunTail
<1>5. Head(q).kind # "path" /\ Lacks(x, "path")
  BY <1>1, LacksTail
<1>6. Closing(x, "safe") /\ (Head(q).kind = "safe" => Len(q) = 1)
  BY <1>1, ClosingTail
<1> HIDE DEF x
<1>7. r + Len(q) = (r + 1) + Len(x)
  BY <1>2
<1>8. ASSUME Head(q).kind # "safe" PROVE Ending(x, r + 1, n, hi)
  <2>1. Len(q) # 1
    BY <1>1, <1>2, <1>8
  <2>2. Len(x) > 0 /\ Len(x) \in 1 .. Len(x) /\ Len(x) + 1 = Len(q)
    BY <1>2, <2>1
  <2>3. x # <<>> /\ x[Len(x)].kind = "safe"
    BY <1>1, <1>2, <2>2
  <2>4. Run(x, r + 1, (r + 1) + Len(x)) /\ Run(n, (r + 1) + Len(x), hi)
    BY <1>1, <1>4, <1>7
  <2> QED BY <1>5, <1>6, <2>3, <2>4 DEF Ending
<1>9. Head(q).kind = "safe" => Run(n, r + 1, hi)
  BY <1>1, <1>6
<1> QED BY <1>4, <1>5, <1>8, <1>9 DEF x

\* A frame the host writes on the new socket carries the next number.
LEMMA EndingAppend ==
  ASSUME NEW q \in Seq(Numbered), NEW n \in Seq(Numbered), NEW r \in Nat, NEW hi \in Nat,
         Ending(q, r, n, hi), NEW f \in Numbered, f.seq = hi + 1
  PROVE  Ending(q, r, Append(n, f), hi + 1)
<1>1. Run(n, r + Len(q), hi) /\ r + Len(q) \in Nat
  BY DEF Ending
<1>2. Run(Append(n, f), r + Len(q), hi + 1)
  BY <1>1, RunAppend
<1> QED BY <1>2 DEF Ending

\* An end speaks.
LEMMA SayBeyond ==
  ASSUME Grounded, Beyond, NEW e \in Ends, Say(e)
  PROVE  Beyond'
<1> USE DEF hostVars, senderVars
<1> DEFINE f == Encrypted(e, 1, "data", said[e] + 1)
<1>1. Across /\ path # 0 /\ path # Old /\ path \in Sockets /\ path \in open[H] /\ path \in open[S]
  BY Ground DEF Beyond, Across
<1>2. sock[e] = path /\ (e = S => Moved)
  BY EndNames DEF Beyond, Across, Leaving, Moved, Say
<1>3. /\ wire' = Put(wire, e, path, f) /\ sendSeq' = [sendSeq EXCEPT ![e] = @ + 1]
      /\ UNCHANGED <<open, sock, st, recvSeq, deferred, hostVars, senderVars>>
  BY <1>2 DEF Say, Count
<1>4. said[e] + 1 \in Nat /\ sendSeq[e] \in Nat /\ sendSeq[e] + 1 \in Nat
  <2>1. said[e] \in Nat
    BY DEF Grounded, HandoverInv, HandoverTypes
  <2>2. sendSeq[e] \in Nat
    BY Ground
  <2> QED BY <2>1, <2>2
<1>5. f \in Numbered /\ f.seq = sendSeq[e] + 1 /\ f.kind = "data"
  BY <1>4 DEF Encrypted, Numbered, Kinds
<1> HIDE DEF f
<1>6. path \in open[Other(e)]
  BY <1>1, EndNames
<1>7. /\ wire'[Other(e)][path] = Append(wire[Other(e)][path], f)
      /\ wire[Other(e)][path] \in Seq(Numbered)
      /\ \A d \in Ends, t \in Sockets : ~(d = Other(e) /\ t = path) => wire'[d][t] = wire[d][t]
  <2>1. wire \in Wires /\ path \in Sockets
    BY Ground
  <2>2. Put(wire, e, path, f)[Other(e)][path] = Append(wire[Other(e)][path], f)
    BY <1>5, <1>6, <2>1, CellPut
  <2>3. \A d \in Ends, t \in Sockets :
           ~(d = Other(e) /\ t = path) => Put(wire, e, path, f)[d][t] = wire[d][t]
    BY <1>5, <1>6, <2>1, CellPut
  <2>4. wire[Other(e)][path] \in Seq(Numbered)
    BY <2>1, OtherEnd DEF Wires
  <2> QED BY <1>3, <2>2, <2>3, <2>4
<1>8. sendSeq'[e] = sendSeq[e] + 1 /\ sendSeq'[Other(e)] = sendSeq[Other(e)]
  BY <1>3, Ground, OtherEnd
<1>9. CASE e = H
  <2>1. /\ wire'[S][path] = Append(wire[S][path], f) /\ wire[S][path] \in Seq(Numbered)
        /\ wire'[H][path] = wire[H][path] /\ wire'[S][Old] = wire[S][Old]
        /\ sendSeq'[H] = sendSeq[H] + 1 /\ sendSeq'[S] = sendSeq[S]
        /\ sendSeq[H] \in Nat /\ f.seq = sendSeq[H] + 1
    BY <1>1, <1>4, <1>5, <1>7, <1>8, <1>9, Ground, EndNames
  <2>2. wire[S][Old] \in Seq(Numbered) /\ recvSeq[S] \in Nat
    BY Ground, EndNames DEF Wires
  <2>3. Lacks(wire'[S][path], "path")
    BY <1>1, <1>5, <2>1, LacksAppend DEF Across
  <2>4. Across'
    BY <1>1, <1>3, <2>1, <2>3 DEF Across
  <2>5. ASSUME Leaving PROVE Leaving'
    <3>1. Ending(wire[S][Old], recvSeq[S], wire[S][path], sendSeq[H])
      BY <2>5 DEF Leaving
    <3>2. Ending(wire[S][Old], recvSeq[S], Append(wire[S][path], f), sendSeq[H] + 1)
      BY <1>5, <2>1, <2>2, <3>1, EndingAppend
    <3>3. Ending(wire'[S][Old], recvSeq'[S], wire'[S][path], sendSeq'[H])
      BY <1>3, <2>1, <3>2
    <3> QED BY <1>3, <2>5, <3>3 DEF Leaving
  <2>6. ASSUME Moved PROVE Moved'
    <3>1. Run(Append(wire[S][path], f), recvSeq[S], sendSeq[H] + 1)
      BY <1>5, <2>1, <2>2, <2>6, RunAppend DEF Moved
    <3> QED BY <1>3, <2>1, <2>6, <3>1 DEF Moved
  <2> QED BY <2>4, <2>5, <2>6 DEF Beyond
<1>10. CASE e = S
  <2>1. /\ wire'[H][path] = Append(wire[H][path], f) /\ wire[H][path] \in Seq(Numbered)
        /\ wire'[S][path] = wire[S][path]
        /\ sendSeq'[S] = sendSeq[S] + 1 /\ sendSeq'[H] = sendSeq[H]
        /\ sendSeq[S] \in Nat /\ f.seq = sendSeq[S] + 1 /\ recvSeq[H] \in Nat
    BY <1>1, <1>4, <1>5, <1>7, <1>8, <1>10, Ground, EndNames
  <2>2. Run(Append(wire[H][path], f), recvSeq[H], sendSeq[S] + 1)
    BY <1>1, <1>5, <2>1, RunAppend DEF Across
  <2>3. Across'
    BY <1>1, <1>3, <2>1, <2>2 DEF Across
  <2>4. Moved'
    BY <1>2, <1>3, <1>10, <2>1 DEF Moved
  <2> QED BY <2>3, <2>4 DEF Beyond
<1> QED BY <1>9, <1>10, EndNames

\* Nothing on the new socket, or on what is left of the first, is wrong.
LEMMA BeyondSound ==
  ASSUME Grounded, Beyond
  PROVE  /\ Arrived(H, path) =>
               Authentic(H, Head(wire[H][path])) /\ Run(Tail(wire[H][path]), recvSeq[H] + 1, sendSeq[S])
         /\ Moved /\ Arrived(S, path) =>
               /\ Authentic(S, Head(wire[S][path])) /\ Run(Tail(wire[S][path]), recvSeq[S] + 1, sendSeq[H])
               /\ Head(wire[S][path]).kind # "path" /\ Lacks(Tail(wire[S][path]), "path")
         /\ Leaving => Arrived(S, Old) /\ Authentic(S, Head(wire[S][Old]))
         /\ ~Closed(H, path) /\ ~Closed(S, path)
<1>1. /\ wire[H][path] \in Seq(Numbered) /\ wire[S][path] \in Seq(Numbered)
      /\ wire[S][Old] \in Seq(Numbered)
      /\ recvSeq[H] \in Nat /\ recvSeq[S] \in Nat /\ sendSeq[H] \in Nat /\ sendSeq[S] \in Nat
  BY Ground, EndNames DEF Wires
<1>2. Across
  BY DEF Beyond
<1>3. ASSUME Arrived(H, path)
      PROVE  Authentic(H, Head(wire[H][path])) /\ Run(Tail(wire[H][path]), recvSeq[H] + 1, sendSeq[S])
  <2>1. wire[H][path] # <<>> /\ Run(wire[H][path], recvSeq[H], sendSeq[S])
    BY <1>2, <1>3 DEF Arrived, Across
  <2> QED BY <1>1, <2>1, RunTail DEF Authentic
<1>4. ASSUME Moved, Arrived(S, path)
      PROVE  /\ Authentic(S, Head(wire[S][path])) /\ Run(Tail(wire[S][path]), recvSeq[S] + 1, sendSeq[H])
             /\ Head(wire[S][path]).kind # "path" /\ Lacks(Tail(wire[S][path]), "path")
  <2>1. /\ wire[S][path] # <<>> /\ Run(wire[S][path], recvSeq[S], sendSeq[H])
        /\ Lacks(wire[S][path], "path")
    BY <1>2, <1>4 DEF Arrived, Across, Moved
  <2> QED BY <1>1, <2>1, RunTail, LacksTail DEF Authentic
<1>5. ASSUME Leaving PROVE Arrived(S, Old) /\ Authentic(S, Head(wire[S][Old]))
  <2>1. Ending(wire[S][Old], recvSeq[S], wire[S][path], sendSeq[H])
    BY <1>5 DEF Leaving
  <2>2. Head(wire[S][Old]).seq = recvSeq[S] + 1
    BY <1>1, <2>1, EndingTail
  <2> QED BY <2>1, <2>2 DEF Ending, Arrived, Authentic
<1>6. ~Closed(H, path) /\ ~Closed(S, path)
  BY <1>2, EndNames DEF Across, Closed
<1> QED BY <1>3, <1>4, <1>5, <1>6

\* The main loop of an end takes a frame that changes nothing else.
LEMMA LoopBeyond ==
  ASSUME Grounded, Beyond, NEW e \in Ends, Hear(e) \/ Ignore(e)
  PROVE  Beyond'
<1> USE DEF hostVars, senderVars
<1>1. /\ st[e] = "run" /\ TakePlain(e) /\ wire' = Rest(e)
      /\ UNCHANGED <<open, sock, st, sendSeq, hostVars, senderVars>>
  BY Zenon DEF Hear, Ignore
<1>2. Across /\ sock[e] = path /\ (e = S => Moved) /\ path # Old /\ path \in Sockets
  BY <1>1, Ground, EndNames DEF Beyond, Across, Leaving, Moved
<1>3. deferred \in [Ends -> Seq(Numbered)] /\ Lacks(deferred[S], "path")
  BY <1>2, Ground DEF Across
<1>4. CASE deferred[e] # <<>> /\ deferred' = [deferred EXCEPT ![e] = Tail(@)] /\ UNCHANGED recvSeq
  <2>1. wire' = wire
    BY <1>1, <1>4 DEF Rest
  <2>2. Lacks(deferred'[S], "path")
    <3>1. CASE e = S
      <4>1. deferred[S] \in Seq(Numbered) /\ deferred[S] # <<>> /\ deferred'[S] = Tail(deferred[S])
        BY <1>3, <1>4, <3>1
      <4> QED BY <1>3, <4>1, LacksTail
    <3>2. CASE e # S
      BY <1>3, <1>4, <3>2
    <3> QED BY <3>1, <3>2
  <2>3. Across'
    BY <1>1, <1>2, <1>4, <2>1, <2>2 DEF Across
  <2>4. (Leaving => Leaving') /\ (Moved => Moved')
    BY <1>1, <1>4, <2>1 DEF Leaving, Moved
  <2> QED BY <2>3, <2>4 DEF Beyond
<1>5. CASE deferred[e] = <<>> /\ Decrypt(e, sock[e]) /\ UNCHANGED deferred
  <2>1. wire' = Took(e, path) /\ Arrived(e, path)
    BY <1>1, <1>2, <1>5 DEF Rest, Decrypt
  <2>2. /\ wire'[e][path] = Tail(wire[e][path])
        /\ \A d \in Ends, t \in Sockets : ~(d = e /\ t = path) => wire'[d][t] = wire[d][t]
    BY <1>2, <2>1, Ground, CellTook
  <2>3. recvSeq' = [recvSeq EXCEPT ![e] = recvSeq[e] + 1]
    BY <1>2, <1>5 DEF Decrypt, Authentic
  <2>4. CASE e = H
    <3>1. /\ wire'[H][path] = Tail(wire[H][path]) /\ wire'[S][path] = wire[S][path]
          /\ wire'[S][Old] = wire[S][Old] /\ recvSeq'[H] = recvSeq[H] + 1 /\ recvSeq'[S] = recvSeq[S]
      BY <1>2, <2>2, <2>3, <2>4, Ground, EndNames
    <3>2. Run(wire'[H][path], recvSeq'[H], sendSeq[S])
      BY <2>1, <2>4, <3>1, BeyondSound
    <3>3. Across'
      BY <1>1, <1>2, <1>5, <3>1, <3>2 DEF Across
    <3>4. (Leaving => Leaving') /\ (Moved => Moved')
      BY <1>1, <3>1 DEF Leaving, Moved
    <3> QED BY <3>3, <3>4 DEF Beyond
  <2>5. CASE e = S
    <3>1. /\ wire'[S][path] = Tail(wire[S][path]) /\ wire'[H][path] = wire[H][path]
          /\ recvSeq'[S] = recvSeq[S] + 1 /\ recvSeq'[H] = recvSeq[H]
      BY <1>2, <2>2, <2>3, <2>5, Ground, EndNames
    <3>2. Run(wire'[S][path], recvSeq'[S], sendSeq[H]) /\ Lacks(wire'[S][path], "path")
      BY <1>2, <2>1, <2>5, <3>1, BeyondSound
    <3>3. Across'
      BY <1>1, <1>2, <1>5, <3>1, <3>2 DEF Across
    <3>4. Moved'
      BY <1>1, <1>2, <2>5, <3>2 DEF Moved
    <3> QED BY <3>3, <3>4 DEF Beyond
  <2> QED BY <2>4, <2>5, EndNames
<1> QED BY <1>1, <1>4, <1>5 DEF TakePlain

\* The sender drains the first socket up to the host's release, and follows.
LEMMA DrainsBeyond ==
  ASSUME Grounded, Beyond, DrainLast \/ DrainOther \/ DrainSafe
  PROVE  Beyond'
<1> USE DEF hostVars, senderVars
<1> DEFINE q == wire[S][Old]
<1>1. st[S] = "drain" /\ Decrypt(S, Old) /\ UNCHANGED <<hostVars, path>>
  BY DEF DrainLast, DrainOther, DrainSafe, SenderSwap, Defer
<1>2. Across /\ Leaving /\ released /\ path # Old /\ path \in Sockets
  BY <1>1, Ground DEF Beyond, Moved, Across, Leaving
<1>3. q \in Seq(Numbered) /\ recvSeq[S] \in Nat /\ sendSeq[H] \in Nat
  BY Ground, EndNames DEF Wires
<1>4. Ending(q, recvSeq[S], wire[S][path], sendSeq[H])
  BY <1>2 DEF Leaving
<1>5. Arrived(S, Old) /\ recvSeq' = [recvSeq EXCEPT ![S] = recvSeq[S] + 1]
  BY <1>1 DEF Decrypt, Authentic
<1>6. recvSeq'[S] = recvSeq[S] + 1 /\ recvSeq'[H] = recvSeq[H]
  BY <1>5, Ground, EndNames
<1>7. /\ Head(q).kind # "path"
      /\ Head(q).kind = "safe" => Run(wire[S][path], recvSeq[S] + 1, sendSeq[H])
      /\ Head(q).kind # "safe" => Ending(Tail(q), recvSeq[S] + 1, wire[S][path], sendSeq[H])
  BY <1>3, <1>4, EndingTail
<1>8. /\ Took(S, Old)[S][Old] = Tail(q)
      /\ \A d \in Ends, t \in Sockets : ~(d = S /\ t = Old) => Took(S, Old)[d][t] = wire[d][t]
      /\ Head(q) \in Numbered
  BY <1>5, Ground, EndNames, CellTook, WireTook
<1>9. /\ Took(S, Old)[S][path] = wire[S][path] /\ Took(S, Old)[H][path] = wire[H][path]
  BY <1>2, <1>8, EndNames
<1>10. sendSeq[S] + 0 = sendSeq[S] /\ sendSeq \in [Ends -> Nat]
  BY Ground, EndNames
<1>11. CASE DrainLast \/ DrainOther
  <2>1. /\ wire' = Took(S, Old) /\ sendSeq' = sendSeq /\ released' = TRUE
        /\ UNCHANGED <<open, sock, st>> /\ Head(q).kind # "safe"
        /\ UNCHANGED deferred \/ deferred' = [deferred EXCEPT ![S] = Append(@, Head(q))]
    <3>1. CASE DrainLast
      <4>1. wire' = Took(S, Old) /\ Count(S, 0) /\ UNCHANGED <<open, sock, st, deferred>>
        BY <1>2, <3>1 DEF DrainLast
      <4>2. sendSeq' = sendSeq
        BY <1>10, <4>1 DEF Count
      <4>3. released' = TRUE /\ Head(q).kind = "last"
        BY <3>1 DEF DrainLast, DrainFrame
      <4> QED BY <4>1, <4>2, <4>3
    <3>2. CASE DrainOther
      <4>1. released' = released
        BY <3>2 DEF DrainOther
      <4>2. released' = TRUE
        BY <1>2, <4>1 DEF Leaving, Grounded
      <4> QED BY <3>2, <4>2 DEF DrainOther, DrainFrame, Defer
    <3> QED BY <1>11, <3>1, <3>2
  <2>2. Ending(wire'[S][Old], recvSeq'[S], wire'[S][path], sendSeq'[H])
    BY <1>6, <1>7, <1>8, <1>9, <2>1
  <2>3. Leaving'
    BY <1>2, <2>1, <2>2, <1>1 DEF Leaving
  <2>4. Lacks(deferred'[S], "path")
    <3>1. deferred[S] \in Seq(Numbered) /\ Lacks(deferred[S], "path") /\ deferred \in [Ends -> Seq(Numbered)]
      BY <1>2, Ground, EndNames DEF Across
    <3>2. CASE deferred' = [deferred EXCEPT ![S] = Append(@, Head(q))]
      <4>1. deferred'[S] = Append(deferred[S], Head(q))
        BY <3>1, <3>2, EndNames
      <4> QED BY <1>7, <1>8, <3>1, <4>1, LacksAppend
    <3> QED BY <2>1, <3>1, <3>2
  <2>5. Across'
    BY <1>1, <1>2, <1>6, <1>9, <2>1, <2>4 DEF Across
  <2> QED BY <2>3, <2>5 DEF Beyond
<1>12. CASE DrainSafe
  <2>1. /\ Head(q).kind = "safe" /\ wire' = Without(wire, S, Old) /\ Count(S, 0)
        /\ open' = [open EXCEPT ![S] = @ \ {Old}] /\ sock' = [sock EXCEPT ![S] = path]
        /\ st' = [st EXCEPT ![S] = "run"] /\ UNCHANGED deferred
    BY <1>2, <1>12 DEF DrainSafe, SenderSwap, DrainFrame, Shut, Go
  <2>2. sendSeq' = sendSeq
    BY <1>10, <2>1 DEF Count
  <2>3. wire'[S][path] = wire[S][path] /\ wire'[H][path] = wire[H][path]
    <3>1. wire \in Wires /\ S \in Ends /\ H \in Ends /\ Old \in Sockets
      BY Ground, EndNames
    <3>2. \A d \in Ends, t \in Sockets : ~(d = S /\ t = Old) => Without(wire, S, Old)[d][t] = wire[d][t]
      BY <3>1, CellWithout
    <3> QED BY <1>2, <2>1, <3>1, <3>2
  <2>4. st'[S] = "run" /\ st'[H] = st[H] /\ sock'[S] = path /\ sock'[H] = sock[H]
    BY <2>1, Ground, EndNames
  <2>5. path \in open'[H] /\ path \in open'[S]
    BY <1>2, <2>1, Ground, EndNames DEF Across
  <2>6. Run(wire'[S][path], recvSeq'[S], sendSeq'[H])
    BY <1>6, <1>7, <2>1, <2>2, <2>3
  <2>7. Moved'
    BY <1>1, <2>4, <2>6 DEF Moved
  <2>8. Across'
    BY <1>1, <1>2, <1>6, <2>1, <2>2, <2>3, <2>4, <2>5 DEF Across
  <2> QED BY <2>7, <2>8 DEF Beyond
<1> QED BY <1>11, <1>12

\* Nothing else is possible: no error, no offer, no request.
LEMMA NothingElseBeyond ==
  ASSUME Grounded, Beyond
  PROVE  /\ \A e \in Ends : ~LoopError(e)
         /\ ~OfferUnprompted /\ ~OfferOnRequest /\ ~DeclineRequest /\ ~Drain /\ ~NoGroup /\ ~Group
         /\ ~Accept /\ ~JoinTimeout /\ ~Introduced /\ ~IntroTimeout /\ ~ReleaseOther /\ ~Release
         /\ ~OfferError
         /\ ~Ask /\ ~OfferOther /\ ~OfferRefused /\ ~OfferTimeout /\ ~OfferWaitError
         /\ ~PathAvailable /\ ~JoinFails /\ ~Connect /\ ~Acknowledged /\ ~AckError /\ ~DrainError
<1>1. /\ st[H] = "run" /\ upgraded /\ sock[H] = path /\ path # Old
      /\ (st[S] = "drain" /\ Leaving) \/ (st[S] = "run" /\ Moved /\ sock[S] = path)
  BY Ground DEF Beyond, Across, Leaving, Moved
<1>2. ASSUME NEW e \in Ends PROVE ~LoopError(e)
  BY <1>1, BeyondSound, EndNames DEF LoopError
<1>3. /\ ~OfferUnprompted /\ ~OfferOnRequest /\ ~DeclineRequest /\ ~Drain /\ ~NoGroup /\ ~Group
      /\ ~Accept /\ ~JoinTimeout /\ ~Introduced /\ ~IntroTimeout /\ ~ReleaseOther /\ ~Release
      /\ ~OfferError
  BY <1>1 DEF OfferUnprompted, OfferOnRequest, DeclineRequest, Drain, NoGroup, Group, Accept,
              JoinTimeout, Introduced, IntroTimeout, ReleaseOther, Release, OfferError
<1>4. /\ ~Ask /\ ~OfferOther /\ ~OfferRefused /\ ~OfferTimeout /\ ~OfferWaitError
      /\ ~JoinFails /\ ~Connect /\ ~Acknowledged /\ ~AckError
  BY <1>1 DEF Ask, OfferOther, OfferRefused, OfferTimeout, OfferWaitError, JoinFails, Connect,
              Acknowledged, AckError
<1>5. ~PathAvailable
  <2> SUFFICES ASSUME PathAvailable PROVE FALSE
    OBVIOUS
  <2>1. st[S] = "run" /\ TakePlain(S) /\ NextPlain(S).kind = "path"
    BY <1>1 DEF PathAvailable
  <2>2. deferred[S] \in Seq(Numbered) /\ Lacks(deferred[S], "path") /\ Moved
    BY <1>1, <2>1, Ground, EndNames DEF Beyond, Across
  <2>3. CASE deferred[S] # <<>>
    BY <2>1, <2>2, <2>3, LacksTail DEF NextPlain
  <2>4. CASE deferred[S] = <<>>
    <3>1. Arrived(S, path) /\ Head(wire[S][path]).kind = "path"
      BY <1>1, <2>1, <2>4 DEF TakePlain, NextPlain, Decrypt
    <3> QED BY <2>2, <3>1, BeyondSound
  <2> QED BY <2>3, <2>4
<1>6. ~DrainError
  BY <1>1, BeyondSound DEF DrainError, Closed
<1> QED BY <1>2, <1>3, <1>4, <1>5, <1>6

-----------------------------------------------------------------------------
(* Every step *)

\* Where the threads are and what is open.
LEMMA ShapedStep ==
  ASSUME HandoverInv, Shaped, [Next]_vars
  PROVE  Shaped'
<1> DEFINE P == {"run", "group", "listen", "intro", "release", "failed",
                 "offer", "join", "ack", "drain"}
<1>1. st \in [Ends -> P] /\ open \in [Ends -> SUBSET Sockets] /\ path \in Sockets
  BY DEF Shaped, HandoverInv, HandoverTypes, Placed
<1>2. ASSUME NEW e \in Ends, NEW x \in P, Go(e, x) PROVE st' \in [Ends -> P]
  BY <1>1, <1>2 DEF Go
<1>3. ASSUME NEW e \in Ends, NEW s, Shut(e, s) PROVE open' \in [Ends -> SUBSET Sockets]
  BY <1>1, <1>3 DEF Shut
<1>4. ASSUME NEW e \in Ends, Fail(e) PROVE Shaped'
  BY <1>1, <1>2, <1>4 DEF Fail, Shaped
<1>5. ASSUME NEW e \in Ends, NEW s, StayPut(e, s) PROVE Shaped'
  BY <1>2, <1>3, <1>5 DEF StayPut, Shaped
<1>6. ASSUME UNCHANGED <<st, open>> PROVE Shaped'
  BY <1>6 DEF Shaped
<1>7. ASSUME NEW e \in Ends, NEW x \in P, Go(e, x), UNCHANGED open PROVE Shaped'
  BY <1>1, <1>2, <1>7 DEF Shaped
<1>8. ASSUME NEW e \in Ends, Say(e) \/ Hear(e) \/ Ignore(e) PROVE Shaped'
  BY <1>6, <1>8 DEF Say, Hear, Ignore
<1>9. ASSUME NEW e \in Ends, LoopError(e) PROVE Shaped'
  BY <1>4, <1>9 DEF LoopError
<1>10. HostSwap(wire) => Shaped'
  BY <1>2, <1>3, EndNames DEF HostSwap, Shaped
<1>11. SenderSwap => Shaped'
  BY <1>2, <1>3, EndNames DEF SenderSwap, Shaped
<1> HIDE DEF P
<1>12. {"run", "group", "listen", "intro", "release", "offer", "join", "ack", "drain"} \subseteq P
  BY DEF P
<1>13. CASE HostStep \/ OfferUnprompted \/ ReleaseTimeout
  <2>1. CASE OfferUnprompted \/ OfferOnRequest
    <3>1. Go(H, "group") /\ UNCHANGED open
      BY <2>1 DEF OfferUnprompted, OfferOnRequest, Offer
    <3> QED BY <1>7, <1>12, <3>1, EndNames
  <2>2. CASE DeclineRequest \/ Drain \/ ReleaseOther
    BY <1>6, <2>2 DEF DeclineRequest, Drain, Defer, ReleaseOther
  <2>3. CASE NoGroup \/ JoinTimeout \/ IntroTimeout
    BY <1>5, <2>3, EndNames DEF NoGroup, JoinTimeout, IntroTimeout
  <2>4. CASE Group \/ Accept \/ Introduced
    <3>1. (Go(H, "listen") \/ Go(H, "intro") \/ Go(H, "release")) /\ UNCHANGED open
      BY <2>4 DEF Group, Accept, Introduced, transport
    <3> QED BY <1>7, <1>12, <3>1, EndNames
  <2>5. CASE Release \/ ReleaseTimeout
    BY <1>10, <2>5 DEF Release, ReleaseTimeout
  <2>6. CASE OfferError
    <3>1. Fail(H) \/ (Go(H, "run") /\ Shut(H, attempts))
      BY Zenon, <2>6 DEF OfferError
    <3> QED BY <1>2, <1>3, <1>4, <1>12, <3>1, EndNames DEF Shaped, P
  <2> QED BY <1>8, <1>9, <1>13, <2>1, <2>2, <2>3, <2>4, <2>5, <2>6, EndNames DEF HostStep
<1>14. CASE SenderStep \/ Ask \/ AckTimeout \/ DrainTimeout
  <2>1. CASE Ask \/ OfferRefused \/ OfferTimeout \/ PathAvailable \/ Acknowledged
    <3>1. (Go(S, "offer") \/ Go(S, "run") \/ Go(S, "join") \/ Go(S, "drain")) /\ UNCHANGED open
      BY <2>1 DEF Ask, OfferRefused, OfferTimeout, PathAvailable, Acknowledged, transport
    <3> QED BY <1>7, <1>12, <3>1, EndNames
  <2>2. CASE OfferOther \/ DrainLast \/ DrainOther
    BY <1>6, <2>2 DEF OfferOther, Defer, DrainLast, DrainOther
  <2>3. CASE OfferWaitError
    BY <1>4, <2>3, EndNames DEF OfferWaitError
  <2>4. CASE JoinFails \/ AckError \/ AckTimeout
    BY <1>5, <2>4, EndNames DEF JoinFails, AckError, AckTimeout
  <2>5. CASE Connect
    <3>1. Go(S, "ack") /\ open' = [e \in Ends |-> open[e] \cup {path}]
      BY <2>5 DEF Connect
    <3>2. open' \in [Ends -> SUBSET Sockets]
      BY <1>1, <3>1
    <3> QED BY <1>2, <1>12, <3>1, <3>2, EndNames DEF Shaped, P
  <2>6. CASE DrainSafe \/ DrainTimeout
    BY <1>11, <2>6 DEF DrainSafe, DrainTimeout
  <2>7. CASE DrainError
    <3>1. StayPut(S, path) \/ (Go(S, "run") /\ Shut(S, path))
      BY Zenon, <2>7 DEF DrainError
    <3> QED BY <1>2, <1>3, <1>5, <1>12, <3>1, EndNames DEF Shaped, P
  <2> QED BY <1>8, <1>9, <1>14, <2>1, <2>2, <2>3, <2>4, <2>5, <2>6, <2>7, EndNames DEF SenderStep
<1>15. CASE Cut
  <2>1. open' \in [Ends -> SUBSET Sockets] /\ UNCHANGED st
    BY <1>1, <1>15 DEF Cut
  <2> QED BY <2>1 DEF Shaped
<1>16. CASE UNCHANGED vars
  BY <1>6, <1>16 DEF vars
<1> QED BY <1>8, <1>13, <1>14, <1>15, <1>16 DEF Next

\* Without a fault, a step keeps the two ends in step with each other.
LEMMA StagedStep ==
  ASSUME Grounded, ~fault', ~fault, Staged, [Next]_vars
  PROVE  Staged'
<1>1. CASE Quiet
  <2>1. ASSUME NEW e \in Ends, Say(e) PROVE Quiet'
    BY <1>1, <2>1, SayApart
  <2>2. ASSUME NEW e \in Ends, Hear(e) \/ Ignore(e) PROVE Quiet'
    BY <1>1, <2>2, LoopApart
  <2>3. /\ \A e \in Ends : ~LoopError(e)
        /\ ~OfferError /\ ~OfferWaitError /\ ~DrainError /\ ~DrainSafe
    BY <1>1, NoErrorApart, NoSafeApart
  <2>4. OfferUnprompted \/ OfferOnRequest => Quiet'
    BY <1>1, OfferApart
  <2>5. DeclineRequest => Quiet'
    BY <1>1, DeclineApart
  <2>6. Drain \/ ReleaseOther => Quiet'
    BY <1>1, DrainApart
  <2>7. NoGroup \/ JoinTimeout \/ IntroTimeout => Quiet'
    BY <1>1, HostStays
  <2>8. Group => Quiet'
    BY <1>1, GroupApart
  <2>9. (Accept => Quiet') /\ (Introduced => Quiet')
    BY <1>1, AcceptApart, IntroducedApart
  <2>10. Release => Beyond'
    BY <1>1, HostSwapsCleanly
  <2>11. HostStep => Quiet' \/ Beyond'
    BY <2>2, <2>3, <2>4, <2>5, <2>6, <2>7, <2>8, <2>9, <2>10, EndNames DEF HostStep
  <2>12. Ask => Quiet'
    BY <1>1, AskApart
  <2>13. OfferOther \/ OfferRefused \/ OfferTimeout => Quiet'
    BY <1>1, WaitApart
  <2>14. (PathAvailable => Quiet') /\ (Connect => Quiet')
    BY <1>1, PathApart, ConnectApart
  <2>15. JoinFails \/ AckError => Quiet'
    BY <1>1, SenderStays
  <2>16. Acknowledged => Quiet'
    BY <1>1, AcknowledgedApart
  <2>17. DrainLast \/ DrainOther => Quiet'
    BY <1>1, DrainsApart
  <2>18. SenderStep => Quiet'
    BY <2>2, <2>3, <2>13, <2>14, <2>15, <2>16, <2>17, EndNames DEF SenderStep
  <2>19. ~ReleaseTimeout /\ ~AckTimeout /\ ~DrainTimeout /\ ~Cut
    BY DEF ReleaseTimeout, AckTimeout, DrainTimeout, Cut
  <2>20. ASSUME UNCHANGED vars PROVE Quiet'
    BY <1>1, <2>20 DEF vars, Quiet, Apart, Single, Met, Acked, Releasing, Paired, Made, Bare, Plain
  <2>21. Quiet' \/ Beyond'
    BY <2>1, <2>4, <2>11, <2>12, <2>18, <2>19, <2>20 DEF Next
  <2> QED BY <2>21 DEF Staged, Quiet, Beyond
<1>2. CASE Beyond
  <2>1. ASSUME NEW e \in Ends, Say(e) PROVE Beyond'
    BY <1>2, <2>1, SayBeyond
  <2>2. ASSUME NEW e \in Ends, Hear(e) \/ Ignore(e) PROVE Beyond'
    BY <1>2, <2>2, LoopBeyond
  <2>3. DrainLast \/ DrainOther \/ DrainSafe => Beyond'
    BY <1>2, DrainsBeyond
  <2>4. HostStep => Beyond'
    BY <1>2, <2>2, NothingElseBeyond, EndNames DEF HostStep
  <2>5. SenderStep => Beyond'
    BY <1>2, <2>2, <2>3, NothingElseBeyond, EndNames DEF SenderStep
  <2>6. ~ReleaseTimeout /\ ~AckTimeout /\ ~DrainTimeout /\ ~Cut /\ ~Ask /\ ~OfferUnprompted
    BY <1>2, NothingElseBeyond DEF ReleaseTimeout, AckTimeout, DrainTimeout, Cut
  <2>7. ASSUME UNCHANGED vars PROVE Beyond'
    BY <1>2, <2>7 DEF vars, Beyond, Across, Leaving, Moved
  <2>8. Beyond'
    BY <2>1, <2>4, <2>5, <2>6, <2>7 DEF Next
  <2> QED BY <2>8 DEF Staged, Beyond
<1> QED BY <1>1, <1>2 DEF Staged, Quiet, Beyond

\* A fault is not forgotten: fault is a history variable.
LEMMA FaultStays ==
  ASSUME [Next]_vars, fault = TRUE \/ fault = FALSE
  PROVE  fault' = TRUE \/ fault' = fault
<1>1. HostStep => fault' = fault
  BY DEF HostStep, Hear, Ignore, LoopError, Fail, OfferOnRequest, Offer, DeclineRequest, Drain,
         NoGroup, Group, Accept, JoinTimeout, Introduced, IntroTimeout, ReleaseOther, Release,
         OfferError
<1>2. SenderStep => fault' = fault
  BY DEF SenderStep, Hear, Ignore, LoopError, Fail, OfferOther, OfferRefused, OfferTimeout,
         OfferWaitError, PathAvailable, JoinFails, Connect, Acknowledged, AckError, DrainLast,
         DrainOther, DrainSafe, DrainError
<1>3. Ask \/ OfferUnprompted \/ (\E e \in Ends : Say(e)) => fault' = fault
  BY DEF Ask, OfferUnprompted, Offer, Say
<1>4. ReleaseTimeout \/ AckTimeout \/ DrainTimeout \/ Cut => fault' = TRUE
  BY DEF ReleaseTimeout, AckTimeout, DrainTimeout, Cut
<1>5. UNCHANGED vars => fault' = fault
  BY DEF vars
<1> QED BY <1>1, <1>2, <1>3, <1>4, <1>5 DEF Next

\* Every step preserves the invariant.
LEMMA CleanStep ==
  ASSUME CleanInv, [Next]_vars
  PROVE  CleanInv'
<1>1. HandoverInv' /\ Shaped'
  BY HandoverStep, ShapedStep DEF CleanInv, Onward
<1>2. Grounded
  BY <1>1 DEF CleanInv, Grounded
<1>3. fault' = TRUE \/ fault' = fault
  BY FaultStays DEF CleanInv
<1>4. fault' \in BOOLEAN
  BY <1>3 DEF CleanInv
<1>5. ASSUME ~fault' PROVE Staged'
  <2>1. ~fault
    BY <1>3, <1>5 DEF CleanInv
  <2> QED BY <1>2, <1>5, <2>1, StagedStep DEF CleanInv
<1> QED BY <1>1, <1>4, <1>5 DEF CleanInv

\* Nothing has happened: both ends are on the first socket, with no offer made.
LEMMA CleanInit ==
  ASSUME Init
  PROVE  CleanInv
<1>1. HandoverInv
  BY HandoverInit, HandoverAssumption
<1>2. /\ st[H] = "run" /\ st[S] = "run" /\ sock[H] = Old /\ sock[S] = Old
      /\ open[H] = {Old} /\ open[S] = {Old}
      /\ recvSeq[H] = 0 /\ recvSeq[S] = 0 /\ sendSeq[H] = 0 /\ sendSeq[S] = 0
      /\ deferred[S] = <<>>
      /\ attempts = 0 /\ path = 0 /\ joined = {} /\ upgraded = FALSE
  BY EndNames DEF Init
<1>3. Shaped
  BY HandoverAssumption DEF Init, Shaped, Sockets, Old
<1>4. wire[H][Old] = <<>> /\ wire[S][Old] = <<>> /\ Bare(wire)
  <2>1. wire = [e \in Ends |-> [s \in Sockets |-> <<>>]] /\ Old \in Sockets
    BY HandoverAssumption DEF Init, Sockets, Old
  <2> QED BY <2>1, EndNames DEF Bare
<1>5. Made = 0
  BY <1>2 DEF Made
<1>6. /\ ToHost(<<>>, 0, 0, (st[S] = "drain" /\ released)) /\ ToSender(<<>>, 0, 0, 0, 0)
  BY DEF ToHost, ToSender, Run, Closing, Lacks, Offers
<1>7. Lanes(wire, recvSeq, sendSeq, (st[S] = "drain" /\ released), path, Made)
  BY <1>2, <1>4, <1>5, <1>6 DEF Lanes
<1>8. Lacks(<<>>, "path")
  BY RunNone
<1>9. Apart
  BY <1>2, <1>5, <1>7, <1>8 DEF Apart
<1>10. Single
  BY <1>2, <1>4 DEF Single
<1> QED BY <1>1, <1>3, <1>9, <1>10 DEF Init, CleanInv, Staged

\* As long as no wait is cut short and the first socket holds, whatever offers,
\* joins, time-outs and retries interleave, neither thread gives up, and the
\* ends are on different sockets only while the sender is being released
\* (connection.rs offer_group, outbound.rs adopt: "never fatal").
THEOREM HandoverIsClean == Spec => []CleanMove
<1>1. CleanInv => CleanMove
  <2> SUFFICES ASSUME Staged
               PROVE  /\ \A e \in Ends : st[e] # "failed"
                      /\ sock[H] # sock[S] => st[S] = "drain" /\ sock[H] = path
    BY DEF CleanInv, CleanMove
  <2>1. CASE Apart /\ (Single \/ Met \/ Acked \/ Releasing)
    BY <2>1, EndNames DEF Apart, Single, Met, Acked, Releasing
  <2>2. CASE Across /\ (Leaving \/ Moved)
    BY <2>2, EndNames DEF Across, Leaving, Moved
  <2> QED BY <2>1, <2>2 DEF Staged
<1> QED BY <1>1, CleanInit, CleanStep, PTL DEF Spec
=============================================================================
