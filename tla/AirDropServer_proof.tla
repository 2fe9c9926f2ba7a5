------------------------ MODULE AirDropServer_proof -------------------------
(***************************************************************************)
(* Proofs about AirDropServer for any set of connections and any number of *)
(* transfer ids.                                                           *)
(***************************************************************************)
EXTENDS AirDropServer, FiniteSetTheorems, TLAPS

USE ServerAssumption DEF Ids

Places == {"closed", "idle", "asking", "granted", "gate", "uploading", "storing"}

\* /Ask, whatever the policy says.
Asks(c) == \E auto \in BOOLEAN : Ask(c, auto)

\* The steps of one connection's thread.
StepOf(c) ==
    \/ Connect(c) \/ GoneIdle(c) \/ AskRefused(c) \/ AskUnreadable(c) \/ Asks(c)
    \/ Serve(c) \/ UploadGate(c) \/ UploadProgress(c)

\* The steps around the connections.
AroundStep ==
    \/ \E i \in Ids, yes \in BOOLEAN : Answer(i, yes)
    \/ OtherBegin \/ OtherEnd
    \/ GrowStale

\* Every step is one of a connection, or around them.
LEMMA NextSplit == Next <=> (\E c \in Conns : StepOf(c)) \/ AroundStep
  BY DEF Next, StepOf, AroundStep, Asks

-----------------------------------------------------------------------------
(* Types *)

ThreadTypes ==
    /\ pc \in [Conns -> Places]
    /\ ask \in [Conns -> 0 .. MaxId]
    /\ up \in [Conns -> 0 .. MaxId]
    /\ sized \in [Conns -> BOOLEAN]
    /\ granted \subseteq Conns

SlotTypes ==
    /\ current \in 0 .. MaxId /\ next \in 0 .. MaxId
    /\ clock \in {"none", "fresh", "stale"}
    /\ lost \subseteq 0 .. MaxId

RestTypes ==
    /\ decision \in [id : 0 .. MaxId, accept : BOOLEAN]
    /\ other \in 0 .. MaxId
    /\ offered \subseteq Ids /\ approved \subseteq Ids

\* The type invariant, by the owner of each variable.
LEMMA TypeParts == TypeOK <=> ThreadTypes /\ SlotTypes /\ RestTypes
  BY DEF TypeOK, ThreadTypes, SlotTypes, RestTypes, Places

\* A thread that closes its connection keeps its own variables typed.
LEMMA CloseTyped == ASSUME ThreadTypes, NEW c \in Conns, Close(c) PROVE ThreadTypes'
<1>1. pc' \in [Conns -> Places] /\ ask' \in [Conns -> 0 .. MaxId] /\ up' \in [Conns -> 0 .. MaxId]
  BY DEF ThreadTypes, Close, Goto, Places
<1>2. sized' \in [Conns -> BOOLEAN]
  BY Zenon DEF ThreadTypes, Close
<1>3. granted' \subseteq Conns
  BY DEF ThreadTypes, Close
<1> QED BY <1>1, <1>2, <1>3 DEF ThreadTypes

\* finish() keeps the slot typed.
LEMMA FinishTyped == ASSUME SlotTypes, NEW i, finish(i) PROVE SlotTypes'
  BY DEF SlotTypes, finish

\* A claim hands out an id in range.
LEMMA ClaimTyped == ASSUME SlotTypes, Claim PROVE SlotTypes' /\ next + 1 \in 0 .. MaxId
<1>1. lost' \subseteq 0 .. MaxId
  BY DEF Claim, Reclaim, SlotTypes
<1>2. current' \in 0 .. MaxId /\ next' \in 0 .. MaxId /\ clock' \in {"none", "fresh", "stale"}
  BY DEF SlotTypes, Claim
<1> QED BY <1>1, <1>2 DEF SlotTypes, Claim

\* The threads of the receiver keep their variables typed.
LEMMA ThreadsTyped ==
  ASSUME TypeOK, NEW c \in Conns, StepOf(c)
  PROVE  ThreadTypes'
<1>0. ThreadTypes /\ SlotTypes
  BY TypeParts
<1>1. ASSUME NEW l \in Places, Goto(c, l), UNCHANGED <<ask, up, sized>>, granted' \subseteq Conns
      PROVE  ThreadTypes'
  BY <1>0, <1>1 DEF ThreadTypes, Goto
<1>2. CASE Close(c)
  BY <1>0, <1>2, CloseTyped
<1>3. CASE UNCHANGED <<pc, threads>>
  BY <1>0, <1>3 DEF ThreadTypes, threads
<1>4. CASE Connect(c) \/ Granted(c)
  <2>1. \E l \in {"idle"} : Goto(c, l)
    BY <1>4 DEF Connect, Granted
  <2>2. UNCHANGED <<ask, up, sized>> /\ granted' \subseteq Conns
    BY <1>0, <1>4 DEF Connect, Granted, threads, ThreadTypes
  <2> QED BY <1>1, <2>1, <2>2 DEF Places
<1>5. ASSUME NEW auto \in BOOLEAN, Ask(c, auto) PROVE ThreadTypes'
  <2>1. next + 1 \in 0 .. MaxId
    BY <1>0, <1>5, ClaimTyped DEF Ask
  <2>2. ask' \in [Conns -> 0 .. MaxId] /\ pc' \in [Conns -> Places]
    BY <1>0, <1>5, <2>1 DEF Ask, Goto, ThreadTypes, Places
  <2>3. up' = up /\ sized' = sized /\ granted' \subseteq Conns
    BY <1>0, <1>5 DEF Ask, ThreadTypes
  <2> QED BY <1>0, <2>2, <2>3 DEF ThreadTypes
<1>6. CASE Poll(c)
  <2>1. CASE Goto(c, "granted") /\ UNCHANGED threads
    BY <1>0, <1>1, <2>1 DEF threads, ThreadTypes, Places
  <2> QED BY <1>2, <1>3, <1>6, <2>1 DEF Poll, threads
<1>7. CASE UploadBegin(c)
  <2>1. pc' \in [Conns -> Places] /\ up' \in [Conns -> 0 .. MaxId]
    BY <1>0, <1>7 DEF UploadBegin, Goto, ThreadTypes, SlotTypes, Places
  <2>2. PICK b \in BOOLEAN : sized' = [sized EXCEPT ![c] = b]
    BY <1>7 DEF UploadBegin
  <2>3. sized' \in [Conns -> BOOLEAN]
    BY <1>0, <2>2, Zenon DEF ThreadTypes
  <2>4. ask' = ask /\ granted' = granted
    BY <1>7 DEF UploadBegin
  <2> QED BY <1>0, <2>1, <2>3, <2>4 DEF ThreadTypes
<1>8. CASE UploadReceived(c)
  <2>1. pc' \in [Conns -> Places]
    BY <1>0, <1>8 DEF UploadReceived, Goto, ThreadTypes, Places
  <2>2. sized' \in [Conns -> BOOLEAN]
    BY <1>0, <1>8, Zenon DEF ThreadTypes, UploadReceived
  <2>3. up' = up /\ ask' = ask /\ granted' = granted
    BY <1>8 DEF UploadReceived
  <2> QED BY <1>0, <2>1, <2>2, <2>3 DEF ThreadTypes
<1>9. CASE UploadGate(c)
  <2>1. CASE Goto(c, "gate") /\ UNCHANGED threads
    BY <1>0, <1>1, <2>1 DEF threads, ThreadTypes, Places
  <2> QED BY <1>2, <1>9, <2>1 DEF UploadGate
<1>10. CASE UploadProgress(c)
  BY <1>3, <1>10 DEF UploadProgress
<1> QED BY <1>2, <1>4, <1>5, <1>6, <1>7, <1>8, <1>9, <1>10
        DEF StepOf, Asks, Serve, GoneIdle, AskRefused, AskUnreadable, AskUnanswered, GrantLost, UploadEnd

\* A connection's step keeps the slot typed.
LEMMA SlotTyped ==
  ASSUME TypeOK, NEW c \in Conns, StepOf(c)
  PROVE  SlotTypes'
<1>0. ThreadTypes /\ SlotTypes
  BY TypeParts
<1>1. CASE UNCHANGED slot
  BY <1>0, <1>1 DEF slot, SlotTypes
<1>2. CASE Claim
  BY <1>0, <1>2, ClaimTyped
<1>3. ASSUME NEW i, finish(i) PROVE SlotTypes'
  BY <1>0, <1>3, FinishTyped
<1>4. CASE AskUnreadable(c)
  <2>1. lost' \subseteq 0 .. MaxId
    BY <1>0, <1>4 DEF AskUnreadable, Reclaim, SlotTypes
  <2> QED BY <1>0, <1>4, <2>1 DEF AskUnreadable, SlotTypes
<1>5. CASE UploadProgress(c) \/ UploadReceived(c) \/ UploadBegin(c)
  BY <1>0, <1>5 DEF UploadProgress, UploadReceived, UploadBegin, SlotTypes
<1>6. CASE Serve(c)
  BY <1>1, <1>3, <1>5, <1>6
     DEF Serve, Poll, AskUnanswered, Granted, GrantLost, UploadEnd
<1>7. CASE Connect(c) \/ GoneIdle(c) \/ AskRefused(c) \/ Asks(c) \/ UploadGate(c)
  BY <1>1, <1>2, <1>7 DEF Connect, GoneIdle, AskRefused, Asks, Ask, UploadGate
<1> QED BY <1>4, <1>5, <1>6, <1>7 DEF StepOf

\* A connection's step keeps the mailbox and the history typed.
LEMMA RestTyped ==
  ASSUME TypeOK, NEW c \in Conns, StepOf(c)
  PROVE  RestTypes'
<1>0. RestTypes /\ SlotTypes
  BY TypeParts
<1>1. CASE UNCHANGED <<decision, other, said>>
  BY <1>0, <1>1 DEF RestTypes, said
<1>2. ASSUME NEW auto \in BOOLEAN, Ask(c, auto) PROVE RestTypes'
  <2>1. next + 1 \in Ids /\ next + 1 \in 0 .. MaxId
    BY <1>0, <1>2 DEF Ask, Claim, SlotTypes
  <2>2. decision' \in [id : 0 .. MaxId, accept : BOOLEAN]
    <3>1. decision' = decision \/ decision' = [id |-> next + 1, accept |-> TRUE]
      BY <1>2, Zenon DEF Ask
    <3>2. ASSUME NEW b \in BOOLEAN PROVE [id |-> next + 1, accept |-> b] \in [id : 0 .. MaxId, accept : BOOLEAN]
      BY <2>1
    <3>3. [id |-> next + 1, accept |-> TRUE] \in [id : 0 .. MaxId, accept : BOOLEAN]
      BY <3>2, Zenon
    <3> QED BY <1>0, <3>1, <3>3, Zenon DEF RestTypes
  <2>3. offered' \subseteq Ids /\ approved' \subseteq Ids
    BY <1>0, <1>2, <2>1, Zenon DEF Ask, RestTypes
  <2> QED BY <1>0, <1>2, <2>2, <2>3 DEF Ask, RestTypes
<1>3. CASE Poll(c)
  <2>1. decision' \in [id : 0 .. MaxId, accept : BOOLEAN]
    BY <1>3 DEF Poll, NoDecision
  <2> QED BY <1>0, <1>3, <2>1 DEF Poll, RestTypes, said
<1>4. CASE Serve(c)
  BY <1>1, <1>3, <1>4
     DEF Serve, AskUnanswered, Granted, GrantLost, UploadBegin, UploadReceived, UploadEnd
<1>5. CASE Connect(c) \/ GoneIdle(c) \/ AskRefused(c) \/ AskUnreadable(c) \/ UploadGate(c)
           \/ UploadProgress(c)
  BY <1>1, <1>5 DEF Connect, GoneIdle, AskRefused, AskUnreadable, UploadGate, UploadProgress
<1> QED BY <1>2, <1>4, <1>5 DEF StepOf, Asks

\* The steps around the connections keep every variable typed.
LEMMA AroundTyped == ASSUME TypeOK, AroundStep PROVE TypeOK'
<1>0. ThreadTypes /\ SlotTypes /\ RestTypes
  BY TypeParts
<1>1. UNCHANGED <<pc, threads>>
  BY DEF AroundStep, Answer, OtherBegin, OtherEnd, GrowStale
<1>2. ThreadTypes'
  BY <1>0, <1>1 DEF ThreadTypes, threads
<1>3. SlotTypes'
  <2>1. CASE GrowStale
    BY <1>0, <2>1 DEF GrowStale, SlotTypes
  <2>2. CASE OtherBegin
    BY <1>0, <2>2, ClaimTyped DEF OtherBegin
  <2>3. CASE OtherEnd
    BY <1>0, <2>3, FinishTyped DEF OtherEnd
  <2>4. CASE UNCHANGED slot
    BY <1>0, <2>4 DEF slot, SlotTypes
  <2> QED BY <2>1, <2>2, <2>3, <2>4 DEF AroundStep, Answer
<1>4. RestTypes'
  <2>1. ASSUME NEW i \in Ids, NEW yes \in BOOLEAN, Answer(i, yes) PROVE RestTypes'
    <3>1. decision' \in [id : 0 .. MaxId, accept : BOOLEAN]
      BY <2>1 DEF Answer
    <3>2. approved' \subseteq Ids
      BY <1>0, <2>1 DEF Answer, RestTypes
    <3> QED BY <1>0, <2>1, <3>1, <3>2 DEF Answer, RestTypes
  <2>3. CASE OtherBegin
    BY <1>0, <2>3, ClaimTyped DEF OtherBegin, RestTypes, said
  <2>4. CASE OtherEnd \/ GrowStale
    <3>1. other' \in 0 .. MaxId
      BY <1>0, <2>4 DEF OtherEnd, GrowStale, RestTypes
    <3>2. UNCHANGED <<decision, offered, approved>>
      BY <2>4 DEF OtherEnd, GrowStale, said
    <3> QED BY <1>0, <3>1, <3>2 DEF RestTypes
  <2> QED BY <2>1, <2>3, <2>4 DEF AroundStep
<1> QED BY <1>2, <1>3, <1>4 DEF TypeOK, ThreadTypes, SlotTypes, RestTypes, Places

\* The state of the AirDrop receiver stays well typed under every step of every
\* connection and around them.
THEOREM TypeCorrect == Spec => []TypeOK
<1>1. Init => TypeOK
  <2> SUFFICES ASSUME Init PROVE TypeOK
    OBVIOUS
  <2>1. ThreadTypes
    <3>1. sized \in [Conns -> BOOLEAN]
      BY Zenon DEF Init
    <3>2. pc \in [Conns -> Places]
      BY DEF Init, Places
    <3>3. ask \in [Conns -> 0 .. MaxId] /\ up \in [Conns -> 0 .. MaxId]
      BY DEF Init
    <3> QED BY <3>1, <3>2, <3>3 DEF ThreadTypes, Init
  <2>2. SlotTypes
    BY DEF Init, SlotTypes
  <2>3. RestTypes
    BY DEF Init, RestTypes, NoDecision
  <2> QED BY <2>1, <2>2, <2>3, TypeParts
<1>2. TypeOK /\ [Next]_vars => TypeOK'
  <2> SUFFICES ASSUME TypeOK, [Next]_vars PROVE TypeOK'
    OBVIOUS
  <2>1. ASSUME NEW c \in Conns, StepOf(c) PROVE TypeOK'
    BY <2>1, ThreadsTyped, SlotTyped, RestTyped
       DEF TypeOK, ThreadTypes, SlotTypes, RestTypes, Places
  <2>2. CASE UNCHANGED vars
    BY <2>2 DEF vars, TypeOK
  <2> QED BY <2>1, <2>2, NextSplit, AroundTyped
<1> QED BY <1>1, <1>2, PTL DEF Spec

-----------------------------------------------------------------------------
(* A 200 is an answer to the connection's own offer *)

\* A yes in the mailbox is one somebody said.
MailboxHonest == decision.accept => decision.id \in approved

GrantInv == MailboxHonest /\ GrantIsApproved

\* A step that leaves the mailbox alone, and gives no connection a grant it did
\* not have, keeps both.
LEMMA GrantFrame ==
  ASSUME GrantInv, decision' = decision, approved \subseteq approved',
         \A c \in Conns : (pc[c] = "granted" \/ c \in granted)' =>
                              (pc[c] = "granted" \/ c \in granted) /\ ask'[c] = ask[c]
  PROVE  GrantInv'
  BY DEF GrantInv, MailboxHonest, GrantIsApproved

\* Closing a connection grants nothing.
LEMMA CloseGrants ==
  ASSUME TypeOK, NEW c \in Conns, Close(c), NEW d \in Conns, (pc[d] = "granted" \/ d \in granted)'
  PROVE  (pc[d] = "granted" \/ d \in granted) /\ ask'[d] = ask[d]
  BY DEF TypeOK, Close, Goto

\* Every step keeps the mailbox honest and the grants approved.
LEMMA GrantStep == ASSUME TypeOK, GrantInv, [Next]_vars PROVE GrantInv'
<1> USE DEF TypeOK
<1>1. ASSUME NEW c \in Conns, StepOf(c) PROVE GrantInv'
  <2>1. CASE Close(c) /\ UNCHANGED <<decision, approved>>
    BY <2>1, CloseGrants, GrantFrame
  <2>2. ASSUME NEW auto \in BOOLEAN, Ask(c, auto) PROVE GrantInv'
    <3>1. \A d \in Conns : d # c => /\ pc'[d] = pc[d] /\ ask'[d] = ask[d]
                                    /\ d \in granted' <=> d \in granted
      BY <2>2 DEF Ask, Goto
    <3>2. ask'[c] = next + 1 /\ c \notin granted' /\ approved \subseteq approved'
      BY <2>2 DEF Ask
    <3>3. CASE auto
      <4>1. /\ decision' = [id |-> next + 1, accept |-> TRUE]
            /\ next + 1 \in approved'
        BY <2>2, <3>3 DEF Ask
      <4> QED BY <3>1, <3>2, <4>1 DEF GrantInv, MailboxHonest, GrantIsApproved
    <3>4. CASE ~auto
      <4>1. decision' = decision /\ pc'[c] = "asking"
        BY <2>2, <3>4 DEF Ask, Goto
      <4> QED BY <3>1, <3>2, <4>1 DEF GrantInv, MailboxHonest, GrantIsApproved
    <3> QED BY <3>3, <3>4
  <2>3. CASE Poll(c)
    <3>1. MailboxHonest'
      BY <2>3 DEF Poll, MailboxHonest, NoDecision
    <3>2. approved' = approved
      BY <2>3 DEF Poll, said
    <3>3. CASE decision.id = ask[c] /\ decision.accept
      <4>1. /\ \A d \in Conns : d # c => pc'[d] = pc[d]
            /\ ask' = ask /\ granted' = granted
        BY <2>3, <3>3 DEF Poll, Goto, Close, threads
      <4> QED BY <3>1, <3>2, <3>3, <4>1 DEF GrantInv, MailboxHonest, GrantIsApproved
    <3>4. CASE decision.id = ask[c] /\ ~decision.accept
      <4>1. Close(c)
        BY <2>3, <3>4 DEF Poll
      <4> QED BY <3>1, <3>2, <4>1, CloseGrants DEF GrantInv, GrantIsApproved
    <3>5. CASE decision.id # ask[c]
      <4>1. pc' = pc /\ ask' = ask /\ granted' = granted
        BY <2>3, <3>5 DEF Poll, threads
      <4> QED BY <3>1, <3>2, <4>1 DEF GrantInv, GrantIsApproved
    <3> QED BY <3>3, <3>4, <3>5
  <2>4. CASE Granted(c)
    <3>1. /\ decision' = decision /\ approved' = approved /\ ask' = ask
          /\ \A d \in Conns : d # c => pc'[d] = pc[d] /\ (d \in granted' <=> d \in granted)
          /\ pc[c] = "granted"
      BY <2>4 DEF Granted, Goto, said
    <3> QED BY <3>1, GrantFrame
  <2>5. CASE Connect(c) \/ UploadBegin(c) \/ UploadReceived(c) \/ UploadProgress(c)
    <3>1. UNCHANGED <<decision, approved, ask, granted>>
      BY <2>5 DEF Connect, UploadBegin, UploadReceived, UploadProgress, threads, said
    <3>2. \A d \in Conns : pc'[d] = pc[d] \/ pc'[d] \in {"idle", "uploading", "storing"}
      BY <2>5 DEF Connect, UploadBegin, UploadReceived, UploadProgress, Goto
    <3> QED BY <3>1, <3>2, GrantFrame
  <2>6. CASE UploadGate(c)
    <3>1. CASE Goto(c, "gate") /\ UNCHANGED <<threads, decision, approved>>
      <4>1. /\ UNCHANGED <<decision, approved, ask, granted>>
            /\ \A d \in Conns : pc'[d] = pc[d] \/ pc'[d] = "gate"
        BY <3>1 DEF Goto, threads
      <4> QED BY <4>1, GrantFrame
    <3> QED BY <2>1, <2>6, <3>1 DEF UploadGate, said
  <2> QED BY <1>1, <2>1, <2>2, <2>3, <2>4, <2>5, <2>6
          DEF StepOf, Asks, Serve, GoneIdle, AskRefused, AskUnreadable, AskUnanswered, GrantLost,
              UploadEnd, said
<1>2. CASE AroundStep
  <2>1. UNCHANGED <<pc, threads>>
    BY <1>2 DEF AroundStep, Answer, OtherBegin, OtherEnd, GrowStale
  <2>2. ASSUME NEW i \in Ids, NEW yes \in BOOLEAN, Answer(i, yes) PROVE GrantInv'
    <3>1. /\ decision' = [id |-> i, accept |-> yes]
          /\ approved \subseteq approved' /\ (yes => i \in approved')
      BY <2>2 DEF Answer
    <3> QED BY <2>1, <3>1 DEF threads, GrantInv, MailboxHonest, GrantIsApproved
  <2>3. CASE UNCHANGED <<decision, said>>
    BY <2>1, <2>3, GrantFrame DEF threads, said
  <2> QED BY <1>2, <2>2, <2>3
          DEF AroundStep, OtherBegin, OtherEnd, GrowStale
<1>3. CASE UNCHANGED vars
  BY <1>3, GrantFrame DEF vars
<1> QED BY <1>1, <1>2, <1>3, NextSplit

\* A peer is told 200 only for an offer somebody said yes to, however late,
\* often or crossed the answers in the one mailbox are, for any number of
\* connections.
THEOREM GrantsApproved == Spec => []GrantIsApproved
<1>1. Init => GrantInv
  BY DEF Init, GrantInv, MailboxHonest, GrantIsApproved, NoDecision
<1>2. TypeOK /\ GrantInv /\ [Next]_vars => GrantInv'
  BY GrantStep
<1>3. GrantInv => GrantIsApproved
  BY DEF GrantInv
<1> QED BY <1>1, <1>2, <1>3, TypeCorrect, PTL DEF Spec

-----------------------------------------------------------------------------
(* What is shown and what is received go on under the offer's own id *)

\* The connection has an offer on screen, granted or being uploaded.
Holder(c) == pc[c] \in {"asking", "granted"} \/ c \in granted

Receiving(c) == pc[c] \in {"uploading", "storing"}

\* Ids are handed out in order: no two connections, and no connection and
\* another transfer, ever work under the same one.
IdsFresh ==
    /\ current =< next /\ other =< next
    /\ \A c \in Conns : ask[c] =< next /\ (ask[c] # 0 => ask[c] # other)
    /\ \A c, d \in Conns : ask[c] # 0 /\ ask[c] = ask[d] => c = d

HoldersPlaced == \A c \in Conns : Holder(c) => ask[c] # 0

\* Whoever has an offer going that was not lost has the slot, and uploads under
\* the id of that offer.
HoldersOwn ==
    \A c \in Conns : Holder(c) /\ ask[c] \notin lost =>
        current = ask[c] /\ (Receiving(c) => up[c] = ask[c])

\* An upload runs under its connection's own offer, under nothing, or under an
\* id that counts as lost: it is what its end may release.
UploadsMarked ==
    \A c \in Conns : Receiving(c) =>
        up[c] \in lost \cup {0} \/ (c \in granted /\ up[c] = ask[c])

OwnInv == IdsFresh /\ HoldersPlaced /\ HoldersOwn /\ UploadsMarked

\* A step of one connection leaves the others' threads alone.
LEMMA OthersUntouched ==
  ASSUME TypeOK, NEW c \in Conns, StepOf(c), NEW d \in Conns, d # c
  PROVE  /\ pc'[d] = pc[d] /\ ask'[d] = ask[d] /\ up'[d] = up[d]
         /\ d \in granted' <=> d \in granted
<1> USE DEF TypeOK, Goto, threads
<1>1. CASE Close(c)
  BY <1>1 DEF Close
<1>2. CASE Connect(c) \/ Asks(c) \/ Granted(c) \/ UploadBegin(c) \/ UploadReceived(c)
           \/ UploadProgress(c)
  BY <1>2 DEF Connect, Asks, Ask, Granted, UploadBegin, UploadReceived, UploadProgress
<1>3. CASE Poll(c)
  BY <1>1, <1>3 DEF Poll
<1>4. CASE UploadGate(c)
  BY <1>1, <1>4 DEF UploadGate
<1> QED BY <1>1, <1>2, <1>3, <1>4
        DEF StepOf, Serve, GoneIdle, AskRefused, AskUnreadable, AskUnanswered, GrantLost, UploadEnd

\* What one step of a connection does to the ids.
LEMMA IdsMove ==
  ASSUME TypeOK, NEW c \in Conns, StepOf(c)
  PROVE  /\ other' = other
         /\ \/ next' = next /\ (current' = current \/ current' = 0)
               /\ (ask'[c] = ask[c] \/ ask'[c] = 0)
            \/ next' = next + 1 /\ (current' = next + 1 \/ current' = 0)
               /\ (ask'[c] = next + 1 \/ ask'[c] = 0)
<1> USE DEF TypeOK, slot, threads
<1>0. other' = other
  BY DEF StepOf, Serve, Connect, GoneIdle, AskRefused, AskUnreadable, Asks, Ask, UploadGate,
         UploadProgress, Poll, AskUnanswered, Granted, GrantLost, UploadBegin, UploadReceived,
         UploadEnd
<1>1. Close(c) => ask'[c] = 0
  BY DEF Close
<1>2. CASE Asks(c)
  BY <1>0, <1>2 DEF Asks, Ask, Claim
<1>3. CASE AskUnreadable(c)
  BY <1>0, <1>1, <1>3 DEF AskUnreadable
<1>4. CASE Poll(c) \/ AskUnanswered(c) \/ UploadEnd(c)
  BY <1>0, <1>1, <1>4 DEF Poll, AskUnanswered, UploadEnd, finish
<1>5. CASE Connect(c) \/ GoneIdle(c) \/ AskRefused(c) \/ UploadGate(c) \/ UploadProgress(c)
           \/ Granted(c) \/ GrantLost(c) \/ UploadBegin(c) \/ UploadReceived(c)
  BY <1>0, <1>1, <1>5
     DEF Connect, GoneIdle, AskRefused, UploadGate, UploadProgress, Granted, GrantLost,
         UploadBegin, UploadReceived
<1> QED BY <1>2, <1>3, <1>4, <1>5 DEF StepOf, Serve

\* Ids stay in order and apart.
LEMMA IdsFreshStep == ASSUME TypeOK, IdsFresh, [Next]_vars PROVE IdsFresh'
<1>0. next \in Nat /\ other \in Nat /\ ask \in [Conns -> Nat]
  BY DEF TypeOK
<1>1. ASSUME NEW c \in Conns, StepOf(c) PROVE IdsFresh'
  <2>1. \A d \in Conns : d # c => ask'[d] = ask[d]
    BY <1>1, OthersUntouched
  <2>2. /\ other' = other
        /\ \/ next' = next /\ (current' = current \/ current' = 0)
              /\ (ask'[c] = ask[c] \/ ask'[c] = 0)
           \/ next' = next + 1 /\ (current' = next + 1 \/ current' = 0)
              /\ (ask'[c] = next + 1 \/ ask'[c] = 0)
    BY <1>1, IdsMove
  <2>3. \A d \in Conns : \/ ask'[d] = ask[d] \/ ask'[d] = 0
                         \/ d = c /\ ask'[d] = next + 1 /\ next' = next + 1
    BY <2>1, <2>2
  <2>4. current' =< next' /\ other' =< next'
    BY <1>0, <2>2 DEF IdsFresh
  <2>5. \A d \in Conns : ask'[d] =< next' /\ (ask'[d] # 0 => ask'[d] # other')
    BY <1>0, <2>2, <2>3 DEF IdsFresh
  <2>6. \A d, e \in Conns : ask'[d] # 0 /\ ask'[d] = ask'[e] => d = e
    BY <1>0, <2>2, <2>3 DEF IdsFresh
  <2> QED BY <2>4, <2>5, <2>6 DEF IdsFresh
<1>2. CASE AroundStep
  <2>1. ask' = ask
    BY <1>2 DEF AroundStep, Answer, OtherBegin, OtherEnd, GrowStale, threads
  <2>2. CASE OtherBegin
    BY <1>0, <2>1, <2>2 DEF OtherBegin, Claim, IdsFresh
  <2>3. CASE OtherEnd
    BY <1>0, <2>1, <2>3 DEF OtherEnd, finish, IdsFresh
  <2>4. CASE UNCHANGED <<current, next, other>>
    BY <2>1, <2>4 DEF IdsFresh
  <2> QED BY <1>2, <2>2, <2>3, <2>4 DEF AroundStep, Answer, GrowStale, slot
<1>3. CASE UNCHANGED vars
  BY <1>3 DEF vars, IdsFresh
<1> QED BY <1>1, <1>2, <1>3, NextSplit

\* What one step of a connection does to its own thread: it becomes a holder
\* only by making an offer, and everything after that keeps the offer's id.
LEMMA HolderMoves ==
  ASSUME TypeOK, NEW c \in Conns, StepOf(c), Holder(c)'
  PROVE  \/ Asks(c) /\ ask'[c] = next + 1 /\ current' = next + 1 /\ ~Receiving(c)'
         \/ /\ Holder(c) /\ ask'[c] = ask[c] /\ current' = current
            /\ Receiving(c)' => (Receiving(c) /\ up'[c] = up[c]) \/ up'[c] = current
<1> USE DEF TypeOK, Goto, threads, slot, Holder, Receiving
<1>1. ~Close(c)
  BY DEF Close
<1>2. CASE Asks(c)
  BY <1>2 DEF Asks, Ask, Claim
<1>3. CASE Connect(c)
  BY <1>3 DEF Connect
<1>4. CASE UploadProgress(c)
  BY <1>4 DEF UploadProgress
<1>5. CASE Poll(c)
  <2>1. UNCHANGED <<threads, slot>> /\ pc[c] = "asking" /\ pc'[c] \in {"asking", "granted"}
    BY <1>1, <1>5 DEF Poll
  <2> QED BY <2>1
<1>6. CASE Granted(c)
  BY <1>6 DEF Granted
<1>7. CASE UploadGate(c)
  BY <1>1, <1>7 DEF UploadGate
<1>8. CASE UploadBegin(c)
  BY <1>8 DEF UploadBegin
<1>9. CASE UploadReceived(c)
  BY <1>9 DEF UploadReceived
<1> QED BY <1>1, <1>2, <1>3, <1>4, <1>5, <1>6, <1>7, <1>8, <1>9
        DEF StepOf, Serve, GoneIdle, AskRefused, AskUnreadable, AskUnanswered, GrantLost, UploadEnd

\* An upload that begins under another's id makes that id count as lost, and
\* one that goes on keeps the id it began with.
LEMMA UploadMoves ==
  ASSUME TypeOK, NEW c \in Conns, StepOf(c), Receiving(c)'
  PROVE  /\ ask'[c] = ask[c] /\ (c \in granted' <=> c \in granted)
         /\ \/ Receiving(c) /\ up'[c] = up[c]
            \/ up'[c] \in lost' \cup {0} \/ (c \in granted /\ up'[c] = ask[c])
<1> USE DEF TypeOK, Goto, threads, slot, Receiving
<1>1. ~Close(c)
  BY DEF Close
<1>2. CASE Asks(c)
  BY <1>2 DEF Asks, Ask
<1>3. CASE Connect(c) \/ Granted(c)
  BY <1>3 DEF Connect, Granted
<1>4. CASE UploadProgress(c) \/ UploadReceived(c)
  BY <1>4 DEF UploadProgress, UploadReceived
<1>5. CASE Poll(c)
  BY <1>1, <1>5 DEF Poll
<1>6. CASE UploadGate(c)
  BY <1>1, <1>6 DEF UploadGate
<1>7. CASE UploadBegin(c)
  BY <1>7 DEF UploadBegin, InFlightIsOwn
<1> QED BY <1>1, <1>2, <1>3, <1>4, <1>5, <1>6, <1>7
        DEF StepOf, Serve, GoneIdle, AskRefused, AskUnreadable, AskUnanswered, GrantLost, UploadEnd

\* What was lost stays lost.
LEMMA LostGrows == ASSUME TypeOK, NEW c \in Conns, StepOf(c) PROVE lost \subseteq lost'
<1> USE DEF slot
<1>1. CASE Asks(c) \/ AskUnreadable(c)
  BY <1>1 DEF Asks, Ask, AskUnreadable, Claim, Reclaim
<1>2. CASE Serve(c)
  BY <1>2 DEF Serve, Poll, AskUnanswered, Granted, GrantLost, UploadBegin, UploadReceived,
              UploadEnd, finish
<1>3. CASE Connect(c) \/ GoneIdle(c) \/ AskRefused(c) \/ UploadGate(c) \/ UploadProgress(c)
  BY <1>3 DEF Connect, GoneIdle, AskRefused, UploadGate, UploadProgress
<1> QED BY <1>1, <1>2, <1>3 DEF StepOf

\* Another connection's step takes the slot from an offer only by declaring it
\* stale, or by ending an upload that ran under its id.
LEMMA StrangerKeepsSlot ==
  ASSUME TypeOK, OwnInv, NEW c \in Conns, StepOf(c), NEW d \in Conns, d # c,
         ask[d] # 0, current = ask[d], ask[d] \notin lost'
  PROVE  current' = current
<1> USE DEF slot
<1>0. ask[d] \notin lost
  BY LostGrows
<1>1. CASE Connect(c) \/ GoneIdle(c) \/ AskRefused(c) \/ UploadGate(c) \/ UploadProgress(c)
  BY <1>1 DEF Connect, GoneIdle, AskRefused, UploadGate, UploadProgress
<1>2. CASE AskUnreadable(c) \/ Asks(c)
  BY <1>2 DEF AskUnreadable, Asks, Ask, Claim, SlotFree, Reclaim
<1>3. CASE Poll(c) \/ AskUnanswered(c)
  <2>1. ask[c] # ask[d]
    BY DEF OwnInv, IdsFresh
  <2> QED BY <1>3, <2>1 DEF Poll, AskUnanswered, finish
<1>4. CASE UploadEnd(c)
  <2>1. up[c] # ask[d]
    BY <1>0, <1>4 DEF UploadEnd, OwnInv, UploadsMarked, Receiving, IdsFresh
  <2> QED BY <1>4, <2>1 DEF UploadEnd, finish
<1>5. CASE Granted(c) \/ GrantLost(c) \/ UploadBegin(c) \/ UploadReceived(c)
  BY <1>5 DEF Granted, GrantLost, UploadBegin, UploadReceived
<1> QED BY <1>1, <1>2, <1>3, <1>4, <1>5 DEF StepOf, Serve

\* Every step keeps each offer, prompt or upload, under its own id in the slot.
LEMMA OwnStep == ASSUME TypeOK, OwnInv, [Next]_vars PROVE OwnInv'
<1> USE DEF OwnInv
<1>0. IdsFresh'
  BY IdsFreshStep
<1>1. ASSUME NEW c \in Conns, StepOf(c) PROVE (HoldersPlaced /\ HoldersOwn /\ UploadsMarked)'
  <2>1. \A d \in Conns : d # c =>
            /\ pc'[d] = pc[d] /\ ask'[d] = ask[d] /\ up'[d] = up[d]
            /\ d \in granted' <=> d \in granted
    BY <1>1, OthersUntouched
  <2>2. \A d \in Conns : d # c => (Holder(d)' <=> Holder(d)) /\ (Receiving(d)' <=> Receiving(d))
    BY <2>1 DEF Holder, Receiving
  <2>3. lost \subseteq lost'
    BY <1>1, LostGrows
  <2>4. HoldersPlaced'
    <3>1. Holder(c)' => ask'[c] # 0
      BY <1>1, HolderMoves DEF HoldersPlaced, TypeOK
    <3> QED BY <2>1, <2>2, <3>1 DEF HoldersPlaced
  <2>5. HoldersOwn'
    <3> SUFFICES ASSUME NEW d \in Conns, Holder(d)', ask'[d] \notin lost'
                 PROVE  current' = ask'[d] /\ (Receiving(d)' => up'[d] = ask'[d])
      BY DEF HoldersOwn
    <3>1. CASE d # c
      <4>1. Holder(d) /\ ask'[d] = ask[d] /\ ask[d] \notin lost
        BY <2>1, <2>2, <2>3, <3>1
      <4>2. current = ask[d] /\ ask[d] # 0 /\ (Receiving(d) => up[d] = ask[d])
        BY <4>1 DEF HoldersOwn, HoldersPlaced
      <4>3. current' = current
        BY <1>1, <3>1, <4>1, <4>2, StrangerKeepsSlot
      <4> QED BY <2>1, <2>2, <3>1, <4>2, <4>3
    <3>2. CASE d = c
      <4>1. CASE ask'[c] = next + 1 /\ current' = next + 1 /\ ~Receiving(c)'
        BY <3>2, <4>1
      <4>2. CASE /\ Holder(c) /\ ask'[c] = ask[c] /\ current' = current
                 /\ Receiving(c)' => (Receiving(c) /\ up'[c] = up[c]) \/ up'[c] = current
        <5>1. ask[c] \notin lost
          BY <2>3, <3>2, <4>2
        <5>2. current = ask[c] /\ (Receiving(c) => up[c] = ask[c])
          BY <4>2, <5>1 DEF HoldersOwn
        <5> QED BY <3>2, <4>2, <5>2
      <4> QED BY <1>1, <3>2, <4>1, <4>2, HolderMoves
    <3> QED BY <3>1, <3>2
  <2>6. UploadsMarked'
    <3> SUFFICES ASSUME NEW d \in Conns, Receiving(d)'
                 PROVE  up'[d] \in lost' \cup {0} \/ (d \in granted' /\ up'[d] = ask'[d])
      BY DEF UploadsMarked
    <3>1. CASE d # c
      BY <2>1, <2>2, <2>3, <3>1 DEF UploadsMarked
    <3>2. CASE d = c
      BY <1>1, <2>3, <3>2, UploadMoves DEF UploadsMarked
    <3> QED BY <3>1, <3>2
  <2> QED BY <2>4, <2>5, <2>6
<1>2. CASE AroundStep
  <2>1. UNCHANGED <<pc, threads>>
    BY <1>2 DEF AroundStep, Answer, OtherBegin, OtherEnd, GrowStale
  <2>2. HoldersPlaced'
    BY <2>1 DEF HoldersPlaced, Holder, threads
  <2>3. lost \subseteq lost'
    BY <1>2 DEF AroundStep, Answer, OtherBegin, OtherEnd, GrowStale, Claim, Reclaim, finish, slot
  <2>4. UploadsMarked'
    BY <2>1, <2>3 DEF UploadsMarked, Receiving, threads
  <2>5. HoldersOwn'
    <3> SUFFICES ASSUME NEW d \in Conns, Holder(d), ask[d] \notin lost'
                 PROVE  current' = ask[d] /\ (Receiving(d) => up[d] = ask[d])
      BY <2>1 DEF HoldersOwn, Holder, Receiving, threads
    <3>0. /\ ask[d] \notin lost /\ current = ask[d] /\ ask[d] # 0
          /\ Receiving(d) => up[d] = ask[d]
      BY <2>3 DEF HoldersOwn, HoldersPlaced
    <3>1. CASE OtherBegin
      BY <3>0, <3>1 DEF OtherBegin, Claim, Reclaim, SlotFree
    <3>2. CASE OtherEnd
      BY <3>0, <3>2 DEF OtherEnd, finish, IdsFresh
    <3>3. CASE UNCHANGED current
      BY <3>0, <3>3
    <3> QED BY <1>2, <3>1, <3>2, <3>3 DEF AroundStep, Answer, GrowStale, slot
  <2> QED BY <1>0, <2>2, <2>4, <2>5
<1>3. CASE UNCHANGED vars
  BY <1>0, <1>3 DEF vars, HoldersPlaced, HoldersOwn, UploadsMarked, Holder, Receiving
<1> QED BY <1>0, <1>1, <1>2, <1>3, NextSplit

\* The invariant gives the property: prompts that hold the slot hold one id.
LEMMA OwnGives == ASSUME OwnInv, GrantIsApproved, granted \subseteq Conns PROVE SlotIsOwn
<1> DEFINE Prompts == {c \in Conns : pc[c] = "asking" /\ ask[c] \notin lost}
<1>1. \A c \in Prompts : current = ask[c] /\ ask[c] # 0
  BY DEF OwnInv, HoldersOwn, HoldersPlaced, Holder
<1>2. Prompts = {} \/ \E c \in Conns : Prompts = {c}
  BY <1>1 DEF OwnInv, IdsFresh
<1>3. Cardinality(Prompts) =< 1
  <2>1. CASE Prompts = {}
    BY <2>1, FS_EmptySet
  <2>2. ASSUME NEW c \in Conns, Prompts = {c} PROVE Cardinality(Prompts) = 1
    <3>1. Cardinality({c}) = 1
      BY FS_Singleton
    <3> HIDE DEF Prompts
    <3> QED BY <2>2, <3>1
  <2> HIDE DEF Prompts
  <2> QED BY <1>2, <2>1, <2>2
<1>4. PromptHoldsSlot
  BY <1>1, <1>3 DEF PromptHoldsSlot
<1>5. UploadIsOwn
  BY DEF UploadIsOwn, OwnInv, HoldersOwn, Holder, Receiving, GrantIsApproved
<1> QED BY <1>4, <1>5 DEF SlotIsOwn

\* Until its slot is taken as stale or an upload that is not its own runs under
\* its id, the offer on screen holds the slot, alone, and an upload runs under
\* the id its own connection was granted: the two reads of `current()` behind
\* /Upload both name that offer, for any number of connections and transfers of
\* other kinds, and whatever was reclaimed before.
THEOREM OffersKeepSlot == Spec => []SlotIsOwn
<1>1. Init => OwnInv
  BY DEF Init, OwnInv, IdsFresh, HoldersPlaced, HoldersOwn, UploadsMarked, Holder, Receiving
<1>2. TypeOK /\ OwnInv /\ [Next]_vars => OwnInv'
  BY OwnStep
<1>3. TypeOK /\ OwnInv /\ GrantIsApproved => SlotIsOwn
  BY OwnGives DEF TypeOK
<1> QED BY <1>1, <1>2, <1>3, TypeCorrect, GrantsApproved, PTL DEF Spec
=============================================================================
