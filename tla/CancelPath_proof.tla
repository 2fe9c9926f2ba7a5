-------------------------- MODULE CancelPath_proof --------------------------
(***************************************************************************)
(* What CancelPath promises of the shared cells, for any number of         *)
(* transfers, taps, requests and answers.                                  *)
(*                                                                         *)
(* OnlyCancelledShut is not inductive: a grace thread acts long after the  *)
(* tap that started it, so every grace thread must be known to belong to a *)
(* tapped transfer.  The other two become inductive once each transfer's *)
(* place (pc) and each cell's owner are known to be what they claim.       *)
(***************************************************************************)
EXTENDS CancelPath, TLAPS

States == {"unborn", "connect", "ask", "stuck", "upload", "blocked", "run", "want", "group",
           "closing", "hosting", "join", "end", "finish", "gone"}

\* The owners the cells may name, and the places a thread may be in.
Cells ==
    /\ last \in 0 .. MaxId /\ current \in 0 .. MaxId /\ cancelled \in 0 .. MaxId
    /\ abort \in 0 .. MaxId /\ groupWanted \in 0 .. MaxId
    /\ rides \subseteq Ids /\ reclaiming \subseteq Ids
    /\ shut \subseteq Ids /\ grace \subseteq Ids /\ forcing \subseteq Ids

Threads == pc \in [Ids -> States] /\ kind \in [Ids -> Kinds]

Mail ==
    /\ storing \subseteq [id : Ids, ok : BOOLEAN]
    /\ group.id \in 0 .. MaxId /\ upgrade \in 0 .. MaxId

Counters ==
    /\ hosts \in [Ids -> 0 .. MaxHost]
    /\ taps \in 0 .. MaxCancel /\ answers \in 0 .. MaxAnswer

\* Every thread that may shut a socket down was started by a tap on its owner.
GracesTapped == grace \subseteq tapped /\ forcing \subseteq tapped

\* Ids that were not handed out have no thread.
Unborn == \A i \in Ids : i > last => pc[i] = "unborn"

IInv ==
    /\ Cells /\ Threads /\ Mail /\ Counters /\ Unborn
    /\ GracesTapped /\ OnlyCancelledShut /\ RequestIsOpen /\ ArmedIsAlive /\ ParkedIsAlive

\* The state a daemon starts in.
LEMMA InitIInv == Init => IInv
  <1> SUFFICES ASSUME Init PROVE IInv
    OBVIOUS
  <1>1. Cells /\ Mail
    BY CancelAssumption DEF Init, Cells, Mail, Nobody, Ids
  <1>2. Threads /\ Counters /\ Unborn
    BY CancelAssumption DEF Init, Threads, Unborn, Counters, States, Ids
  <1>3. GracesTapped /\ OnlyCancelledShut /\ RequestIsOpen /\ ArmedIsAlive /\ ParkedIsAlive
    BY DEF Init, GracesTapped, OnlyCancelledShut, RequestIsOpen, ArmedIsAlive, ParkedIsAlive
  <1>4. QED
    BY <1>1, <1>2, <1>3 DEF IInv

\* A thread that only moves on, from a place where no request of its is open to
\* another that keeps its socket armed.
LEMMA Walk ==
    ASSUME IInv, NEW i \in Ids, NEW p \in States \ {"unborn", "gone"},
           pc[i] \notin {"unborn", "want", "group", "closing", "gone"}, Go(i, p),
           UNCHANGED <<last, cells, kind, hosts, mail, graces>>
    PROVE  IInv'
  <1>1. Cells' /\ Mail' /\ Counters'
    BY DEF IInv, Cells, Mail, Counters, cells, mail, graces
  <1>2. Threads' /\ Unborn'
    BY DEF IInv, Cells, Threads, Unborn, Go, States, Ids
  <1>3. GracesTapped' /\ OnlyCancelledShut'
    BY DEF IInv, GracesTapped, OnlyCancelledShut, cells, mail, graces
  <1>4. RequestIsOpen'
    BY DEF IInv, Cells, Threads, RequestIsOpen, Go, mail, Ids
  <1>5. ArmedIsAlive'
    BY DEF IInv, Cells, Threads, ArmedIsAlive, Go, cells, Ids
  <1>6. ParkedIsAlive'
    BY DEF IInv, Mail, Threads, ParkedIsAlive, Go, mail, Ids
  <1>7. QED
    BY <1>1, <1>2, <1>3, <1>4, <1>5, <1>6 DEF IInv

\* The steps that touch nothing but their own place.
LEMMA Walks ==
    ASSUME IInv, NEW i \in Ids,
           \/ ConnectFails(i) \/ AskAccepted(i) \/ Completes(i) \/ SeesCancel(i)
           \/ Blocks(i) \/ Unblocks(i) \/ Errors(i) \/ NobodyJoined(i)
    PROVE  IInv'
  <1>1. CASE ConnectFails(i)
    BY <1>1, Walk DEF ConnectFails, States
  <1>2. CASE AskAccepted(i)
    BY <1>2, Walk DEF AskAccepted, States
  <1>3. CASE Completes(i)
    BY <1>3, Walk DEF Completes, Working, States
  <1>4. CASE SeesCancel(i)
    BY <1>4, Walk DEF SeesCancel, Working, States
  <1>5. CASE Blocks(i)
    BY <1>5, Walk DEF Blocks, States
  <1>6. CASE Unblocks(i)
    BY <1>6, Walk DEF Unblocks, States
  <1>7. CASE Errors(i)
    BY <1>7, Walk DEF Errors, Working, States
  <1>8. CASE NobodyJoined(i)
    BY <1>8, Walk DEF NobodyJoined, States
  <1>9. QED
    BY <1>1, <1>2, <1>3, <1>4, <1>5, <1>6, <1>7, <1>8

\* The slot is taken by the next id.
LEMMA BeginStep ==
    ASSUME IInv, NEW i \in Ids, Begin(i)
    PROVE  IInv'
  <1>1. Cells'
    BY CancelAssumption DEF IInv, Cells, Mail, Ids, Begin, Go, cells, mail, graces
  <1>2. Threads'
    BY DEF IInv, Threads, States, Kinds, Begin, Go, cells, mail, graces
  <1>3. Mail'
    BY CancelAssumption DEF IInv, Mail, Ids, Nobody, Begin, Go, cells, mail, graces
  <1>4. Counters'
    BY CancelAssumption DEF IInv, Counters, Begin, Go, cells, mail, graces
  <1>5. GracesTapped' /\ OnlyCancelledShut'
    BY DEF IInv, GracesTapped, OnlyCancelledShut, Cells, Begin, Go, cells, mail, graces
  <1>6. ParkedIsAlive'
    BY DEF IInv, Threads, Mail, ParkedIsAlive, Ids, Begin, Go, cells, mail, graces
  <1>7. RequestIsOpen'
    BY DEF IInv, Cells, Threads, RequestIsOpen, Unborn, Ids, Begin, Go, cells, mail, graces
  <1>8. ArmedIsAlive'
    BY DEF IInv, Cells, Threads, ArmedIsAlive, Ids, Begin, Go, cells, mail, graces
  <1>9. Unborn'
    BY DEF IInv, Cells, Threads, Unborn, Ids, Begin, Go, cells, mail, graces
  <1>10. QED
    BY <1>1, <1>2, <1>3, <1>4, <1>5, <1>6, <1>7, <1>8, <1>9 DEF IInv

\* A connected AirDrop send arms its socket.
LEMMA ConnectStep ==
    ASSUME IInv, NEW i \in Ids, Connect(i)
    PROVE  IInv'
  <1>1. Cells'
    BY CancelAssumption DEF IInv, Cells, Mail, Ids, Connect, Go, cells, mail, graces, Arm
  <1>2. Threads'
    BY DEF IInv, Threads, States, Kinds, Connect, Go, cells, mail, graces, Arm
  <1>3. Mail'
    BY CancelAssumption DEF IInv, Mail, Ids, Nobody, Connect, Go, cells, mail, graces, Arm
  <1>4. Counters'
    BY CancelAssumption DEF IInv, Counters, Connect, Go, cells, mail, graces, Arm
  <1>5. GracesTapped' /\ OnlyCancelledShut'
    BY DEF IInv, GracesTapped, OnlyCancelledShut, Cells, Connect, Go, cells, mail, graces, Arm
  <1>6. ParkedIsAlive'
    BY DEF IInv, Threads, Mail, ParkedIsAlive, Ids, Connect, Go, cells, mail, graces, Arm
  <1>7. RequestIsOpen'
    BY DEF IInv, Cells, Threads, RequestIsOpen, Ids, Connect, Go, cells, mail, graces, Arm
  <1>8. ArmedIsAlive'
    BY DEF IInv, Cells, Threads, ArmedIsAlive, Ids, Connect, Go, cells, mail, graces, Arm
  <1>9. Unborn'
    BY DEF IInv, Cells, Threads, Unborn, Ids, Connect, Go, cells, mail, graces, Arm
  <1>10. QED
    BY <1>1, <1>2, <1>3, <1>4, <1>5, <1>6, <1>7, <1>8, <1>9 DEF IInv

\* finish lets `current` go; an AirDrop send disarms.
LEMMA FinishStep ==
    ASSUME IInv, NEW i \in Ids, Finish(i)
    PROVE  IInv'
  <1>1. Cells'
    BY CancelAssumption DEF IInv, Cells, Mail, Ids, Finish, Go, cells, mail, graces, Disarm
  <1>2. Threads'
    BY DEF IInv, Threads, States, Kinds, Finish, Go, cells, mail, graces, Disarm
  <1>3. Mail'
    BY CancelAssumption DEF IInv, Mail, Ids, Nobody, Finish, Go, cells, mail, graces, Disarm
  <1>4. Counters'
    BY CancelAssumption DEF IInv, Counters, Finish, Go, cells, mail, graces, Disarm
  <1>5. GracesTapped' /\ OnlyCancelledShut'
    BY DEF IInv, GracesTapped, OnlyCancelledShut, Cells, Finish, Go, cells, mail, graces, Disarm
  <1>6. ParkedIsAlive'
    BY DEF IInv, Threads, Mail, ParkedIsAlive, Ids, Finish, Go, cells, mail, graces, Disarm
  <1>7. RequestIsOpen'
    BY DEF IInv, Cells, Threads, RequestIsOpen, Ids, Finish, Go, cells, mail, graces, Disarm
  <1>8. ArmedIsAlive'
    BY DEF IInv, Cells, Threads, ArmedIsAlive, Ids, Finish, Go, cells, mail, graces, Disarm
  <1>9. Unborn'
    BY DEF IInv, Cells, Threads, Unborn, Ids, Finish, Go, cells, mail, graces, Disarm
  <1>10. QED
    BY <1>1, <1>2, <1>3, <1>4, <1>5, <1>6, <1>7, <1>8, <1>9 DEF IInv

\* The rest of finish: nothing of a transfer stays armed once it is gone.
LEMMA FinishRestStep ==
    ASSUME IInv, NEW i \in Ids, FinishRest(i)
    PROVE  IInv'
  <1>1. Cells'
    BY CancelAssumption DEF IInv, Cells, Mail, Ids, FinishRest, Go, cells, mail, graces, clear_upgrade, Disarm
  <1>2. Threads'
    BY DEF IInv, Threads, States, Kinds, FinishRest, Go, cells, mail, graces, clear_upgrade, Disarm
  <1>3. Mail'
    BY CancelAssumption DEF IInv, Mail, Ids, Nobody, FinishRest, Go, cells, mail, graces, clear_upgrade, Disarm
  <1>4. Counters'
    BY CancelAssumption DEF IInv, Counters, FinishRest, Go, cells, mail, graces, clear_upgrade, Disarm
  <1>5. GracesTapped' /\ OnlyCancelledShut'
    BY DEF IInv, GracesTapped, OnlyCancelledShut, Cells, FinishRest, Go, cells, mail, graces, clear_upgrade, Disarm
  <1>6. ParkedIsAlive'
    BY DEF IInv, Threads, Mail, ParkedIsAlive, Ids, FinishRest, Go, cells, mail, graces, clear_upgrade, Disarm
  <1>7. RequestIsOpen'
    BY DEF IInv, Cells, Threads, RequestIsOpen, Ids, FinishRest, Go, cells, mail, graces, clear_upgrade, Disarm
  <1>8. ArmedIsAlive'
    BY DEF IInv, Cells, Threads, ArmedIsAlive, Ids, FinishRest, Go, cells, mail, graces, clear_upgrade, Disarm
  <1>9. Unborn'
    BY DEF IInv, Cells, Threads, Unborn, Ids, FinishRest, Go, cells, mail, graces, clear_upgrade, Disarm
  <1>10. QED
    BY <1>1, <1>2, <1>3, <1>4, <1>5, <1>6, <1>7, <1>8, <1>9 DEF IInv

\* A receive starts to host a group.
LEMMA HostGroupStep ==
    ASSUME IInv, NEW i \in Ids, HostGroup(i)
    PROVE  IInv'
  <1>1. Cells'
    BY CancelAssumption DEF IInv, Cells, Mail, Ids, HostGroup, Go, cells, mail, graces
  <1>2. Threads'
    BY DEF IInv, Threads, States, Kinds, HostGroup, Go, cells, mail, graces
  <1>3. Mail'
    BY CancelAssumption DEF IInv, Mail, Ids, Nobody, HostGroup, Go, cells, mail, graces
  <1>4. Counters'
    BY CancelAssumption DEF IInv, Counters, HostGroup, Go, cells, mail, graces
  <1>5. GracesTapped' /\ OnlyCancelledShut'
    BY DEF IInv, GracesTapped, OnlyCancelledShut, Cells, HostGroup, Go, cells, mail, graces
  <1>6. ParkedIsAlive'
    BY DEF IInv, Threads, Mail, ParkedIsAlive, Ids, HostGroup, Go, cells, mail, graces
  <1>7. RequestIsOpen'
    BY DEF IInv, Cells, Threads, RequestIsOpen, Ids, HostGroup, Go, cells, mail, graces
  <1>8. ArmedIsAlive'
    BY DEF IInv, Cells, Threads, ArmedIsAlive, Ids, HostGroup, Go, cells, mail, graces
  <1>9. Unborn'
    BY DEF IInv, Cells, Threads, Unborn, Ids, HostGroup, Go, cells, mail, graces
  <1>10. QED
    BY <1>1, <1>2, <1>3, <1>4, <1>5, <1>6, <1>7, <1>8, <1>9 DEF IInv

\* The request is opened for a transfer that is asking.
LEMMA WantGroupStep ==
    ASSUME IInv, NEW i \in Ids, WantGroup(i)
    PROVE  IInv'
  <1>1. Cells'
    BY CancelAssumption DEF IInv, Cells, Mail, Ids, WantGroup, Go, cells, mail, graces
  <1>2. Threads'
    BY DEF IInv, Threads, States, Kinds, WantGroup, Go, cells, mail, graces
  <1>3. Mail'
    BY CancelAssumption DEF IInv, Mail, Ids, Nobody, WantGroup, Go, cells, mail, graces
  <1>4. Counters'
    BY CancelAssumption DEF IInv, Counters, WantGroup, Go, cells, mail, graces
  <1>5. GracesTapped' /\ OnlyCancelledShut'
    BY DEF IInv, GracesTapped, OnlyCancelledShut, Cells, WantGroup, Go, cells, mail, graces
  <1>6. ParkedIsAlive'
    BY DEF IInv, Threads, Mail, ParkedIsAlive, Ids, WantGroup, Go, cells, mail, graces
  <1>7. RequestIsOpen'
    BY DEF IInv, Cells, Threads, RequestIsOpen, Ids, WantGroup, Go, cells, mail, graces
  <1>8. ArmedIsAlive'
    BY DEF IInv, Cells, Threads, ArmedIsAlive, Ids, WantGroup, Go, cells, mail, graces
  <1>9. Unborn'
    BY DEF IInv, Cells, Threads, Unborn, Ids, WantGroup, Go, cells, mail, graces
  <1>10. QED
    BY <1>1, <1>2, <1>3, <1>4, <1>5, <1>6, <1>7, <1>8, <1>9 DEF IInv

\* Giving up closes the request.
LEMMA GroupDeadlineStep ==
    ASSUME IInv, NEW i \in Ids, GroupDeadline(i)
    PROVE  IInv'
  <1>1. Cells'
    BY CancelAssumption DEF IInv, Cells, Mail, Ids, GroupDeadline, Go, cells, mail, graces
  <1>2. Threads'
    BY DEF IInv, Threads, States, Kinds, GroupDeadline, Go, cells, mail, graces
  <1>3. Mail'
    BY CancelAssumption DEF IInv, Mail, Ids, Nobody, GroupDeadline, Go, cells, mail, graces
  <1>4. Counters'
    BY CancelAssumption DEF IInv, Counters, GroupDeadline, Go, cells, mail, graces
  <1>5. GracesTapped' /\ OnlyCancelledShut'
    BY DEF IInv, GracesTapped, OnlyCancelledShut, Cells, GroupDeadline, Go, cells, mail, graces
  <1>6. ParkedIsAlive'
    BY DEF IInv, Threads, Mail, ParkedIsAlive, Ids, GroupDeadline, Go, cells, mail, graces
  <1>7. RequestIsOpen'
    BY DEF IInv, Cells, Threads, RequestIsOpen, Ids, GroupDeadline, Go, cells, mail, graces
  <1>8. ArmedIsAlive'
    BY DEF IInv, Cells, Threads, ArmedIsAlive, Ids, GroupDeadline, Go, cells, mail, graces
  <1>9. Unborn'
    BY DEF IInv, Cells, Threads, Unborn, Ids, GroupDeadline, Go, cells, mail, graces
  <1>10. QED
    BY <1>1, <1>2, <1>3, <1>4, <1>5, <1>6, <1>7, <1>8, <1>9 DEF IInv

\* An answer is taken by the transfer it names.
LEMMA TakeGroupStep ==
    ASSUME IInv, NEW i \in Ids, TakeGroup(i)
    PROVE  IInv'
  <1>1. Cells'
    BY CancelAssumption DEF IInv, Cells, Mail, Ids, TakeGroup, Go, cells, mail, graces, ForMe
  <1>2. Threads'
    BY DEF IInv, Threads, States, Kinds, TakeGroup, Go, cells, mail, graces, ForMe
  <1>3. Mail'
    BY CancelAssumption DEF IInv, Mail, Ids, Nobody, TakeGroup, Go, cells, mail, graces, ForMe
  <1>4. Counters'
    BY CancelAssumption DEF IInv, Counters, TakeGroup, Go, cells, mail, graces, ForMe
  <1>5. GracesTapped' /\ OnlyCancelledShut'
    BY DEF IInv, GracesTapped, OnlyCancelledShut, Cells, TakeGroup, Go, cells, mail, graces, ForMe
  <1>6. ParkedIsAlive'
    BY DEF IInv, Threads, Mail, ParkedIsAlive, Ids, TakeGroup, Go, cells, mail, graces, ForMe
  <1>7. RequestIsOpen'
    BY DEF IInv, Cells, Threads, RequestIsOpen, Ids, TakeGroup, Go, cells, mail, graces, ForMe
  <1>8. ArmedIsAlive'
    BY DEF IInv, Cells, Threads, ArmedIsAlive, Ids, TakeGroup, Go, cells, mail, graces, ForMe
  <1>9. Unborn'
    BY DEF IInv, Cells, Threads, Unborn, Ids, TakeGroup, Go, cells, mail, graces, ForMe
  <1>10. QED
    BY <1>1, <1>2, <1>3, <1>4, <1>5, <1>6, <1>7, <1>8, <1>9 DEF IInv

\* The request is closed, whoever's it is by now.
LEMMA CloseGroupStep ==
    ASSUME IInv, NEW i \in Ids, CloseGroup(i)
    PROVE  IInv'
  <1>1. Cells'
    BY CancelAssumption DEF IInv, Cells, Mail, Ids, CloseGroup, Go, cells, mail, graces
  <1>2. Threads'
    BY DEF IInv, Threads, States, Kinds, CloseGroup, Go, cells, mail, graces
  <1>3. Mail'
    BY CancelAssumption DEF IInv, Mail, Ids, Nobody, CloseGroup, Go, cells, mail, graces
  <1>4. Counters'
    BY CancelAssumption DEF IInv, Counters, CloseGroup, Go, cells, mail, graces
  <1>5. GracesTapped' /\ OnlyCancelledShut'
    BY DEF IInv, GracesTapped, OnlyCancelledShut, Cells, CloseGroup, Go, cells, mail, graces
  <1>6. ParkedIsAlive'
    BY DEF IInv, Threads, Mail, ParkedIsAlive, Ids, CloseGroup, Go, cells, mail, graces
  <1>7. RequestIsOpen'
    BY DEF IInv, Cells, Threads, RequestIsOpen, Ids, CloseGroup, Go, cells, mail, graces
  <1>8. ArmedIsAlive'
    BY DEF IInv, Cells, Threads, ArmedIsAlive, Ids, CloseGroup, Go, cells, mail, graces
  <1>9. Unborn'
    BY DEF IInv, Cells, Threads, Unborn, Ids, CloseGroup, Go, cells, mail, graces
  <1>10. QED
    BY <1>1, <1>2, <1>3, <1>4, <1>5, <1>6, <1>7, <1>8, <1>9 DEF IInv

\* The asking goes round.
LEMMA AskAgainStep ==
    ASSUME IInv, NEW i \in Ids, AskAgain(i)
    PROVE  IInv'
  <1>1. Cells'
    BY CancelAssumption DEF IInv, Cells, Mail, Ids, AskAgain, Go, cells, mail, graces
  <1>2. Threads'
    BY DEF IInv, Threads, States, Kinds, AskAgain, Go, cells, mail, graces
  <1>3. Mail'
    BY CancelAssumption DEF IInv, Mail, Ids, Nobody, AskAgain, Go, cells, mail, graces
  <1>4. Counters'
    BY CancelAssumption DEF IInv, Counters, AskAgain, Go, cells, mail, graces
  <1>5. GracesTapped' /\ OnlyCancelledShut'
    BY DEF IInv, GracesTapped, OnlyCancelledShut, Cells, AskAgain, Go, cells, mail, graces
  <1>6. ParkedIsAlive'
    BY DEF IInv, Threads, Mail, ParkedIsAlive, Ids, AskAgain, Go, cells, mail, graces
  <1>7. RequestIsOpen'
    BY DEF IInv, Cells, Threads, RequestIsOpen, Ids, AskAgain, Go, cells, mail, graces
  <1>8. ArmedIsAlive'
    BY DEF IInv, Cells, Threads, ArmedIsAlive, Ids, AskAgain, Go, cells, mail, graces
  <1>9. Unborn'
    BY DEF IInv, Cells, Threads, Unborn, Ids, AskAgain, Go, cells, mail, graces
  <1>10. QED
    BY <1>1, <1>2, <1>3, <1>4, <1>5, <1>6, <1>7, <1>8, <1>9 DEF IInv

\* The sender joins; its socket is armed.
LEMMA JoinedStep ==
    ASSUME IInv, NEW i \in Ids, Joined(i)
    PROVE  IInv'
  <1>1. Cells'
    BY CancelAssumption DEF IInv, Cells, Mail, Ids, Joined, Go, cells, mail, graces, Arm
  <1>2. Threads'
    BY DEF IInv, Threads, States, Kinds, Joined, Go, cells, mail, graces, Arm
  <1>3. Mail'
    BY CancelAssumption DEF IInv, Mail, Ids, Nobody, Joined, Go, cells, mail, graces, Arm
  <1>4. Counters'
    BY CancelAssumption DEF IInv, Counters, Joined, Go, cells, mail, graces, Arm
  <1>5. GracesTapped' /\ OnlyCancelledShut'
    BY DEF IInv, GracesTapped, OnlyCancelledShut, Cells, Joined, Go, cells, mail, graces, Arm
  <1>6. ParkedIsAlive'
    BY DEF IInv, Threads, Mail, ParkedIsAlive, Ids, Joined, Go, cells, mail, graces, Arm
  <1>7. RequestIsOpen'
    BY DEF IInv, Cells, Threads, RequestIsOpen, Ids, Joined, Go, cells, mail, graces, Arm
  <1>8. ArmedIsAlive'
    BY DEF IInv, Cells, Threads, ArmedIsAlive, Ids, Joined, Go, cells, mail, graces, Arm
  <1>9. Unborn'
    BY DEF IInv, Cells, Threads, Unborn, Ids, Joined, Go, cells, mail, graces, Arm
  <1>10. QED
    BY <1>1, <1>2, <1>3, <1>4, <1>5, <1>6, <1>7, <1>8, <1>9 DEF IInv

\* The slot of a stale transfer is let go; its thread stays.
LEMMA ReclaimStep ==
    ASSUME IInv, NEW i \in Ids, Reclaim(i)
    PROVE  IInv'
  <1>1. Cells'
    BY CancelAssumption DEF IInv, Cells, Mail, Ids, Reclaim, Go, cells, mail, graces
  <1>2. Threads'
    BY DEF IInv, Threads, States, Kinds, Reclaim, Go, cells, mail, graces
  <1>3. Mail'
    BY CancelAssumption DEF IInv, Mail, Ids, Nobody, Reclaim, Go, cells, mail, graces
  <1>4. Counters'
    BY CancelAssumption DEF IInv, Counters, Reclaim, Go, cells, mail, graces
  <1>5. GracesTapped' /\ OnlyCancelledShut'
    BY DEF IInv, GracesTapped, OnlyCancelledShut, Cells, Reclaim, Go, cells, mail, graces
  <1>6. ParkedIsAlive'
    BY DEF IInv, Threads, Mail, ParkedIsAlive, Ids, Reclaim, Go, cells, mail, graces
  <1>7. RequestIsOpen'
    BY DEF IInv, Cells, Threads, RequestIsOpen, Ids, Reclaim, Go, cells, mail, graces
  <1>8. ArmedIsAlive'
    BY DEF IInv, Cells, Threads, ArmedIsAlive, Ids, Reclaim, Go, cells, mail, graces
  <1>9. Unborn'
    BY DEF IInv, Cells, Threads, Unborn, Ids, Reclaim, Go, cells, mail, graces
  <1>10. QED
    BY <1>1, <1>2, <1>3, <1>4, <1>5, <1>6, <1>7, <1>8, <1>9 DEF IInv

\* What finish clears for it, a live thread may arm again.
LEMMA ReclaimRestStep ==
    ASSUME IInv, NEW i \in Ids, ReclaimRest(i)
    PROVE  IInv'
  <1>1. Cells'
    BY CancelAssumption DEF IInv, Cells, Mail, Ids, ReclaimRest, Go, cells, mail, graces, Disarm, clear_upgrade
  <1>2. Threads'
    BY DEF IInv, Threads, States, Kinds, ReclaimRest, Go, cells, mail, graces, Disarm, clear_upgrade
  <1>3. Mail'
    BY CancelAssumption DEF IInv, Mail, Ids, Nobody, ReclaimRest, Go, cells, mail, graces, Disarm, clear_upgrade
  <1>4. Counters'
    BY CancelAssumption DEF IInv, Counters, ReclaimRest, Go, cells, mail, graces, Disarm, clear_upgrade
  <1>5. GracesTapped' /\ OnlyCancelledShut'
    BY DEF IInv, GracesTapped, OnlyCancelledShut, Cells, ReclaimRest, Go, cells, mail, graces, Disarm, clear_upgrade
  <1>6. ParkedIsAlive'
    BY DEF IInv, Threads, Mail, ParkedIsAlive, Ids, ReclaimRest, Go, cells, mail, graces, Disarm, clear_upgrade
  <1>7. RequestIsOpen'
    BY DEF IInv, Cells, Threads, RequestIsOpen, Ids, ReclaimRest, Go, cells, mail, graces, Disarm, clear_upgrade
  <1>8. ArmedIsAlive'
    BY DEF IInv, Cells, Threads, ArmedIsAlive, Ids, ReclaimRest, Go, cells, mail, graces, Disarm, clear_upgrade
  <1>9. Unborn'
    BY DEF IInv, Cells, Threads, Unborn, Ids, ReclaimRest, Go, cells, mail, graces, Disarm, clear_upgrade
  <1>10. QED
    BY <1>1, <1>2, <1>3, <1>4, <1>5, <1>6, <1>7, <1>8, <1>9 DEF IInv

\* A send waits for its client to join a group.
LEMMA JoinWifiStep ==
    ASSUME IInv, NEW i \in Ids, JoinWifi(i)
    PROVE  IInv'
  <1>1. Cells'
    BY CancelAssumption DEF IInv, Cells, Mail, Ids, JoinWifi, Go, cells, mail, graces
  <1>2. Threads'
    BY DEF IInv, Threads, States, Kinds, JoinWifi, Go, cells, mail, graces
  <1>3. Mail'
    BY CancelAssumption DEF IInv, Mail, Ids, Nobody, JoinWifi, Go, cells, mail, graces
  <1>4. Counters'
    BY CancelAssumption DEF IInv, Counters, JoinWifi, Go, cells, mail, graces
  <1>5. GracesTapped' /\ OnlyCancelledShut'
    BY DEF IInv, GracesTapped, OnlyCancelledShut, Cells, JoinWifi, Go, cells, mail, graces
  <1>6. ParkedIsAlive'
    BY DEF IInv, Threads, Mail, ParkedIsAlive, Ids, JoinWifi, Go, cells, mail, graces
  <1>7. RequestIsOpen'
    BY DEF IInv, Cells, Threads, RequestIsOpen, Ids, JoinWifi, Go, cells, mail, graces
  <1>8. ArmedIsAlive'
    BY DEF IInv, Cells, Threads, ArmedIsAlive, Ids, JoinWifi, Go, cells, mail, graces
  <1>9. Unborn'
    BY DEF IInv, Cells, Threads, Unborn, Ids, JoinWifi, Go, cells, mail, graces
  <1>10. QED
    BY <1>1, <1>2, <1>3, <1>4, <1>5, <1>6, <1>7, <1>8, <1>9 DEF IInv

\* A socket is taken by the transfer it was made for.
LEMMA TakeUpgradeStep ==
    ASSUME IInv, NEW i \in Ids, TakeUpgrade(i)
    PROVE  IInv'
  <1>1. Cells'
    BY CancelAssumption DEF IInv, Cells, Mail, Ids, TakeUpgrade, Go, cells, mail, graces
  <1>2. Threads'
    BY DEF IInv, Threads, States, Kinds, TakeUpgrade, Go, cells, mail, graces
  <1>3. Mail'
    BY CancelAssumption DEF IInv, Mail, Ids, Nobody, TakeUpgrade, Go, cells, mail, graces
  <1>4. Counters'
    BY CancelAssumption DEF IInv, Counters, TakeUpgrade, Go, cells, mail, graces
  <1>5. GracesTapped' /\ OnlyCancelledShut'
    BY DEF IInv, GracesTapped, OnlyCancelledShut, Cells, TakeUpgrade, Go, cells, mail, graces
  <1>6. ParkedIsAlive'
    BY DEF IInv, Threads, Mail, ParkedIsAlive, Ids, TakeUpgrade, Go, cells, mail, graces
  <1>7. RequestIsOpen'
    BY DEF IInv, Cells, Threads, RequestIsOpen, Ids, TakeUpgrade, Go, cells, mail, graces
  <1>8. ArmedIsAlive'
    BY DEF IInv, Cells, Threads, ArmedIsAlive, Ids, TakeUpgrade, Go, cells, mail, graces
  <1>9. Unborn'
    BY DEF IInv, Cells, Threads, Unborn, Ids, TakeUpgrade, Go, cells, mail, graces
  <1>10. QED
    BY <1>1, <1>2, <1>3, <1>4, <1>5, <1>6, <1>7, <1>8, <1>9 DEF IInv

\* The wait is over without one.
LEMMA JoinGivesUpStep ==
    ASSUME IInv, NEW i \in Ids, JoinGivesUp(i)
    PROVE  IInv'
  <1>1. Cells'
    BY CancelAssumption DEF IInv, Cells, Mail, Ids, JoinGivesUp, Go, cells, mail, graces
  <1>2. Threads'
    BY DEF IInv, Threads, States, Kinds, JoinGivesUp, Go, cells, mail, graces
  <1>3. Mail'
    BY CancelAssumption DEF IInv, Mail, Ids, Nobody, JoinGivesUp, Go, cells, mail, graces
  <1>4. Counters'
    BY CancelAssumption DEF IInv, Counters, JoinGivesUp, Go, cells, mail, graces
  <1>5. GracesTapped' /\ OnlyCancelledShut'
    BY DEF IInv, GracesTapped, OnlyCancelledShut, Cells, JoinGivesUp, Go, cells, mail, graces
  <1>6. ParkedIsAlive'
    BY DEF IInv, Threads, Mail, ParkedIsAlive, Ids, JoinGivesUp, Go, cells, mail, graces
  <1>7. RequestIsOpen'
    BY DEF IInv, Cells, Threads, RequestIsOpen, Ids, JoinGivesUp, Go, cells, mail, graces
  <1>8. ArmedIsAlive'
    BY DEF IInv, Cells, Threads, ArmedIsAlive, Ids, JoinGivesUp, Go, cells, mail, graces
  <1>9. Unborn'
    BY DEF IInv, Cells, Threads, Unborn, Ids, JoinGivesUp, Go, cells, mail, graces
  <1>10. QED
    BY <1>1, <1>2, <1>3, <1>4, <1>5, <1>6, <1>7, <1>8, <1>9 DEF IInv

\* A tap marks its transfer before its grace thread exists.
LEMMA CancelStep ==
    ASSUME IInv, NEW i \in Ids, Cancel(i)
    PROVE  IInv'
  <1>1. Cells'
    BY CancelAssumption DEF IInv, Cells, Mail, Ids, Cancel, Go, cells, mail, graces
  <1>2. Threads'
    BY DEF IInv, Threads, States, Kinds, Cancel, Go, cells, mail, graces
  <1>3. Mail'
    BY CancelAssumption DEF IInv, Mail, Ids, Nobody, Cancel, Go, cells, mail, graces
  <1>4. Counters'
    BY CancelAssumption DEF IInv, Counters, Cancel, Go, cells, mail, graces
  <1>5. GracesTapped' /\ OnlyCancelledShut'
    BY DEF IInv, GracesTapped, OnlyCancelledShut, Cells, Cancel, Go, cells, mail, graces
  <1>6. ParkedIsAlive'
    BY DEF IInv, Threads, Mail, ParkedIsAlive, Ids, Cancel, Go, cells, mail, graces
  <1>7. RequestIsOpen'
    BY DEF IInv, Cells, Threads, RequestIsOpen, Ids, Cancel, Go, cells, mail, graces
  <1>8. ArmedIsAlive'
    BY DEF IInv, Cells, Threads, ArmedIsAlive, Ids, Cancel, Go, cells, mail, graces
  <1>9. Unborn'
    BY DEF IInv, Cells, Threads, Unborn, Ids, Cancel, Go, cells, mail, graces
  <1>10. QED
    BY <1>1, <1>2, <1>3, <1>4, <1>5, <1>6, <1>7, <1>8, <1>9 DEF IInv

\* A grace thread goes on only for the transfer it was started for.
LEMMA GraceLooksStep ==
    ASSUME IInv, NEW i \in Ids, GraceLooks(i)
    PROVE  IInv'
  <1>1. Cells'
    BY CancelAssumption DEF IInv, Cells, Mail, Ids, GraceLooks, Go, cells, mail, graces
  <1>2. Threads'
    BY DEF IInv, Threads, States, Kinds, GraceLooks, Go, cells, mail, graces
  <1>3. Mail'
    BY CancelAssumption DEF IInv, Mail, Ids, Nobody, GraceLooks, Go, cells, mail, graces
  <1>4. Counters'
    BY CancelAssumption DEF IInv, Counters, GraceLooks, Go, cells, mail, graces
  <1>5. GracesTapped' /\ OnlyCancelledShut'
    BY DEF IInv, GracesTapped, OnlyCancelledShut, Cells, GraceLooks, Go, cells, mail, graces
  <1>6. ParkedIsAlive'
    BY DEF IInv, Threads, Mail, ParkedIsAlive, Ids, GraceLooks, Go, cells, mail, graces
  <1>7. RequestIsOpen'
    BY DEF IInv, Cells, Threads, RequestIsOpen, Ids, GraceLooks, Go, cells, mail, graces
  <1>8. ArmedIsAlive'
    BY DEF IInv, Cells, Threads, ArmedIsAlive, Ids, GraceLooks, Go, cells, mail, graces
  <1>9. Unborn'
    BY DEF IInv, Cells, Threads, Unborn, Ids, GraceLooks, Go, cells, mail, graces
  <1>10. QED
    BY <1>1, <1>2, <1>3, <1>4, <1>5, <1>6, <1>7, <1>8, <1>9 DEF IInv

\* It shuts down its own transfer's socket or none.
LEMMA GraceShutsStep ==
    ASSUME IInv, NEW i \in Ids, GraceShuts(i)
    PROVE  IInv'
  <1>1. Cells'
    BY CancelAssumption DEF IInv, Cells, Mail, Ids, GraceShuts, Go, cells, mail, graces, Disarm
  <1>2. Threads'
    BY DEF IInv, Threads, States, Kinds, GraceShuts, Go, cells, mail, graces, Disarm
  <1>3. Mail'
    BY CancelAssumption DEF IInv, Mail, Ids, Nobody, GraceShuts, Go, cells, mail, graces, Disarm
  <1>4. Counters'
    BY CancelAssumption DEF IInv, Counters, GraceShuts, Go, cells, mail, graces, Disarm
  <1>5. GracesTapped' /\ OnlyCancelledShut'
    BY DEF IInv, GracesTapped, OnlyCancelledShut, Cells, GraceShuts, Go, cells, mail, graces, Disarm
  <1>6. ParkedIsAlive'
    BY DEF IInv, Threads, Mail, ParkedIsAlive, Ids, GraceShuts, Go, cells, mail, graces, Disarm
  <1>7. RequestIsOpen'
    BY DEF IInv, Cells, Threads, RequestIsOpen, Ids, GraceShuts, Go, cells, mail, graces, Disarm
  <1>8. ArmedIsAlive'
    BY DEF IInv, Cells, Threads, ArmedIsAlive, Ids, GraceShuts, Go, cells, mail, graces, Disarm
  <1>9. Unborn'
    BY DEF IInv, Cells, Threads, Unborn, Ids, GraceShuts, Go, cells, mail, graces, Disarm
  <1>10. QED
    BY <1>1, <1>2, <1>3, <1>4, <1>5, <1>6, <1>7, <1>8, <1>9 DEF IInv

\* An answer is checked against the open request.
LEMMA GroupCheckStep ==
    ASSUME IInv, NEW i \in Ids, NEW ok \in BOOLEAN, GroupCheck(i, ok)
    PROVE  IInv'
  <1>1. Cells'
    BY CancelAssumption DEF IInv, Cells, Mail, Ids, GroupCheck, Go, cells, mail, graces
  <1>2. Threads'
    BY DEF IInv, Threads, States, Kinds, GroupCheck, Go, cells, mail, graces
  <1>3. Mail'
    BY CancelAssumption DEF IInv, Mail, Ids, Nobody, GroupCheck, Go, cells, mail, graces
  <1>4. Counters'
    BY CancelAssumption DEF IInv, Counters, GroupCheck, Go, cells, mail, graces
  <1>5. GracesTapped' /\ OnlyCancelledShut'
    BY DEF IInv, GracesTapped, OnlyCancelledShut, Cells, GroupCheck, Go, cells, mail, graces
  <1>6. ParkedIsAlive'
    BY DEF IInv, Threads, Mail, ParkedIsAlive, Ids, GroupCheck, Go, cells, mail, graces
  <1>7. RequestIsOpen'
    BY DEF IInv, Cells, Threads, RequestIsOpen, Ids, GroupCheck, Go, cells, mail, graces
  <1>8. ArmedIsAlive'
    BY DEF IInv, Cells, Threads, ArmedIsAlive, Ids, GroupCheck, Go, cells, mail, graces
  <1>9. Unborn'
    BY DEF IInv, Cells, Threads, Unborn, Ids, GroupCheck, Go, cells, mail, graces
  <1>10. QED
    BY <1>1, <1>2, <1>3, <1>4, <1>5, <1>6, <1>7, <1>8, <1>9 DEF IInv

\* An answer that passed the check is stored, however late.
LEMMA GroupStoreStep ==
    ASSUME IInv, NEW a \in storing, GroupStore(a)
    PROVE  IInv'
  <1>1. Cells'
    BY CancelAssumption DEF IInv, Cells, Mail, Ids, GroupStore, Go, cells, mail, graces
  <1>2. Threads'
    BY DEF IInv, Threads, States, Kinds, GroupStore, Go, cells, mail, graces
  <1>3. Mail'
    BY CancelAssumption DEF IInv, Mail, Ids, Nobody, GroupStore, Go, cells, mail, graces
  <1>4. Counters'
    BY CancelAssumption DEF IInv, Counters, GroupStore, Go, cells, mail, graces
  <1>5. GracesTapped' /\ OnlyCancelledShut'
    BY DEF IInv, GracesTapped, OnlyCancelledShut, Cells, GroupStore, Go, cells, mail, graces
  <1>6. ParkedIsAlive'
    BY DEF IInv, Threads, Mail, ParkedIsAlive, Ids, GroupStore, Go, cells, mail, graces
  <1>7. RequestIsOpen'
    BY DEF IInv, Cells, Threads, RequestIsOpen, Ids, GroupStore, Go, cells, mail, graces
  <1>8. ArmedIsAlive'
    BY DEF IInv, Cells, Threads, ArmedIsAlive, Ids, GroupStore, Go, cells, mail, graces
  <1>9. Unborn'
    BY DEF IInv, Cells, Threads, Unborn, Ids, GroupStore, Go, cells, mail, graces
  <1>10. QED
    BY <1>1, <1>2, <1>3, <1>4, <1>5, <1>6, <1>7, <1>8, <1>9 DEF IInv

\* A client hands over a socket.
LEMMA ProvideUpgradeStep ==
    ASSUME IInv, NEW i \in Ids, ProvideUpgrade(i)
    PROVE  IInv'
  <1>1. Cells'
    BY CancelAssumption DEF IInv, Cells, Mail, Ids, ProvideUpgrade, Go, cells, mail, graces
  <1>2. Threads'
    BY DEF IInv, Threads, States, Kinds, ProvideUpgrade, Go, cells, mail, graces
  <1>3. Mail'
    BY CancelAssumption DEF IInv, Mail, Ids, Nobody, ProvideUpgrade, Go, cells, mail, graces
  <1>4. Counters'
    BY CancelAssumption DEF IInv, Counters, ProvideUpgrade, Go, cells, mail, graces
  <1>5. GracesTapped' /\ OnlyCancelledShut'
    BY DEF IInv, GracesTapped, OnlyCancelledShut, Cells, ProvideUpgrade, Go, cells, mail, graces
  <1>6. ParkedIsAlive'
    BY DEF IInv, Threads, Mail, ParkedIsAlive, Ids, ProvideUpgrade, Go, cells, mail, graces
  <1>7. RequestIsOpen'
    BY DEF IInv, Cells, Threads, RequestIsOpen, Ids, ProvideUpgrade, Go, cells, mail, graces
  <1>8. ArmedIsAlive'
    BY DEF IInv, Cells, Threads, ArmedIsAlive, Ids, ProvideUpgrade, Go, cells, mail, graces
  <1>9. Unborn'
    BY DEF IInv, Cells, Threads, Unborn, Ids, ProvideUpgrade, Go, cells, mail, graces
  <1>10. QED
    BY <1>1, <1>2, <1>3, <1>4, <1>5, <1>6, <1>7, <1>8, <1>9 DEF IInv

\* Every step preserves the invariant.
LEMMA NextIInv == IInv /\ [Next]_vars => IInv'
  <1> SUFFICES ASSUME IInv, [Next]_vars PROVE IInv'
    OBVIOUS
  <1>1. CASE UNCHANGED vars
    BY <1>1 DEF vars, IInv, Cells, Threads, Mail, Counters, Unborn, GracesTapped,
                OnlyCancelledShut, RequestIsOpen, ArmedIsAlive, ParkedIsAlive
  <1>2. ASSUME NEW i \in Ids, Thread(i) PROVE IInv'
    BY <1>2, Walks, ConnectStep, FinishStep, FinishRestStep, WantGroupStep, GroupDeadlineStep,
       TakeGroupStep, CloseGroupStep, AskAgainStep, JoinedStep, TakeUpgradeStep, JoinGivesUpStep DEF Thread
  <1>3. ASSUME NEW i \in Ids, Peer(i) PROVE IInv'
    BY <1>3, Walks, HostGroupStep, JoinWifiStep DEF Peer
  <1>4. ASSUME NEW i \in Ids, Client(i) PROVE IInv'
    BY <1>4, CancelStep, GroupCheckStep, ProvideUpgradeStep DEF Client
  <1>5. ASSUME NEW i \in Ids,
               Begin(i) \/ Reclaim(i) \/ ReclaimRest(i) \/ GraceLooks(i) \/ GraceShuts(i)
        PROVE  IInv'
    BY <1>5, BeginStep, ReclaimStep, ReclaimRestStep, GraceLooksStep, GraceShutsStep
  <1>6. ASSUME NEW a \in storing, GroupStore(a) PROVE IInv'
    BY <1>6, GroupStoreStep
  <1>7. QED
    BY <1>1, <1>2, <1>3, <1>4, <1>5, <1>6 DEF Next

\* The invariant holds throughout.
LEMMA AlwaysIInv == Spec => []IInv
  <1>1. Init => IInv
    BY InitIInv
  <1>2. IInv /\ [Next]_vars => IInv'
    BY NextIInv
  <1>3. QED
    BY <1>1, <1>2, PTL DEF Spec

\* The cells of TransferState always hold what their types say: no cancel, arm
\* or request names a transfer that was never handed out.
THEOREM CancelTyped == Spec => []TypeOK
  <1>1. IInv => TypeOK
    BY DEF IInv, Cells, Threads, Mail, Counters, States, TypeOK
  <1>2. QED
    BY <1>1, AlwaysIInv, PTL

\* A stale tap never kills the transfer that came after it: whatever the
\* timing of taps and grace threads, only sockets of tapped transfers are shut.
THEOREM StaleTapIsHarmless == Spec => []OnlyCancelledShut
  <1>1. IInv => OnlyCancelledShut
    BY DEF IInv
  <1>2. QED
    BY <1>1, AlwaysIInv, PTL

\* groupWanted never outlives the asking of the transfer it names, no socket
\* stays in the abort cell after its transfer is gone, and no answer of before a
\* transfer's end stays parked after it, also with reclaimed transfers alive.
THEOREM CellsStayLiving == Spec => []CellsNameLiving
  <1>1. IInv => CellsNameLiving
    BY DEF IInv, CellsNameLiving
  <1>2. QED
    BY <1>1, AlwaysIInv, PTL
=============================================================================
