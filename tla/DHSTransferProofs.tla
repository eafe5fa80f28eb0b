-------------------------- MODULE DHSTransferProofs --------------------------
(***************************************************************************)
(* What is proved about DHSTransfer, for every number of tasks, length,    *)
(* trailer size and set of faults.                                         *)
(***************************************************************************)
EXTENDS DHSTransfer, SequenceTheorems, TLAPS

(***************************************************************************)
(* Types                                                                   *)
(***************************************************************************)
LEMMA UpdateType ==
    ASSUME NEW S, NEW T, NEW f \in [S -> T], NEW x, NEW v, x \in S => v \in T
    PROVE  [f EXCEPT ![x] = v] \in [S -> T]
OBVIOUS

LEMMA LinkStutter == LinkTypeOK /\ UNCHANGED linkVars => LinkTypeOK'
BY DEF LinkTypeOK, linkVars

LEMMA ClientInitType == ClientInit => ClientTypeOK
<1> SUFFICES ASSUME ClientInit PROVE ClientTypeOK
  OBVIOUS
<1>1. socket \in [task : 0 .. MaxTasks, code : Codes \cup {"none"}]
  BY LinkAssumption DEF ClientInit, NoSocket
<1>2. result \in [call : Calls, how : {"ok", "threw"}]
  BY DEF ClientInit, Calls
<1>3. ids \in [Tasks -> Nat] /\ length \in Lengths /\ task \in 0 .. MaxTasks
  BY LinkAssumption DEF ClientInit, Lengths
<1> QED
  BY <1>1, <1>2, <1>3 DEF ClientInit, ClientTypeOK, Calls

LEMMA LinkInitType == LinkInit => LinkTypeOK
BY LinkAssumption DEF LinkInit, LinkTypeOK

LEMMA CleanupType ==
    ASSUME LinkTypeOK, ClientTypeOK,
           NEW c \in {"close", "destroy", "destroyProtocol"}, NEW d \in BOOLEAN,
           Cleanup(c, d), opened' \in BOOLEAN
    PROVE  LinkTypeOK' /\ ClientTypeOK'
<1>1. ends' \in [Tasks -> SUBSET {"client", "mover"}]
  BY DEF LinkTypeOK, Cleanup, HangUp
<1>2. up' \in [Tasks -> Seq(Units)]
  <2>1. CrcTrailer \in Seq(Units)
    BY LinkAssumption DEF CrcTrailer, Units
  <2>2. \A s \in Seq(Units) : s \o CrcTrailer \in Seq(Units)
    BY <2>1, ConcatProperties
  <2> QED
    BY <2>2 DEF LinkTypeOK, Cleanup
<1>3. LinkTypeOK'
  BY <1>1, <1>2 DEF LinkTypeOK, Cleanup
<1>4. socket' \in [task : 0 .. MaxTasks, code : Codes \cup {"none"}]
  BY LinkAssumption DEF Cleanup, NoSocket
<1>5. result' \in [call : Calls, how : {"ok", "threw"}]
  BY DEF Cleanup, Calls, ClientTypeOK
<1>6. length' \in Lengths
  BY LinkAssumption DEF Cleanup, Lengths
<1> QED
  BY <1>3, <1>4, <1>5, <1>6 DEF ClientTypeOK, Cleanup, Calls

LEMMA OpenType ==
    ASSUME ClientTypeOK, NEW c \in Opening, NEW v, Open(c, v), length' \in Lengths
    PROVE  ClientTypeOK'
<1>1. task' \in 0 .. MaxTasks
  BY LinkAssumption DEF Open, NewTask, ClientTypeOK
<1>2. ids' \in [Tasks -> Nat]
  BY DEF Open, NewTask, ClientTypeOK, Tasks
<1> QED
  BY <1>1, <1>2 DEF Open, NewTask, ClientTypeOK, Calls

LEMMA AppType ==
    ASSUME LinkTypeOK, ClientTypeOK, AppActs
    PROVE  LinkTypeOK' /\ ClientTypeOK'
<1>1. CASE OpenForRead
  BY <1>1, LinkStutter, OpenType, LinkAssumption DEF OpenForRead, Opening, Lengths
<1>2. ASSUME NEW size \in Lengths, OpenForWrite(size) PROVE LinkTypeOK' /\ ClientTypeOK'
  BY <1>2, LinkStutter, OpenType DEF OpenForWrite, Opening
<1>3. CASE Read
  <2>1. LinkTypeOK'
    <3>1. down' = [down EXCEPT ![socket.task] = @ - 1] /\ down[socket.task] > 0
      BY <1>3 DEF Read
    <3>2. down' \in [Tasks -> Nat]
      <4>1. socket.task \in Tasks => down[socket.task] - 1 \in Nat
        BY <3>1 DEF LinkTypeOK
      <4> QED
        BY <3>1, <4>1, UpdateType DEF LinkTypeOK
    <3> QED
      BY <1>3, <3>2 DEF Read, LinkTypeOK
  <2> QED
    BY <1>3, <2>1 DEF Read, ClientTypeOK
<1>4. CASE ReadEnds
  BY <1>4, LinkStutter DEF ReadEnds, ClientTypeOK
<1>5. CASE Write
  <2>1. LinkTypeOK'
    <3>1. \A s \in Seq(Units) : Append(s, "data") \in Seq(Units)
      BY AppendProperties DEF Units
    <3>2. up' = up \/ up' = [up EXCEPT ![socket.task] = Append(@, "data")]
      BY <1>5 DEF Write
    <3>3. up' \in [Tasks -> Seq(Units)]
      <4>1. socket.task \in Tasks => Append(up[socket.task], "data") \in Seq(Units)
        BY <3>1 DEF LinkTypeOK
      <4> QED
        BY <3>2, <4>1, UpdateType DEF LinkTypeOK
    <3> QED
      BY <1>5, <3>3 DEF Write, LinkTypeOK
  <2> QED
    BY <1>5, <2>1 DEF Write, ClientTypeOK
<1>6. CASE Close
  BY <1>6, CleanupType DEF Close, ClientTypeOK
<1>7. CASE Destroy
  <2>1. CASE opened
    BY <1>7, <2>1, CleanupType DEF Destroy, ClientTypeOK
  <2>2. CASE ~opened
    BY <1>7, <2>2, LinkStutter DEF Destroy, ClientTypeOK, Calls
  <2> QED
    BY <2>1, <2>2
<1> QED
  BY <1>1, <1>2, <1>3, <1>4, <1>5, <1>6, <1>7 DEF AppActs

LEMMA LeaveType ==
    ASSUME ClientTypeOK, NEW how \in {"ok", "threw"}, Leave(how)
    PROVE  /\ result' \in [call : Calls, how : {"ok", "threw"}]
           /\ call' \in Calls
           /\ pc' \in {"idle", "connect", "ack", "wait", "unwind", "gone", "terminated"}
           /\ stream' \in {"none", "live", "eof", "broken"}
           /\ listening' = (listening /\ pc' # "terminated")
BY DEF Leave, ClientTypeOK, Calls

LEMMA WaitReturnsType ==
    ASSUME ClientTypeOK, NEW e \in BOOLEAN, WaitReturns(e)
    PROVE  /\ \E how \in {"ok", "threw"} : Leave(how)
           /\ error' \in BOOLEAN
BY DEF WaitReturns

LEMMA AcceptType ==
    ASSUME LinkTypeOK, ClientTypeOK, Accept
    PROVE  /\ Head(backlog) \in Callback
           /\ backlog' \in Seq(Callback)
           /\ ends' \in [Tasks -> SUBSET {"client", "mover"}]
           /\ socket' \in [task : 0 .. MaxTasks, code : Codes \cup {"none"}]
           /\ UNCHANGED <<control, down, up, verb, opened, task, ids, got, sent>>
<1>1. Head(backlog) \in Callback /\ backlog' \in Seq(Callback)
  BY DEF Accept, LinkTypeOK
<1>2. ends' \in [Tasks -> SUBSET {"client", "mover"}]
  BY DEF Accept, HangUp, LinkTypeOK
<1> QED
  BY <1>1, <1>2 DEF Accept, Callback, Tasks


LEMMA HearsType ==
    ASSUME LinkTypeOK, ClientTypeOK, ClientHears
    PROVE  LinkTypeOK' /\ ClientTypeOK'
<1>a. Accept
  BY DEF ClientHears, HearOK, HearError, HearRead, HearWrite, HearMessage,
         HearUnsupported, HearStranger, Hear
<1>b. /\ Head(backlog) \in Callback
      /\ backlog' \in Seq(Callback)
      /\ ends' \in [Tasks -> SUBSET {"client", "mover"}]
      /\ socket' \in [task : 0 .. MaxTasks, code : Codes \cup {"none"}]
      /\ UNCHANGED <<control, down, up, verb, opened, task, ids, got, sent>>
  BY <1>a, AcceptType
<1>c. heard' \subseteq [task : Tasks, code : Codes, len : Lengths]
  <2>1. ASSUME NEW code \in Codes, Hear(code)
        PROVE  heard' \subseteq [task : Tasks, code : Codes, len : Lengths]
    BY <1>b, <2>1 DEF Hear, Callback, ClientTypeOK
  <2>2. HearStranger => heard' = heard
    BY DEF HearStranger
  <2>3. (\E code \in Codes : Hear(code)) \/ HearStranger
    BY DEF ClientHears, HearOK, HearError, HearRead, HearWrite, HearMessage,
           HearUnsupported, Codes
  <2> QED
    BY <2>1, <2>2, <2>3 DEF ClientTypeOK
<1>d. /\ result' \in [call : Calls, how : {"ok", "threw"}]
      /\ call' \in Calls
      /\ pc' \in {"idle", "connect", "ack", "wait", "unwind", "gone", "terminated"}
      /\ stream' \in {"none", "live", "eof", "broken"}
      /\ listening' \in BOOLEAN
      /\ error' \in BOOLEAN
  <2>1. CASE HearMessage
    BY <2>1 DEF HearMessage, ClientTypeOK, LinkTypeOK
  <2>2. CASE ~HearMessage
    <3>1. (\E e \in BOOLEAN : WaitReturns(e)) \/ WaitThrows
      BY <2>2 DEF ClientHears, HearOK, HearError, HearRead, HearWrite, HearUnsupported,
                  HearStranger, ClientTypeOK
    <3>2. (\E how \in {"ok", "threw"} : Leave(how)) /\ error' \in BOOLEAN
      BY <3>1, WaitReturnsType DEF WaitThrows, ClientTypeOK
    <3> QED
      BY <3>2, LeaveType DEF LinkTypeOK
  <2> QED
    BY <2>1, <2>2
<1>e. asked' \in [Tasks -> Seq(Lengths)]
  <2>1. CASE HearRead
    <3>1. Append(asked[Head(backlog).task], length) \in Seq(Lengths)
      <4>1. asked[Head(backlog).task] \in Seq(Lengths) /\ length \in Lengths
        BY <1>b DEF LinkTypeOK, ClientTypeOK, Callback
      <4> QED
        BY <4>1, AppendProperties
    <3>2. asked' = [asked EXCEPT ![Head(backlog).task] = Append(@, length)]
      BY <2>1 DEF HearRead
    <3> QED
      BY <3>1, <3>2, UpdateType DEF LinkTypeOK
  <2>2. CASE ~HearRead
    <3>1. asked' = asked
      BY <2>2 DEF ClientHears, HearOK, HearError, HearWrite, HearMessage, HearUnsupported,
                  HearStranger
    <3> QED
      BY <3>1 DEF LinkTypeOK
  <2> QED
    BY <2>1, <2>2
<1>f. done' \in BOOLEAN /\ sending' \in BOOLEAN
  BY DEF ClientHears, HearOK, HearError, HearRead, HearWrite, HearMessage,
         HearUnsupported, HearStranger, ClientTypeOK
<1>g. length' \in Lengths /\ stats' \subseteq Tasks
  BY <1>b DEF ClientHears, HearOK, HearError, HearRead, HearWrite, HearMessage,
              HearUnsupported, HearStranger, ClientTypeOK, Callback
<1>h. LinkTypeOK'
  BY <1>b, <1>d, <1>e DEF LinkTypeOK
<1> QED
  BY <1>b, <1>c, <1>d, <1>f, <1>g, <1>h DEF ClientTypeOK

LEMMA ClientType ==
    ASSUME LinkTypeOK, ClientTypeOK, ClientRuns
    PROVE  LinkTypeOK' /\ ClientTypeOK'
<1>1. CASE SendTask
  <2>1. LinkTypeOK'
    BY <1>1 DEF SendTask, LinkTypeOK
  <2> QED
    BY <1>1, <2>1 DEF SendTask, ClientTypeOK
<1>2. CASE OpenFails
  <2>1. Leave("threw") /\ UNCHANGED error
    BY <1>2 DEF OpenFails, WaitThrows
  <2>2. LinkTypeOK'
    BY <1>2, <2>1, LeaveType DEF OpenFails, LinkTypeOK
  <2> QED
    BY <1>2, <2>1, <2>2, LeaveType DEF OpenFails, ClientTypeOK
<1>3. CASE Acknowledged
  BY <1>3, LinkStutter DEF Acknowledged, ClientTypeOK
<1>4. CASE DestroyProtocol
  BY <1>4, CleanupType DEF DestroyProtocol, ClientTypeOK
<1> QED
  BY <1>1, <1>2, <1>3, <1>4, HearsType DEF ClientRuns

LEMMA CallsBackType ==
    ASSUME LinkTypeOK, NEW t \in Tasks, NEW id \in Nat, NEW code \in Codes,
           NEW len \in Lengths, Calls_back(t, id, code, len)
    PROVE  backlog' \in Seq(Callback)
<1>1. [task |-> t, id |-> id, code |-> code, len |-> len] \in Callback
  BY DEF Callback
<1> QED
  BY <1>1, AppendProperties DEF Calls_back, LinkTypeOK

LEMMA NoMoverType == NoMover \in Mover
BY LinkAssumption DEF NoMover, Mover, Phases, Lengths

LEMMA MoverInitType == MoverInit => MoverTypeOK
BY NoMoverType DEF MoverInit, MoverTypeOK

LEMMA MoverOpensType ==
    ASSUME LinkTypeOK, MoverTypeOK, NEW t \in Tasks, NEW id \in Nat,
           \/ MoverOpenForRead(t, id)
           \/ \E len, source \in Lengths : MoverOpenForWrite(t, id, len, source)
    PROVE  LinkTypeOK' /\ MoverTypeOK'
<1>1. CASE MoverOpenForRead(t, id)
  <2>1. backlog' \in Seq(Callback)
    BY <1>1, CallsBackType, LinkAssumption DEF MoverOpenForRead, Codes, Lengths
  <2>2. [NoMover EXCEPT !.phase = "asking"] \in Mover
    BY NoMoverType DEF Mover, Phases
  <2> QED
    BY <1>1, <2>1, <2>2, UpdateType DEF MoverOpenForRead, LinkTypeOK, MoverTypeOK
<1>2. ASSUME NEW len \in Lengths, NEW source \in Lengths, MoverOpenForWrite(t, id, len, source)
      PROVE  LinkTypeOK' /\ MoverTypeOK'
  <2>1. backlog' \in Seq(Callback)
    BY <1>2, CallsBackType DEF MoverOpenForWrite, Codes
  <2>2. [NoMover EXCEPT !.phase = "moving", !.length = len, !.source = source] \in Mover
    BY NoMoverType DEF Mover, Phases
  <2> QED
    BY <1>2, <2>1, <2>2, UpdateType DEF MoverOpenForWrite, LinkTypeOK, MoverTypeOK
<1> QED
  BY <1>1, <1>2

LEMMA MoverType ==
    ASSUME LinkTypeOK, MoverTypeOK, NEW t \in Tasks, MoverRuns(t) \/ MoverDies(t)
    PROVE  LinkTypeOK' /\ MoverTypeOK'
<1>0. mover[t] \in Mover
  BY DEF MoverTypeOK
<1>1. CASE MoverGetsLength(t)
  <2>1. Head(asked[t]) \in Lengths
    BY <1>1, HeadTailProperties DEF MoverGetsLength, LinkTypeOK
  <2> QED
    BY <1>0, <1>1, <2>1, LinkStutter DEF MoverGetsLength, MoverTypeOK, Mover, Phases
<1>2. CASE MoverWrite(t)
  <2>1. [down EXCEPT ![t] = @ + 1] \in [Tasks -> Nat]
    BY DEF LinkTypeOK
  <2>2. LinkTypeOK'
    BY <1>2, <2>1 DEF MoverWrite, LinkTypeOK
  <2>3. [mover[t] EXCEPT !.total = @ + 1] \in Mover
    BY <1>0 DEF Mover
  <2> QED
    BY <1>2, <2>2, <2>3, UpdateType DEF MoverWrite, MoverTypeOK
<1>3. CASE MoverRead(t)
  <2>1. Tail(up[t]) \in Seq(Units)
    BY <1>3, HeadTailProperties DEF MoverRead, LinkTypeOK
  <2>2. LinkTypeOK'
    BY <1>3, <2>1, UpdateType DEF MoverRead, LinkTypeOK
  <2>3. ASSUME NEW n \in Nat
        PROVE  [mover[t] EXCEPT !.total = @ + 1, !.crcAsData = @ + n] \in Mover
    <3>1. mover[t].total + 1 \in Nat /\ mover[t].crcAsData + n \in Nat
      BY <1>0, <2>3 DEF Mover
    <3> QED
      BY <1>0, <3>1 DEF Mover
  <2> QED
    BY <1>3, <2>2, <2>3, UpdateType DEF MoverRead, MoverTypeOK
<1>4. ASSUME NEW how \in {"ok", "failed"}, Shut(t, how),
             UNCHANGED <<listening, control, backlog, asked, down, up>>
      PROVE  LinkTypeOK' /\ MoverTypeOK'
  BY <1>0, <1>4 DEF Shut, LinkTypeOK, MoverTypeOK, Mover, Phases
<1>5. CASE MoverClose(t)
  BY <1>4, <1>5 DEF MoverClose
<1>6. CASE MoverFails(t)
  BY <1>4, <1>6 DEF MoverFails
<1>7. CASE MoverDies(t)
  BY <1>4, <1>7 DEF MoverDies
<1> QED
  BY <1>1, <1>2, <1>3, <1>5, <1>6, <1>7 DEF MoverRuns

LEMMA TypeNext == TypeOK /\ [Next]_vars => TypeOK'
<1> SUFFICES ASSUME TypeOK, [Next]_vars PROVE TypeOK'
  OBVIOUS
<1>0. LinkTypeOK /\ ClientTypeOK /\ MoverTypeOK
  BY DEF TypeOK
<1>1. UNCHANGED clientVars => ClientTypeOK'
  BY <1>0 DEF clientVars, ClientTypeOK
<1>2. CASE ClientStep
  BY <1>0, <1>2, AppType, ClientType DEF ClientStep, ClientNext, TypeOK, MoverTypeOK
<1>3. ASSUME NEW t \in Tasks, ServerTakes(t) PROVE TypeOK'
  BY <1>0, <1>1, <1>3 DEF ServerTakes, TypeOK, LinkTypeOK, MoverTypeOK
<1>4. ASSUME NEW t \in Tasks, ServerTells(t) PROVE TypeOK'
  <2>1. backlog' \in Seq(Callback)
    BY <1>0, <1>4, CallsBackType, LinkAssumption
    DEF ServerTells, ClientTypeOK, Codes, Lengths
  <2>2. LinkTypeOK'
    BY <1>0, <1>4, <2>1 DEF ServerTells, LinkTypeOK, Calls_back
  <2>3. talk' \in [Tasks -> 0 .. MaxMessages]
    BY <1>4, TransferAssumption DEF ServerTells, TypeOK
  <2> QED
    BY <1>0, <1>1, <1>4, <2>2, <2>3 DEF ServerTells, TypeOK, MoverTypeOK
<1>5. ASSUME NEW t \in Tasks, ServerDispatches(t) PROVE TypeOK'
  <2>1. LinkTypeOK' /\ MoverTypeOK'
    BY <1>0, <1>5, MoverOpensType DEF ServerDispatches, ClientTypeOK
  <2> QED
    BY <1>1, <1>5, <2>1 DEF ServerDispatches, TypeOK
<1>6. ASSUME NEW t \in Tasks, NEW code \in {"o", "e"}, ServerConcludes(t, code) PROVE TypeOK'
  <2>1. backlog' \in Seq(Callback)
    BY <1>0, <1>6, CallsBackType, LinkAssumption
    DEF ServerConcludes, ClientTypeOK, LinkTypeOK, Codes, Lengths
  <2>2. LinkTypeOK'
    BY <1>0, <1>6, <2>1 DEF ServerConcludes, LinkTypeOK
  <2> QED
    BY <1>0, <1>1, <1>6, <2>2 DEF ServerConcludes, TypeOK, MoverTypeOK
<1>7. ASSUME NEW t \in Tasks, MoverStep(t) \/ MoverCrash(t) PROVE TypeOK'
  BY <1>0, <1>1, <1>7, MoverType DEF MoverStep, MoverCrash, TypeOK
<1>8. CASE UNCHANGED vars
  BY <1>0, <1>1, <1>8, LinkStutter DEF vars, TypeOK, MoverTypeOK
<1> QED
  BY <1>2, <1>3, <1>4, <1>5, <1>6, <1>7, <1>8 DEF Next, ServerRuns, Over

LEMMA TypeInit == Init => TypeOK
BY LinkInitType, ClientInitType, MoverInitType, TransferAssumption DEF Init, TypeOK

(* The state of client, wires, mover and server keeps its types. *)
THEOREM TypeCorrect == Spec => []TypeOK
BY TypeInit, TypeNext, PTL DEF Spec
(***************************************************************************)
(* An 'e' that the client has heard (the first half of ErrorReported).     *)
(* Alone it is not inductive: while the handle is open the 'e' must still  *)
(* be held in error_, and only a closed handle is past the point where     *)
(* cleanup() may reset it.                                                 *)
(***************************************************************************)
ErrorHeld ==
    /\ ClosedCleanly => ~Heard("e")
    /\ Heard("e") /\ ~error => ~opened /\ pc \notin {"connect", "ack", "wait"}
    /\ pc = "wait" /\ call \notin Opening => ~opened
    /\ pc \in {"connect", "ack"} => call \in Opening
    /\ pc = "unwind" => ~opened

LEMMA ErrorHeldInit == Init => ErrorHeld
BY DEF Init, ClientInit, ErrorHeld, ClosedCleanly, Heard

LEMMA ErrorHeldApp ==
    ASSUME ClientTypeOK, ErrorHeld, AppActs
    PROVE  ErrorHeld'
<1> USE DEF ErrorHeld, ClosedCleanly, Heard, ClientTypeOK, Opening
<1>1. CASE OpenForRead
  BY <1>1 DEF OpenForRead, Open, NewTask
<1>2. ASSUME NEW size \in Lengths, OpenForWrite(size) PROVE ErrorHeld'
  BY <1>2 DEF OpenForWrite, Open, NewTask
<1>3. CASE Read
  BY <1>3 DEF Read
<1>4. CASE ReadEnds
  BY <1>4 DEF ReadEnds
<1>5. CASE Write
  BY <1>5 DEF Write
<1>6. CASE Close
  BY <1>6 DEF Close, Cleanup
<1>7. CASE Destroy
  BY <1>7 DEF Destroy, Cleanup
<1> QED
  BY <1>1, <1>2, <1>3, <1>4, <1>5, <1>6, <1>7 DEF AppActs

LEMMA ErrorHeldClient ==
    ASSUME ClientTypeOK, ErrorHeld, ClientRuns
    PROVE  ErrorHeld'
<1> USE DEF ErrorHeld, ClosedCleanly, Heard, ClientTypeOK, Opening
<1>1. CASE SendTask
  BY <1>1 DEF SendTask
<1>2. CASE OpenFails
  BY <1>2 DEF OpenFails, WaitThrows, Leave
<1>3. CASE Acknowledged
  BY <1>3 DEF Acknowledged
<1>4. CASE HearOK
  BY <1>4 DEF HearOK, Hear, Accept, WaitReturns, Leave, Opening
<1>5. CASE HearError
  BY <1>5 DEF HearError, Hear, Accept, WaitReturns, Leave, Opening
<1>6. CASE HearRead
  BY <1>6 DEF HearRead, Hear, Accept, WaitReturns, Leave, Opening
<1>7. CASE HearWrite
  BY <1>7 DEF HearWrite, Hear, Accept, WaitReturns, Leave, Opening
<1>8. CASE HearMessage
  BY <1>8 DEF HearMessage, Hear, Accept
<1>9. CASE HearUnsupported
  BY <1>9 DEF HearUnsupported, Hear, Accept, WaitThrows, Leave
<1>10. CASE HearStranger
  BY <1>10 DEF HearStranger, Accept, WaitThrows, Leave
<1>11. CASE DestroyProtocol
  BY <1>11 DEF DestroyProtocol, Cleanup
<1> QED
  BY <1>1, <1>2, <1>3, <1>4, <1>5, <1>6, <1>7, <1>8, <1>9, <1>10, <1>11
  DEF ClientRuns, ClientHears

LEMMA ErrorHeldNext == TypeOK /\ ErrorHeld /\ [Next]_vars => ErrorHeld'
<1> SUFFICES ASSUME ClientTypeOK, ErrorHeld, [Next]_vars PROVE ErrorHeld'
  BY DEF TypeOK
<1>1. CASE ClientStep
  BY <1>1, ErrorHeldApp, ErrorHeldClient DEF ClientStep, ClientNext
<1>2. CASE UNCHANGED clientVars
  BY <1>2 DEF clientVars, ErrorHeld, ClosedCleanly, Heard
<1>3. ASSUME NEW t \in Tasks, ServerRuns(t) \/ MoverStep(t) \/ MoverCrash(t)
      PROVE  UNCHANGED clientVars
  BY <1>3 DEF ServerRuns, ServerTakes, ServerTells, ServerDispatches, ServerConcludes, MoverStep,
            MoverCrash
<1>4. Over \/ UNCHANGED vars => UNCHANGED clientVars
  BY DEF Over, vars
<1> QED
  BY <1>1, <1>2, <1>3, <1>4 DEF Next

(***************************************************************************)
(* NoStranger.  When no two tasks are made in one second their ids differ, *)
(* and a callback carries the id of the task it was made for.              *)
(***************************************************************************)
Apart ==
    /\ NoStranger
    /\ \A t \in Tasks : t <= task => ids[t] = t
    /\ \A t \in Tasks : control[t] # "none" \/ server[t] # "idle" => t <= task
    /\ \A i \in 1 .. Len(backlog) :
          backlog[i].task <= task /\ backlog[i].id = backlog[i].task
    /\ pc \in {"connect", "ack"} => task # 0

LEMMA ApartInit == Init => Apart
BY DEF Init, LinkInit, ClientInit, Apart, NoStranger, Tasks

(* A callback that connects is the last of the backlog. *)
LEMMA BacklogGrows ==
    ASSUME TypeOK, Apart, NEW t \in Tasks, t <= task, NEW code, NEW len,
           Calls_back(t, ids[t], code, len)
    PROVE  \A i \in 1 .. Len(backlog') :
               backlog'[i].task <= task /\ backlog'[i].id = backlog'[i].task
<1> DEFINE cb == [task |-> t, id |-> ids[t], code |-> code, len |-> len]
<1>1. backlog' = Append(backlog, cb) /\ backlog \in Seq(Callback)
  BY DEF Calls_back, TypeOK, LinkTypeOK
<1>2. cb.task <= task /\ cb.id = cb.task
  BY DEF Apart
<1> HIDE DEF cb
<1>3. /\ Len(backlog') = Len(backlog) + 1
      /\ \A i \in 1 .. Len(backlog) : backlog'[i] = backlog[i]
      /\ backlog'[Len(backlog) + 1] = cb
  BY <1>1
<1>4. Len(backlog) \in Nat
  BY <1>1
<1> QED
  BY <1>2, <1>3, <1>4 DEF Apart

LEMMA ApartHears ==
    ASSUME TypeOK, Apart, ClientHears
    PROVE  /\ NoStranger'
           /\ \A i \in 1 .. Len(backlog') :
                 backlog'[i].task <= task /\ backlog'[i].id = backlog'[i].task
           /\ UNCHANGED <<task, ids, control>>
<1>1. Accept
  BY DEF ClientHears, HearOK, HearError, HearRead, HearWrite, HearMessage,
         HearUnsupported, HearStranger, Hear
<1>2. backlog \in Seq(Callback) /\ backlog # <<>> /\ backlog' = Tail(backlog)
  BY <1>1 DEF Accept, TypeOK, LinkTypeOK
<1>3. /\ Len(backlog') = Len(backlog) - 1
      /\ \A i \in 1 .. Len(backlog') : backlog'[i] = backlog[i + 1]
      /\ Len(backlog) \in Nat
  BY <1>2, HeadTailProperties
<1>4. 1 \in 1 .. Len(backlog) /\ Head(backlog) = backlog[1]
  BY <1>2
<1>5. Head(backlog).id = Head(backlog).task
  BY <1>4 DEF Apart
<1>6. UNCHANGED <<task, ids, control>>
  BY <1>1 DEF Accept
<1>8. ASSUME NEW code, Hear(code) PROVE NoStranger'
  <2>1. task \in Tasks /\ ids[task] = task
    BY <1>8 DEF Hear, Addressed, Apart, TypeOK, ClientTypeOK, Tasks
  <2>2. Head(backlog).task = task
    BY <1>5, <1>8, <2>1 DEF Hear, Addressed
  <2> QED
    BY <1>6, <1>8, <2>2 DEF Hear, Apart, NoStranger
<1>9. NoStranger'
  <2>1. heard' = heard \/ \E code \in Codes : Hear(code)
    BY DEF ClientHears, HearOK, HearError, HearRead, HearWrite, HearMessage,
           HearUnsupported, HearStranger, Codes
  <2> QED
    BY <1>6, <1>8, <2>1 DEF Apart, NoStranger
<1> QED
  BY <1>3, <1>6, <1>9 DEF Apart

LEMMA ApartClient ==
    ASSUME TypeOK, Apart, ClientStep, "second" \notin Faults
    PROVE  Apart'
<1>0. UNCHANGED server
  BY DEF ClientStep
<1>1. CASE ClientHears
  <2>1. pc' \notin {"connect", "ack"}
    BY <1>1 DEF ClientHears, HearOK, HearError, HearRead, HearWrite, HearMessage,
           HearUnsupported, HearStranger, Hear, Accept, WaitReturns, WaitThrows, Leave
  <2> QED
    BY <1>0, <1>1, <2>1, ApartHears DEF Apart
<1>2. ASSUME NEW c, NEW v, Open(c, v), UNCHANGED linkVars PROVE Apart'
  <2>1. CASE NewTask(c)
    <3>1. /\ task' = task + 1 /\ heard' = {} /\ UNCHANGED <<control, backlog>>
          /\ ids' = [ids EXCEPT ![task + 1] = task + 1]
      BY <1>2, <2>1 DEF Open, NewTask, linkVars
    <3>2. task \in Nat
      BY DEF TypeOK, ClientTypeOK
    <3>3. \A t \in Tasks : t <= task' => ids'[t] = t
      BY <3>1, <3>2 DEF Apart, TypeOK, ClientTypeOK, Tasks
    <3>4. \A t \in Tasks : control[t] # "none" \/ server[t] # "idle" => t <= task'
      BY <3>1, <3>2 DEF Apart, Tasks
    <3>5. \A i \in 1 .. Len(backlog) : backlog[i].task <= task'
      <4>1. \A i \in 1 .. Len(backlog) : backlog[i].task \in Nat
        <5>1. \A i \in 1 .. Len(backlog) : backlog[i] \in Callback
          BY DEF TypeOK, LinkTypeOK
        <5> QED
          BY <5>1 DEF Callback, Tasks
      <4> QED
        BY <3>1, <3>2, <4>1 DEF Apart
    <3> QED
      BY <1>0, <3>1, <3>2, <3>3, <3>4, <3>5 DEF Apart, NoStranger
  <2>2. CASE UNCHANGED <<task, ids, pc>>
    BY <1>0, <1>2, <2>2 DEF Open, linkVars, Apart, NoStranger
  <2> QED
    BY <1>2, <2>1, <2>2 DEF Open
<1>3. CASE SendTask
  <2>1. \A t \in Tasks : control'[t] # "none" => control[t] # "none" \/ t = task
    BY <1>3 DEF SendTask, TypeOK, LinkTypeOK
  <2>2. task \in Nat
    BY DEF TypeOK, ClientTypeOK
  <2> QED
    BY <1>0, <1>3, <2>1, <2>2 DEF SendTask, Apart, NoStranger, Tasks
<1>4. ASSUME UNCHANGED <<task, ids, heard, control, backlog>>, pc' \notin {"connect", "ack"}
      PROVE  Apart'
  BY <1>0, <1>4 DEF Apart, NoStranger
<1>5. ASSUME NEW c \in {"close", "destroy", "destroyProtocol"}, NEW d, Cleanup(c, d)
      PROVE  Apart'
  <2>1. pc' \notin {"connect", "ack"}
    BY <1>5 DEF Cleanup
  <2> QED
    BY <1>4, <1>5, <2>1 DEF Cleanup
<1>6. CASE OpenFails \/ Acknowledged
  BY <1>4, <1>6 DEF OpenFails, Acknowledged, WaitThrows, Leave, linkVars
<1>7. CASE Read \/ ReadEnds \/ Write
  BY <1>4, <1>7 DEF Read, ReadEnds, Write, Ready, linkVars
<1>8. CASE Close \/ DestroyProtocol
  BY <1>5, <1>8 DEF Close, DestroyProtocol
<1>9. CASE Destroy
  BY <1>4, <1>5, <1>9 DEF Destroy, linkVars
<1> QED
  BY <1>1, <1>2, <1>3, <1>6, <1>7, <1>8, <1>9
  DEF ClientStep, ClientNext, ClientRuns, AppActs, OpenForRead, OpenForWrite

LEMMA ApartNext == "second" \notin Faults /\ TypeOK /\ Apart /\ [Next]_vars => Apart'
<1> SUFFICES ASSUME "second" \notin Faults, TypeOK, Apart, [Next]_vars PROVE Apart'
  OBVIOUS
<1>1. CASE ClientStep
  BY <1>1, ApartClient
<1>2. ASSUME NEW t \in Tasks, MoverStep(t) \/ MoverCrash(t) PROVE Apart'
  <2>1. UNCHANGED <<control, backlog>>
    BY <1>2 DEF MoverStep, MoverCrash, MoverDies, MoverRuns, MoverGetsLength, MoverWrite, MoverRead, MoverClose,
                MoverFails, linkVars
  <2> QED
    BY <1>2, <2>1 DEF MoverStep, MoverCrash, clientVars, Apart, NoStranger
<1>3. ASSUME NEW t \in Tasks, ServerTakes(t) PROVE Apart'
  <2>1. t <= task
    BY <1>3 DEF ServerTakes, Apart
  <2>2. \A u \in Tasks : u # t => control'[u] = control[u] /\ server'[u] = server[u]
    BY <1>3 DEF ServerTakes, TypeOK, LinkTypeOK
  <2> QED
    BY <1>3, <2>1, <2>2 DEF ServerTakes, clientVars, Apart, NoStranger
<1>4. ASSUME NEW t \in Tasks, t <= task, UNCHANGED <<control, clientVars>>,
             \A u \in Tasks : u # t => server'[u] = server[u],
             \/ UNCHANGED backlog
             \/ \E code, len : Calls_back(t, ids[t], code, len)
      PROVE  Apart'
  <2>1. \A i \in 1 .. Len(backlog') :
           backlog'[i].task <= task /\ backlog'[i].id = backlog'[i].task
    BY <1>4, BacklogGrows DEF Apart
  <2> QED
    BY <1>4, <2>1 DEF clientVars, Apart, NoStranger
<1>5. ASSUME NEW t \in Tasks, ServerTells(t) PROVE Apart'
  <2>1. t <= task
    BY <1>5 DEF ServerTells, Apart
  <2>2. \E code, len : Calls_back(t, ids[t], code, len)
    BY <1>5 DEF ServerTells
  <2> QED
    BY <1>4, <1>5, <2>1, <2>2 DEF ServerTells
<1>6. ASSUME NEW t \in Tasks, ServerDispatches(t) PROVE Apart'
  <2>1. t <= task
    BY <1>6 DEF ServerDispatches, Apart
  <2>2. (\E code, len : Calls_back(t, ids[t], code, len)) /\ UNCHANGED control
    BY <1>6 DEF ServerDispatches, MoverOpenForRead, MoverOpenForWrite
  <2>3. \A u \in Tasks : u # t => server'[u] = server[u]
    BY <1>6 DEF ServerDispatches, TypeOK
  <2>4. UNCHANGED clientVars
    BY <1>6 DEF ServerDispatches
  <2> QED
    BY <1>4, <2>1, <2>2, <2>3, <2>4
<1>7. ASSUME NEW t \in Tasks, NEW code, ServerConcludes(t, code) PROVE Apart'
  <2>1. t <= task
    BY <1>7 DEF ServerConcludes, Apart
  <2>2. UNCHANGED backlog \/ \E co, len : Calls_back(t, ids[t], co, len)
    BY <1>7 DEF ServerConcludes
  <2>3. \A u \in Tasks : u # t => server'[u] = server[u]
    BY <1>7 DEF ServerConcludes, TypeOK
  <2> QED
    BY <1>4, <1>7, <2>1, <2>2, <2>3 DEF ServerConcludes
<1>8. CASE UNCHANGED vars
  BY <1>8 DEF vars, linkVars, clientVars, Apart, NoStranger
<1> QED
  BY <1>1, <1>2, <1>3, <1>5, <1>6, <1>7, <1>8 DEF Next, ServerRuns, Over

(* However often a handle is opened, and with every fault but two tasks in one
   second, the client only acts on callbacks made for its current task
   (ClientTask::receive). *)
THEOREM StrangersRefused == "second" \notin Faults => (Spec => []NoStranger)
<1> SUFFICES ASSUME "second" \notin Faults PROVE Spec => []NoStranger
  OBVIOUS
<1>1. TypeOK /\ Apart /\ [Next]_vars => Apart'
  BY ApartNext
<1>2. Apart => NoStranger
  BY DEF Apart
<1> QED
  BY <1>1, <1>2, ApartInit, TypeCorrect, PTL DEF Spec

(***************************************************************************)
(* The first task of a handle.  That a close which returned normally was   *)
(* confirmed, and that the data are then complete, follows from what the   *)
(* client, the server and the mover know of each other while there is only *)
(* one task.  FirstTask says it: who can be at work (Alone), what the      *)
(* server and its callbacks say (Served), what the mover has moved         *)
(* (Carried), what the client was told (Told), whether it still holds the  *)
(* connection (Attached), and where every unit is (Retrieved, Archived).   *)
(***************************************************************************)
Answers  == {"r", "w"}     \* callbacks of a mover, which end an open
Verdicts == {"o", "e"}     \* callbacks of the server, which end the task

OpeningNow == pc \in {"connect", "ack"} \/ (pc = "wait" /\ call \in Opening)

HeardAny(codes) == \E h \in heard : h.code \in codes
Waiting(codes)  == {i \in 1 .. Len(backlog) : backlog[i].code \in codes}

Moving == mover[1].phase \in {"asking", "moving"}
Moved1 == mover[1].phase # "off"

(* Only the first task is there. *)
Alone ==
    /\ \A t \in Tasks : control[t] # "none" \/ server[t] # "idle" \/ mover[t].phase # "off"
                           => t = 1 /\ task = 1
    /\ \A i \in 1 .. Len(backlog) : backlog[i].task = 1 /\ task = 1
    /\ socket.code \in Answers => socket.task = 1 /\ task = 1
    /\ listening <=> pc \notin {"gone", "terminated"}

(* Before it nothing was said, asked or moved. *)
Before ==
    task = 0 => /\ heard = {} /\ stream = "none" /\ got = 0 /\ sent = 0 /\ ~OpeningNow
                /\ done => pc \in {"gone", "terminated"}
                /\ asked[1] = <<>> /\ up[1] = <<>>

Served ==
    /\ pc = "connect" => control[1] = "none"
    /\ control[1] # "acked" => server[1] = "idle"
    /\ Moved1 => server[1] \in {"moving", "accepted", "rejected"}
    /\ server[1] = "moving" => Moved1
    /\ HeardAny({"o"}) \/ Waiting({"o"}) # {} =>
          /\ server[1] = "accepted"
          /\ IF Moved1 THEN mover[1].phase = "closed" /\ mover[1].result = "ok"
                       ELSE verb = "retrieve"
    /\ HeardAny({"w"}) \/ Waiting({"w"}) # {} => Moved1 /\ verb = "retrieve"
    /\ HeardAny({"r"}) \/ Waiting({"r"}) # {} => Moved1 /\ verb = "archive"
    /\ \A h \in heard : h.code = "w" => h.len = mover[1].length
    /\ \A i \in 1 .. Len(backlog) : backlog[i].code = "w" => backlog[i].len = mover[1].length
    /\ \A i, j \in Waiting(Answers) : i = j
    /\ HeardAny(Answers) => Waiting(Answers) = {}

(* All that the mover had to move is moved: it knows its own end, and the
   length that was announced, unless this was 0. *)
Complete ==
    IF verb = "retrieve"
    THEN /\ mover[1].total = mover[1].source
         /\ mover[1].length > 0 => mover[1].total = mover[1].length
    ELSE mover[1].total = mover[1].length

Carried ==
    /\ Moving => "mover" \in ends[1] /\ mover[1].result = "none"
    /\ ~Moved1 => down[1] = 0 /\ mover[1] = NoMover
    /\ verb = "retrieve" => /\ mover[1].phase # "asking" /\ ~mover[1].receiving
                            /\ mover[1].total <= mover[1].source
    /\ verb = "archive" =>
          /\ mover[1].phase = "moving" \/ mover[1].result = "ok" => mover[1].receiving
          /\ mover[1].receiving => /\ asked[1] # <<>> /\ mover[1].length = Head(asked[1])
                                   /\ mover[1].total <= mover[1].length
          /\ ~mover[1].receiving => mover[1].total = 0 /\ mover[1].crcAsData = 0
    /\ mover[1].result = "ok" => Complete

Told ==
    /\ OpeningNow => /\ ~HeardAny(Answers \cup Verdicts) /\ stream = "none"
                     /\ got = 0 /\ sent = 0
                     /\ asked[1] = <<>> /\ up[1] = <<>> /\ opened /\ call \in Opening
    /\ HeardAny(Verdicts) => done
    /\ done => \/ HeardAny(Verdicts)
               \/ stream = "none" /\ ~OpeningNow
               \/ pc \in {"gone", "terminated"}
    /\ pc = "wait" => ~done
    /\ pc = "wait" /\ call \notin Opening => ~opened
    /\ pc = "unwind" => ~opened
    /\ stream # "none" => HeardAny(Answers \cup Verdicts)
    /\ CleanCloseIsConfirmed

Attached ==
    /\ OpeningNow => /\ socket.code \notin Answers
                     /\ Waiting(Answers) # {} => "client" \in ends[1]
    /\ opened /\ stream # "none" =>
          /\ pc = "idle"
          /\ HeardAny(Answers) <=> socket.code \in Answers
          /\ HeardAny(Answers) => "client" \in ends[1]
    /\ ~opened /\ stream # "none" => socket.code \notin Answers
    /\ socket.code = "w" => verb = "retrieve"
    /\ socket.code = "r" => verb = "archive"

Retrieved ==
    verb = "retrieve" =>
    /\ Moved1 /\ "client" \in ends[1] /\ listening => got + down[1] = mover[1].total
    /\ got > 0 => HeardAny({"w"}) /\ stream # "none"
    /\ ~opened /\ "client" \in ends[1] => got = 0
    /\ stream = "eof" /\ HeardAny({"w"}) => mover[1].phase = "closed" /\ got = mover[1].total

Archived ==
    verb = "archive" /\ stream # "none" =>
    /\ asked[1] # <<>> <=> HeardAny({"r"})
    /\ up[1] # <<>> => HeardAny({"r"})
    /\ Moving => /\ \A i \in 1 .. Len(up[1]) : up[1][i] = "data" <=> mover[1].total + i <= sent
                 /\ opened /\ HeardAny({"r"}) => mover[1].total + Len(up[1]) = sent
    /\ (\E i \in 1 .. Len(up[1]) : up[1][i] = "crc") => ~opened
    /\ mover[1].crcAsData > 0 => mover[1].total > sent /\ ~opened

First == /\ Alone /\ Before /\ Served /\ Carried
         /\ Told /\ Attached /\ Retrieved /\ Archived

FirstTask == task <= 1 => First

LEMMA FirstInit == Init => FirstTask
<1> SUFFICES ASSUME Init PROVE First
  BY DEF FirstTask
<1>1. 1 \in Tasks /\ backlog = <<>> /\ heard = {}
  BY LinkAssumption DEF Init, LinkInit, ClientInit, Tasks
<1>2. mover[1] = NoMover /\ NoMover.phase = "off" /\ NoMover.result = "none"
  BY <1>1 DEF Init, MoverInit, NoMover
<1>3. Alone /\ Before
  BY <1>1 DEF Init, LinkInit, ClientInit, MoverInit, NoMover, Alone, Before, OpeningNow,
              Answers, NoSocket
<1>4. Served
  BY <1>1, <1>2 DEF Init, LinkInit, Served, HeardAny, Waiting, Moved1
<1>5. Carried
  BY <1>1, <1>2 DEF Init, LinkInit, Carried, Moved1, Moving, NoMover
<1>6. Told /\ Attached
  BY <1>1 DEF Init, LinkInit, ClientInit, Told, Attached, OpeningNow, HeardAny, Answers,
              NoSocket, CleanCloseIsConfirmed, ClosedCleanly
<1>7. Retrieved /\ Archived
  BY <1>1, <1>2 DEF Init, LinkInit, ClientInit, Retrieved, Archived, Moved1
<1> QED
  BY <1>3, <1>4, <1>5, <1>6, <1>7 DEF First

(* What accepting the first callback, or a new one, makes of the backlog. *)
LEMMA BacklogPops ==
    ASSUME TypeOK, Accept
    PROVE  /\ \A i \in 1 .. Len(backlog') :
                 \E k \in 1 .. Len(backlog) : k = i + 1 /\ backlog'[i] = backlog[k]
           /\ 1 \in 1 .. Len(backlog) /\ Head(backlog) = backlog[1]
<1>1. backlog \in Seq(Callback) /\ backlog # <<>> /\ backlog' = Tail(backlog)
  BY DEF Accept, TypeOK, LinkTypeOK
<1>2. /\ Len(backlog') = Len(backlog) - 1
      /\ \A i \in 1 .. Len(backlog') : backlog'[i] = backlog[i + 1]
      /\ Len(backlog) \in Nat
  BY <1>1, HeadTailProperties
<1>3. 1 \in 1 .. Len(backlog) /\ Head(backlog) = backlog[1]
  BY <1>1
<1>4. ASSUME NEW i \in 1 .. Len(backlog')
      PROVE  \E k \in 1 .. Len(backlog) : k = i + 1 /\ backlog'[i] = backlog[k]
  BY <1>2
<1> QED
  BY <1>3, <1>4

LEMMA WaitingPops ==
    ASSUME TypeOK, Accept
    PROVE  /\ \A codes : Waiting(codes)' # {} => Waiting(codes) # {}
           /\ \A codes : Head(backlog).code \in codes => Waiting(codes) # {}
           /\ \A codes : (\A i, j \in Waiting(codes) : i = j) =>
                 /\ \A i, j \in Waiting(codes)' : i = j
                 /\ Head(backlog).code \in codes => Waiting(codes)' = {}
<1>1. ASSUME NEW codes, NEW i \in Waiting(codes)'
      PROVE  i + 1 \in Waiting(codes) /\ i \in Nat \ {0}
  <2>1. i \in 1 .. Len(backlog') /\ backlog'[i].code \in codes
    BY <1>1 DEF Waiting
  <2>2. i \in Nat \ {0}
    BY <2>1
  <2> QED
    BY <2>1, <2>2, BacklogPops DEF Waiting
<1>2. ASSUME NEW codes, Head(backlog).code \in codes
      PROVE  1 \in Waiting(codes)
  BY <1>2, BacklogPops DEF Waiting
<1>3. ASSUME NEW codes, \A i, j \in Waiting(codes) : i = j
      PROVE  /\ \A i, j \in Waiting(codes)' : i = j
             /\ Head(backlog).code \in codes => Waiting(codes)' = {}
  <2>1. ASSUME NEW i \in Waiting(codes)', NEW j \in Waiting(codes)' PROVE i = j
    <3>1. i + 1 = j + 1
      BY <1>1, <1>3
    <3> QED
      BY <1>1, <3>1
  <2>2. ASSUME Head(backlog).code \in codes, NEW i \in Waiting(codes)' PROVE FALSE
    <3>1. i + 1 = 1
      BY <1>1, <1>2, <1>3, <2>2
    <3> QED
      BY <1>1, <3>1
  <2> QED
    BY <2>1, <2>2
<1> QED
  BY <1>1, <1>2, <1>3

LEMMA BacklogPushes ==
    ASSUME TypeOK, NEW t, NEW id, NEW code, NEW len, Calls_back(t, id, code, len)
    PROVE  /\ \A i \in 1 .. Len(backlog) : i \in 1 .. Len(backlog') /\ backlog'[i] = backlog[i]
           /\ \A i \in 1 .. Len(backlog') :
                 \/ i \in 1 .. Len(backlog)
                 \/ /\ i = Len(backlog) + 1
                    /\ backlog'[i].task = t /\ backlog'[i].code = code /\ backlog'[i].len = len
<1> DEFINE cb == [task |-> t, id |-> id, code |-> code, len |-> len]
<1>1. backlog' = Append(backlog, cb) /\ backlog \in Seq(Callback)
  BY DEF Calls_back, TypeOK, LinkTypeOK
<1> HIDE DEF cb
<1>2. /\ Len(backlog') = Len(backlog) + 1
      /\ \A i \in 1 .. Len(backlog) : backlog'[i] = backlog[i]
      /\ backlog'[Len(backlog) + 1] = cb
      /\ Len(backlog) \in Nat
  BY <1>1
<1>3. cb.task = t /\ cb.code = code /\ cb.len = len
  BY DEF cb
<1> QED
  BY <1>2, <1>3

LEMMA WaitingPushes ==
    ASSUME TypeOK, NEW t, NEW id, NEW code, NEW len, Calls_back(t, id, code, len)
    PROVE  /\ \A codes : code \notin codes => Waiting(codes)' = Waiting(codes)
           /\ \A codes : Waiting(codes) = {} => \A i, j \in Waiting(codes)' : i = j
<1>1. ASSUME NEW codes, NEW i \in Waiting(codes)'
      PROVE  \/ i \in Waiting(codes)
             \/ i = Len(backlog) + 1 /\ code \in codes
  <2>1. i \in 1 .. Len(backlog') /\ backlog'[i].code \in codes
    BY <1>1 DEF Waiting
  <2>2. CASE i \in 1 .. Len(backlog)
    BY <2>1, <2>2, BacklogPushes DEF Waiting
  <2>3. CASE i \notin 1 .. Len(backlog)
    <3>1. i = Len(backlog) + 1 /\ backlog'[i].code = code
      BY <2>1, <2>3, BacklogPushes
    <3> QED
      BY <2>1, <3>1
  <2> QED
    BY <2>2, <2>3
<1>2. ASSUME NEW codes, NEW i \in Waiting(codes)
      PROVE  i \in Waiting(codes)'
  BY <1>2, BacklogPushes DEF Waiting
<1>3. ASSUME NEW codes, code \notin codes
      PROVE  Waiting(codes)' = Waiting(codes)
  <2>1. \A i : i \in Waiting(codes)' <=> i \in Waiting(codes)
    BY <1>1, <1>2, <1>3
  <2> QED
    BY <2>1
<1>4. ASSUME NEW codes, Waiting(codes) = {}, NEW i \in Waiting(codes)', NEW j \in Waiting(codes)'
      PROVE  i = j
  <2>1. i = Len(backlog) + 1 /\ j = Len(backlog) + 1
    BY <1>1, <1>4
  <2> QED
    BY <2>1
<1> QED
  BY <1>3, <1>4

(* Steps of the server and of a mover leave the client alone. *)
LEMMA FirstTakes ==
    ASSUME TypeOK, First, NEW t \in Tasks, ServerTakes(t)
    PROVE  First'
<1>1. t = 1 /\ task = 1
  BY DEF ServerTakes, First, Alone
<1>2. /\ \A u \in Tasks : u # t => control'[u] = control[u] /\ server'[u] = server[u]
      /\ server[1] = "idle"
      /\ \/ control'[1] = "acked" /\ server'[1] = "working"
         \/ server'[1] = "idle"
  BY <1>1 DEF ServerTakes, TypeOK, LinkTypeOK, First, Served
<1>3. UNCHANGED <<listening, backlog, ends, asked, down, up, clientVars, mover>>
  BY DEF ServerTakes
<1>4. Alone' /\ Before'
  BY <1>1, <1>2, <1>3 DEF clientVars, First, Alone, Before, OpeningNow
<1>5. Served'
  BY <1>1, <1>2, <1>3 DEF clientVars, First, Served, ServerTakes, Answers, HeardAny, Waiting, Moved1
<1> QED
  BY <1>3, <1>4, <1>5 DEF clientVars, First, Carried, Complete, Told, Attached, Retrieved, Archived,
     Moved1, Moving, OpeningNow, HeardAny, Waiting, CleanCloseIsConfirmed, ClosedCleanly,
     FirstUse, Heard

LEMMA FirstTells ==
    ASSUME TypeOK, First, NEW t \in Tasks, ServerTells(t)
    PROVE  First'
<1>1. t = 1 /\ task = 1
  BY DEF ServerTells, First, Alone
<1>2. PICK code, id : code \in {"msg", "p", "s", "bad"} /\ Calls_back(1, id, code, 0)
  BY <1>1 DEF ServerTells
<1>3. UNCHANGED <<listening, control, ends, asked, down, up, clientVars, mover, server>>
  BY DEF ServerTells
<1>4. \A codes \in {{"o"}, {"w"}, {"r"}, Answers} : Waiting(codes)' = Waiting(codes)
  BY <1>2, WaitingPushes DEF Answers
<1>5. \A i \in 1 .. Len(backlog') :
         \/ i \in 1 .. Len(backlog) /\ backlog'[i] = backlog[i]
         \/ backlog'[i].task = 1 /\ backlog'[i].code # "w"
  <2>1. code # "w"
    BY <1>2
  <2> QED
    BY <1>2, <2>1, BacklogPushes
<1>6. Alone' /\ Before'
  BY <1>1, <1>3, <1>5 DEF clientVars, First, Alone, Before, OpeningNow
<1>7. Served'
  <2>1. Waiting({"o"})' = Waiting({"o"}) /\ Waiting({"w"})' = Waiting({"w"})
        /\ Waiting({"r"})' = Waiting({"r"}) /\ Waiting(Answers)' = Waiting(Answers)
    BY <1>4
  <2> QED
    BY <1>3, <1>5, <2>1 DEF clientVars, First, Served, HeardAny, Moved1
<1>8. Attached'
  BY <1>3, <1>4 DEF clientVars, First, Attached, OpeningNow, HeardAny
<1> QED
  BY <1>3, <1>6, <1>7, <1>8 DEF clientVars, First, Carried, Complete, Told, Retrieved, Archived,
     Moved1, Moving, OpeningNow, HeardAny, CleanCloseIsConfirmed, ClosedCleanly, FirstUse, Heard

LEMMA FirstDispatches ==
    ASSUME TypeOK, First, NEW t \in Tasks, ServerDispatches(t)
    PROVE  First'
<1>1. t = 1 /\ task = 1
  BY DEF ServerDispatches, First, Alone
<1>2. server[1] = "working" /\ mover[1].phase = "off" /\ ~Moved1
  BY <1>1 DEF ServerDispatches, MoverOpenForRead, MoverOpenForWrite, Moved1
<1>3. UNCHANGED <<listening, control, asked, down, up, clientVars>>
      /\ server' = [server EXCEPT ![1] = "moving"]
      /\ ends' = [ends EXCEPT ![1] = {"client", "mover"}]
  BY <1>1 DEF ServerDispatches, MoverOpenForRead, MoverOpenForWrite
<1> DEFINE Opens(code, id, len) ==
      /\ Calls_back(1, id, code, len)
      /\ \/ /\ verb = "retrieve" /\ code = "w"
            /\ mover'[1].phase = "moving" /\ mover'[1].length = len
            /\ 0 <= mover'[1].source
         \/ verb = "archive" /\ code = "r" /\ mover'[1].phase = "asking"
      /\ mover'[1].total = 0 /\ mover'[1].crcAsData = 0 /\ ~mover'[1].receiving
      /\ mover'[1].result = "none"
      /\ \A u \in Tasks : u # 1 => mover'[u] = mover[u]
<1>4. PICK code, id, len : Opens(code, id, len)
  <2>0. \A m : mover' = [mover EXCEPT ![1] = m] =>
              mover'[1] = m /\ \A u \in Tasks : u # 1 => mover'[u] = mover[u]
    BY <1>1 DEF TypeOK, MoverTypeOK
  <2>1. CASE verb = "archive" /\ MoverOpenForRead(1, ids[1])
    <3>1. mover'[1] = [NoMover EXCEPT !.phase = "asking"]
          /\ \A u \in Tasks : u # 1 => mover'[u] = mover[u]
      BY <2>0, <2>1 DEF MoverOpenForRead
    <3>2. PICK id : id = ids[1]
      OBVIOUS
    <3>3. Calls_back(1, id, "r", 0)
      BY <2>1, <3>2 DEF MoverOpenForRead
    <3> QED
      BY <2>1, <3>1, <3>3 DEF NoMover
  <2>2. ASSUME verb = "retrieve", NEW len \in Lengths, NEW source \in Lengths,
               MoverOpenForWrite(1, ids[1], len, source)
        PROVE  \E code, id, l : Opens(code, id, l)
    <3>1. mover'[1] = [NoMover EXCEPT !.phase = "moving", !.length = len, !.source = source]
          /\ \A u \in Tasks : u # 1 => mover'[u] = mover[u]
      BY <2>0, <2>2 DEF MoverOpenForWrite
    <3>2. PICK id : id = ids[1]
      OBVIOUS
    <3>3. Calls_back(1, id, "w", len)
      BY <2>2, <3>2 DEF MoverOpenForWrite
    <3>4. Opens("w", id, len)
      BY <2>2, <3>1, <3>3, LinkAssumption DEF NoMover, Lengths
    <3> QED
      BY <3>4
  <2> QED
    BY <1>1, <2>1, <2>2 DEF ServerDispatches
<1>5. Waiting(Answers) = {} /\ ~HeardAny(Answers) /\ Waiting({"o"}) = {} /\ ~HeardAny({"o"})
      /\ Waiting({"w"}) = {} /\ ~HeardAny({"w"}) /\ Waiting({"r"}) = {} /\ ~HeardAny({"r"})
  <2>1. Waiting({"o"}) = {} /\ ~HeardAny({"o"})
        /\ Waiting({"w"}) = {} /\ ~HeardAny({"w"}) /\ Waiting({"r"}) = {} /\ ~HeardAny({"r"})
    BY <1>2 DEF First, Served
  <2> QED
    BY <2>1 DEF HeardAny, Waiting, Answers
<1>6. /\ \A codes : code \notin codes => Waiting(codes)' = Waiting(codes)
      /\ \A i, j \in Waiting(Answers)' : i = j
      /\ \A i \in 1 .. Len(backlog') :
            \/ i \in 1 .. Len(backlog) /\ backlog'[i] = backlog[i]
            \/ backlog'[i].task = 1 /\ backlog'[i].code = code /\ backlog'[i].len = len
  <2>1. Calls_back(1, id, code, len)
    BY <1>4
  <2>2. \A codes : code \notin codes => Waiting(codes)' = Waiting(codes)
    BY <2>1, WaitingPushes
  <2>3. \A i, j \in Waiting(Answers)' : i = j
    BY <2>1, <1>5, WaitingPushes
  <2> QED
    BY <2>1, <2>2, <2>3, BacklogPushes
<1>7. Alone' /\ Before'
  BY <1>1, <1>3, <1>4, <1>6 DEF clientVars, First, Alone, Before, OpeningNow, TypeOK
<1>8. Served'
  <2>1. server'[1] = "moving"
    BY <1>1, <1>3 DEF TypeOK
  <2>2. /\ Waiting({"o"})' = {}
        /\ code = "w" => Waiting({"r"})' = {}
        /\ code = "r" => Waiting({"w"})' = {}
    BY <1>4, <1>5, <1>6
  <2>3. \A i \in 1 .. Len(backlog) : backlog[i].code # "w"
    BY <1>5 DEF Waiting
  <2>4. heard' = heard
    BY <1>3 DEF clientVars
  <2> QED
    BY <1>2, <1>3, <1>4, <1>5, <1>6, <2>1, <2>2, <2>3, <2>4
    DEF clientVars, First, Served, Moved1, HeardAny
<1>9. Carried'
  BY <1>1, <1>3, <1>4 DEF clientVars, First, Carried, Complete, Moved1, Moving, TypeOK, LinkTypeOK
<1>10. Attached'
  BY <1>1, <1>3 DEF clientVars, First, Attached, OpeningNow, HeardAny, TypeOK, LinkTypeOK
<1>11. Retrieved' /\ Archived'
  BY <1>1, <1>2, <1>3, <1>4, <1>5
  DEF clientVars, First, Carried, Complete, Retrieved, Archived, Moved1, Moving, HeardAny, TypeOK, ClientTypeOK
<1> QED
  BY <1>3, <1>7, <1>8, <1>9, <1>10, <1>11 DEF clientVars, First, Told,
     OpeningNow, HeardAny, CleanCloseIsConfirmed, ClosedCleanly, FirstUse, Heard

LEMMA FirstConcludes ==
    ASSUME TypeOK, First, NEW t \in Tasks, NEW code \in Verdicts, ServerConcludes(t, code)
    PROVE  First'
<1>1. t = 1 /\ task = 1
  BY DEF ServerConcludes, First, Alone
<1>2. /\ UNCHANGED <<listening, control, ends, asked, down, up, clientVars, mover>>
      /\ server' = [server EXCEPT ![1] = IF code = "o" THEN "accepted" ELSE "rejected"]
  BY <1>1 DEF ServerConcludes
<1>3. /\ server[1] = "working" \/ (server[1] = "moving" /\ mover[1].phase = "closed")
      /\ code = "o" => IF server[1] = "working" THEN verb = "retrieve"
                                                ELSE mover[1].result = "ok"
  BY <1>1 DEF ServerConcludes
<1>4. /\ \A codes \in {{"w"}, {"r"}, Answers} : Waiting(codes)' = Waiting(codes)
      /\ code = "e" => Waiting({"o"})' = Waiting({"o"})
      /\ \A i \in 1 .. Len(backlog') :
            \/ i \in 1 .. Len(backlog) /\ backlog'[i] = backlog[i]
            \/ backlog'[i].task = 1 /\ backlog'[i].code # "w"
  <2>1. CASE ~listening
    BY <2>1 DEF ServerConcludes, Waiting
  <2>2. CASE listening
    <3>1. PICK id : Calls_back(1, id, code, 0)
      BY <1>1, <2>2 DEF ServerConcludes
    <3>2. \A codes : code \notin codes => Waiting(codes)' = Waiting(codes)
      BY <3>1, WaitingPushes
    <3>3. \A i \in 1 .. Len(backlog') :
            \/ i \in 1 .. Len(backlog) /\ backlog'[i] = backlog[i]
            \/ backlog'[i].task = 1 /\ backlog'[i].code # "w"
      <4>1. code # "w"
        BY DEF Verdicts
      <4> QED
        BY <3>1, <4>1, BacklogPushes
    <3> QED
      BY <3>2, <3>3 DEF Verdicts, Answers
  <2> QED
    BY <2>1, <2>2
<1>5. Alone' /\ Before'
  BY <1>1, <1>2, <1>3, <1>4 DEF clientVars, First, Alone, Before, OpeningNow, TypeOK
<1>6. Served'
  <2>1. Waiting({"w"})' = Waiting({"w"}) /\ Waiting({"r"})' = Waiting({"r"})
        /\ Waiting(Answers)' = Waiting(Answers)
    BY <1>4
  <2>2. server'[1] = IF code = "o" THEN "accepted" ELSE "rejected"
    BY <1>1, <1>2 DEF TypeOK
  <2> QED
    BY <1>2, <1>3, <1>4, <2>1, <2>2
    DEF clientVars, First, Served, HeardAny, Moved1, Verdicts
<1>7. Attached'
  BY <1>2, <1>4 DEF clientVars, First, Attached, OpeningNow, HeardAny
<1> QED
  BY <1>2, <1>5, <1>6, <1>7 DEF clientVars, First, Carried, Complete, Told, Retrieved, Archived,
     Moved1, Moving, OpeningNow, HeardAny, CleanCloseIsConfirmed, ClosedCleanly, FirstUse, Heard

LEMMA FirstMover ==
    ASSUME TypeOK, First, NEW t \in Tasks, MoverStep(t) \/ MoverCrash(t)
    PROVE  First'
<1>0. t = 1 /\ task = 1
  BY DEF MoverStep, MoverRuns, MoverCrash, MoverDies, MoverGetsLength, MoverWrite, MoverRead,
         MoverClose, MoverFails, First, Alone
<1> DEFINE m == mover[1]
           n == mover'[1]
<1>1. 1 \in Tasks /\ m \in Mover /\ mover \in [Tasks -> Mover]
  BY <1>0 DEF TypeOK, MoverTypeOK
<1>2. Moved1 /\ Moving
  BY <1>0 DEF MoverStep, MoverRuns, MoverCrash, MoverDies, MoverGetsLength, MoverWrite, MoverRead,
         MoverClose, MoverFails, Moved1, Moving
<1>3. UNCHANGED <<listening, control, backlog, asked, clientVars, server>>
  BY DEF MoverStep, MoverRuns, MoverCrash, MoverDies, MoverGetsLength, MoverWrite, MoverRead,
         MoverClose, MoverFails, linkVars
(* What follows for the parts of the client, which no step of a mover touches. *)
<1>4. Before' /\ Told'
  <2>1. OpeningNow => UNCHANGED up
    BY <1>0, <1>3 DEF MoverStep, MoverRuns, MoverCrash, MoverDies, MoverGetsLength, MoverWrite,
       MoverRead, MoverClose, MoverFails, linkVars, First, Told
  <2> QED
    BY <1>0, <1>3, <2>1 DEF clientVars, First, Before, Told, OpeningNow, HeardAny,
       CleanCloseIsConfirmed, ClosedCleanly, FirstUse, Heard
<1>5. ASSUME Moved1', n.length = m.length \/ verb = "archive", \A u \in Tasks : u # 1 => mover'[u] = mover[u]
      PROVE  Alone' /\ Served'
  <2>1. Alone'
    BY <1>0, <1>3, <1>5 DEF clientVars, First, Alone
  <2>2. HeardAny({"o"}) => m.phase = "closed"
    BY <1>2 DEF First, Served
  <2>3. Waiting({"o"}) # {} => m.phase = "closed"
    BY <1>2 DEF First, Served
  <2>4. ~HeardAny({"o"}) /\ Waiting({"o"}) = {}
    BY <1>2, <2>2, <2>3 DEF Moving
  <2>5. Served'
    BY <1>2, <1>3, <1>5, <2>4 DEF clientVars, First, Served, HeardAny, Waiting
  <2> QED
    BY <2>1, <2>5
<1>6. ASSUME ends'[1] \in {ends[1], ends[1] \ {"mover"}}
      PROVE  Attached'
  BY <1>3, <1>6 DEF clientVars, First, Attached, OpeningNow, HeardAny, Waiting
<1>7. CASE MoverGetsLength(1)
  <2>1. /\ n.phase = "moving" /\ n.receiving /\ n.length = Head(asked[1])
        /\ n.total = m.total /\ n.crcAsData = m.crcAsData /\ n.result = m.result
        /\ \A u \in Tasks : u # 1 => mover'[u] = mover[u]
        /\ UNCHANGED linkVars
        /\ m.phase = "asking" /\ asked[1] # <<>>
    BY <1>1, <1>7 DEF MoverGetsLength, Mover
  <2>0. Head(asked[1]) \in Nat
    <3>1. asked[1] \in Seq(Lengths) /\ asked[1] # <<>>
      BY <1>1, <2>1 DEF TypeOK, LinkTypeOK
    <3> QED
      BY <3>1, HeadTailProperties, LinkAssumption DEF Lengths
  <2>2. verb = "archive"
    BY <2>1 DEF First, Carried, TypeOK, ClientTypeOK, Verbs
  <2>3. Moved1'
    BY <2>1 DEF Moved1
  <2>4. Carried'
    BY <1>1, <1>2, <1>3, <2>0, <2>1, <2>2, <2>3
    DEF linkVars, clientVars, First, Carried, Complete, Moving, Moved1, Mover, Lengths
  <2>5. Retrieved' /\ Archived'
    BY <1>1, <1>2, <1>3, <2>1, <2>2
    DEF linkVars, clientVars, First, Retrieved, Archived, Moving, HeardAny
  <2> QED
    BY <1>4, <1>5, <1>6, <2>1, <2>2, <2>3, <2>4, <2>5 DEF First, linkVars
<1>8. CASE MoverWrite(1)
  <2>1. /\ n = [m EXCEPT !.total = m.total + 1]
        /\ \A u \in Tasks : u # 1 => mover'[u] = mover[u]
        /\ UNCHANGED <<ends, up>>
        /\ m.phase = "moving" /\ ~m.receiving /\ m.total < m.source
    BY <1>1, <1>8 DEF MoverWrite
  <2>2. verb = "retrieve"
    BY <2>1 DEF First, Carried, TypeOK, ClientTypeOK, Verbs
  <2>3. /\ n.phase = m.phase /\ n.total = m.total + 1 /\ n.result = m.result
        /\ n.receiving = m.receiving /\ n.length = m.length /\ n.source = m.source
        /\ m.total \in Nat /\ m.source \in Nat /\ m.length \in Nat
    BY <1>1, <2>1 DEF Mover, Lengths
  <2>4. Moved1' /\ Moving'
    BY <2>1, <2>3 DEF Moved1, Moving
  <2>5. Carried'
    BY <1>3, <2>1, <2>2, <2>3, <2>4 DEF clientVars, First, Carried, Complete, Moving, Moved1
  <2>6. Retrieved'
    <3>1. "client" \in ends[1] /\ listening => down'[1] = down[1] + 1
      BY <1>1, <1>8 DEF MoverWrite, ClientHungUp, TypeOK, LinkTypeOK
    <3>2. down[1] \in Nat /\ got \in Nat /\ UNCHANGED clientVars /\ UNCHANGED listening
      BY <1>1, <1>3 DEF TypeOK, LinkTypeOK, ClientTypeOK
    <3>3. ~(stream = "eof" /\ HeardAny({"w"}))
      BY <2>1, <2>2 DEF First, Retrieved
    <3> QED
      BY <1>2, <2>1, <2>2, <2>3, <3>1, <3>2, <3>3 DEF clientVars, First, Retrieved, HeardAny
  <2>7. Archived'
    BY <1>3, <2>2 DEF clientVars, Archived
  <2> QED
    BY <1>4, <1>5, <1>6, <2>1, <2>3, <2>4, <2>5, <2>6, <2>7 DEF First
<1>9. CASE MoverRead(1)
  <2>0. /\ m.phase = "moving" /\ m.receiving /\ m.total < m.length /\ up[1] # <<>>
        /\ m.total \in Nat /\ m.length \in Nat /\ m.crcAsData \in Nat
        /\ UNCHANGED <<ends, down>>
    BY <1>1, <1>9 DEF MoverRead, Mover, Lengths
  <2>a. up'[1] = Tail(up[1])
    BY <1>1, <1>9 DEF MoverRead, TypeOK, LinkTypeOK
  <2>b. mover' = [mover EXCEPT ![1].total = @ + 1,
                               ![1].crcAsData = @ + (IF Head(up[1]) = "crc" THEN 1 ELSE 0)]
    BY <1>9 DEF MoverRead
  <2>c. /\ n.phase = m.phase /\ n.total = m.total + 1 /\ n.result = m.result
        /\ n.receiving = m.receiving /\ n.length = m.length
        /\ n.crcAsData = m.crcAsData + (IF Head(up[1]) = "crc" THEN 1 ELSE 0)
        /\ \A u \in Tasks : u # 1 => mover'[u] = mover[u]
    BY <1>1, <2>b DEF Mover
  <2>1. /\ n.phase = "moving" /\ n.total = m.total + 1 /\ n.result = m.result
        /\ n.receiving /\ n.length = m.length
        /\ n.crcAsData = m.crcAsData + (IF Head(up[1]) = "crc" THEN 1 ELSE 0)
        /\ \A u \in Tasks : u # 1 => mover'[u] = mover[u]
        /\ UNCHANGED <<ends, down>> /\ up'[1] = Tail(up[1]) /\ up[1] # <<>>
        /\ m.phase = "moving" /\ m.receiving /\ m.total < m.length
        /\ m.total \in Nat /\ m.length \in Nat /\ m.crcAsData \in Nat
    BY <2>0, <2>a, <2>c
  <2>2. verb = "archive"
    BY <2>1 DEF First, Carried, TypeOK, ClientTypeOK, Verbs
  <2>3. Moved1' /\ Moving'
    BY <2>1 DEF Moved1, Moving
  <2>4. Carried'
    BY <1>2, <1>3, <2>1, <2>2, <2>3 DEF clientVars, First, Carried, Complete, Moving, Moved1
  <2>5. Retrieved'
    BY <1>3, <2>2 DEF clientVars, Retrieved
  <2>6. Archived'
    <3>1. /\ up[1] \in Seq(Units) /\ Len(up[1]) \in Nat \ {0} /\ Head(up[1]) = up[1][1]
          /\ Len(up'[1]) = Len(up[1]) - 1
          /\ \A i \in 1 .. Len(up'[1]) : up'[1][i] = up[1][i + 1]
          /\ up[1][1] \in Units
      BY <1>1, <2>1, HeadTailProperties DEF TypeOK, LinkTypeOK
    <3>2. CASE stream = "none"
      BY <1>3, <3>2 DEF clientVars, Archived
    <3>3. CASE stream # "none"
      <4>1. /\ \A i \in 1 .. Len(up[1]) : up[1][i] = "data" <=> m.total + i <= sent
            /\ opened /\ HeardAny({"r"}) => m.total + Len(up[1]) = sent
            /\ (\E i \in 1 .. Len(up[1]) : up[1][i] = "crc") => ~opened
            /\ m.crcAsData > 0 => m.total > sent /\ ~opened
            /\ HeardAny({"r"}) /\ asked[1] # <<>>
        BY <1>2, <2>1, <2>2, <3>3 DEF First, Archived
      <4>2. sent \in Nat
        BY DEF TypeOK, ClientTypeOK
      <4>3. \A i \in 1 .. Len(up'[1]) :
               /\ i + 1 \in 1 .. Len(up[1]) /\ up'[1][i] = up[1][i + 1]
               /\ n.total + i = m.total + (i + 1)
        <5>1. n.total = m.total + 1 /\ m.total \in Nat
          BY <2>1
        <5>2. \A i \in 1 .. Len(up'[1]) : i \in Nat /\ i + 1 \in 1 .. Len(up[1])
          BY <3>1
        <5> HIDE DEF m, n
        <5>3. \A i \in Nat : n.total + i = m.total + (i + 1)
          BY <5>1
        <5> QED
          BY <3>1, <5>2, <5>3
      <4>4. \A i \in 1 .. Len(up'[1]) : up'[1][i] = "data" <=> n.total + i <= sent
        BY <4>1, <4>3
      <4>5. opened /\ HeardAny({"r"}) => n.total + Len(up'[1]) = sent
        BY <2>1, <3>1, <4>1
      <4>6. (\E i \in 1 .. Len(up'[1]) : up'[1][i] = "crc") => ~opened
        BY <4>1, <4>3
      <4>7. n.crcAsData > 0 => n.total > sent /\ ~opened
        <5>1. 1 \in 1 .. Len(up[1])
          BY <3>1
        <5>2. CASE up[1][1] = "crc"
          BY <2>1, <4>1, <4>2, <5>1, <5>2
        <5>3. CASE up[1][1] # "crc"
          BY <2>1, <3>1, <4>1, <4>2, <5>3
        <5> QED
          BY <5>2, <5>3
      <4>8. UNCHANGED <<asked, heard, stream, sent, opened, verb>>
        BY <1>3 DEF clientVars
      <4> QED
        BY <4>1, <4>4, <4>5, <4>6, <4>7, <4>8 DEF Archived, HeardAny
    <3> QED
      BY <3>2, <3>3
  <2> QED
    BY <1>4, <1>5, <1>6, <2>1, <2>3, <2>4, <2>5, <2>6 DEF First
<1>10. ASSUME NEW how \in {"ok", "failed"}, Shut(1, how), UNCHANGED <<down, up>>,
              how = "ok" => m.phase = "moving" /\ Complete
       PROVE  First'
  <2>1. /\ n.phase = "closed" /\ n.result = how
        /\ n.receiving = m.receiving /\ n.length = m.length /\ n.source = m.source
        /\ n.total = m.total /\ n.crcAsData = m.crcAsData
        /\ \A u \in Tasks : u # 1 => mover'[u] = mover[u]
        /\ ends'[1] = ends[1] \ {"mover"}
    BY <1>1, <1>10 DEF Shut, Mover, TypeOK, LinkTypeOK
  <2>2. Moved1' /\ ~Moving'
    BY <2>1 DEF Moved1, Moving
  <2>3. Carried'
    BY <1>2, <1>3, <1>10, <2>1, <2>2 DEF clientVars, First, Carried, Complete, Moving, Moved1
  <2>4. Retrieved'
    BY <1>2, <1>3, <1>10, <2>1 DEF clientVars, First, Retrieved, Moving, HeardAny
  <2>5. Archived'
    BY <1>3, <1>10, <2>1, <2>2 DEF clientVars, First, Archived, HeardAny
  <2> QED
    BY <1>4, <1>5, <1>6, <2>1, <2>2, <2>3, <2>4, <2>5 DEF First
<1>11. CASE MoverClose(1)
  <2>1. m.phase = "moving" /\ Moved(1)
    BY <1>11 DEF MoverClose
  <2>2. m.total \in Nat /\ m.length \in Nat /\ m.source \in Nat
    BY <1>1 DEF Mover, Lengths
  <2>3. ~BadTotal(1) => Complete
    <3>1. CASE verb = "retrieve"
      BY <2>1, <2>2, <3>1 DEF Moved, BadTotal, First, Carried, Complete
    <3>2. CASE verb = "archive"
      BY <2>1, <2>2, <3>2 DEF BadTotal, First, Carried, Complete
    <3> QED
      BY <3>1, <3>2 DEF TypeOK, ClientTypeOK, Verbs
  <2> QED
    BY <1>10, <1>11, <2>1, <2>3 DEF MoverClose
<1>12. CASE MoverFails(1) \/ MoverDies(1)
  BY <1>10, <1>12 DEF MoverFails, MoverDies
<1> QED
  BY <1>0, <1>7, <1>8, <1>9, <1>11, <1>12 DEF MoverStep, MoverCrash, MoverRuns

(* Steps of the application. *)
LEMMA FirstOpens ==
    ASSUME TypeOK, First, task' <= 1, NEW c \in Opening, NEW v, Open(c, v), UNCHANGED linkVars,
           UNCHANGED <<mover, server>>
    PROVE  First'
<1>1. /\ pc = "idle" /\ ~opened /\ opened' /\ heard' = {} /\ stream' = "none"
      /\ got' = 0 /\ sent' = 0 /\ UNCHANGED <<verb, done, socket>>
      /\ UNCHANGED <<listening, control, backlog, ends, asked, down, up>>
  BY DEF Open, linkVars
<1>2. \/ task = 0 /\ task' = 1 /\ pc' = "connect" /\ call' = c /\ result' = [call |-> "none", how |-> "ok"]
      \/ UNCHANGED <<task, pc, call>> /\ result'.how = "threw"
  BY DEF Open, NewTask, TypeOK, ClientTypeOK
<1>3. 1 \in Tasks
  BY LinkAssumption DEF Tasks
<1>4. Alone' /\ Before'
  BY <1>1, <1>2 DEF First, Alone, Before, OpeningNow
<1>5. Served'
  BY <1>1, <1>2, <1>3 DEF First, Alone, Served, HeardAny, Waiting, Moved1, TypeOK, LinkTypeOK
<1>6. Carried'
  BY <1>1 DEF First, Carried, Complete, Moved1, Moving
<1>7. Told'
  BY <1>1, <1>2 DEF First, Before, Told, OpeningNow, HeardAny, CleanCloseIsConfirmed,
     ClosedCleanly, Opening
<1>8. Attached'
  <2>1. task = 0 => Waiting(Answers) = {} /\ socket.code \notin Answers
    BY DEF First, Alone, Waiting
  <2> QED
    BY <1>1, <1>2, <2>1 DEF First, Attached, OpeningNow, HeardAny, Waiting
<1>9. Retrieved' /\ Archived'
  BY <1>1 DEF First, Retrieved, Archived, Moved1, HeardAny
<1> QED
  BY <1>4, <1>5, <1>6, <1>7, <1>8, <1>9 DEF First

LEMMA FirstReads ==
    ASSUME TypeOK, First, Read \/ ReadEnds, UNCHANGED <<mover, server>>
    PROVE  First'
<1>1. /\ opened /\ pc = "idle" /\ stream = "live" /\ stream' \in {"live", "eof", "broken"}
      /\ UNCHANGED <<listening, control, backlog, ends, asked, up>>
      /\ UNCHANGED <<verb, opened, call, pc, done, error, task, socket, result, heard, sent>>
  BY DEF Read, ReadEnds, Ready, linkVars
<1>2. HeardAny(Answers \cup Verdicts) /\ task # 0
  BY <1>1 DEF First, Told, Before
<1>3. HeardAny(Answers) <=> socket.code \in Answers
  BY <1>1 DEF First, Attached
<1>4. socket.code = "w" => /\ socket.task = 1 /\ verb = "retrieve" /\ HeardAny({"w"}) /\ Moved1
                           /\ "client" \in ends[1] /\ listening
  <2>1. ASSUME socket.code = "w" PROVE verb = "retrieve" /\ HeardAny(Answers) /\ socket.task = 1
    BY <1>3, <2>1 DEF First, Attached, Alone, Answers
  <2>2. HeardAny(Answers) => HeardAny({"w"}) \/ HeardAny({"r"})
    BY DEF HeardAny, Answers
  <2> QED
    BY <1>1, <2>1, <2>2 DEF First, Attached, Served, Alone
<1>5. Alone' /\ Before' /\ Served' /\ Attached'
  BY <1>1, <1>2 DEF First, Alone, Before, Served, Attached, OpeningNow, HeardAny, Waiting, Moved1
<1>6. Told'
  BY <1>1, <1>2 DEF First, Told, OpeningNow, HeardAny, CleanCloseIsConfirmed, ClosedCleanly,
     FirstUse, Heard
<1>7. Archived'
  BY <1>1 DEF First, Archived, HeardAny, Moving
<1>8. CASE Read
  <2>1. /\ socket.task = 1 /\ verb = "retrieve" /\ HeardAny({"w"}) /\ Moved1 /\ down[1] > 0
        /\ down' = [down EXCEPT ![1] = @ - 1] /\ got' = got + 1 /\ stream' = "live"
    BY <1>1, <1>4, <1>8 DEF Read
  <2>2. down'[1] = down[1] - 1 /\ down[1] \in Nat /\ got \in Nat
    BY <2>1, LinkAssumption DEF TypeOK, LinkTypeOK, ClientTypeOK, Tasks
  <2>3. Carried'
    BY <1>1, <2>1 DEF First, Carried, Complete, Moved1, Moving
  <2>4. Retrieved'
    BY <1>1, <2>1, <2>2 DEF First, Retrieved, Moved1, HeardAny
  <2> QED
    BY <1>5, <1>6, <1>7, <2>3, <2>4 DEF First
<1>9. CASE ReadEnds
  <2>1. UNCHANGED <<down, got>>
    BY <1>9 DEF ReadEnds, linkVars
  <2>2. Carried'
    BY <1>1, <2>1 DEF First, Carried, Complete, Moved1, Moving
  <2>3. Retrieved'
    <3>1. ASSUME verb = "retrieve", HeardAny({"w"})
          PROVE  mover[1].phase = "closed" /\ got = mover[1].total
      <4>1. HeardAny(Answers) /\ Moved1
        BY <3>1 DEF HeardAny, Answers, First, Served
      <4>2. socket.code = "w"
        BY <1>3, <3>1, <4>1 DEF First, Attached, Answers
      <4>3. down[1] = 0 /\ "mover" \notin ends[1]
        BY <1>4, <1>9, <4>2 DEF ReadEnds, MoverHungUp
      <4>4. mover[1].phase = "closed"
        <5>1. mover[1] \in Mover
          BY LinkAssumption DEF TypeOK, MoverTypeOK, Tasks
        <5> QED
          BY <4>1, <4>3, <5>1 DEF First, Carried, Complete, Moving, Moved1, Mover, Phases
      <4>5. got + down[1] = mover[1].total
        BY <1>4, <3>1, <4>2 DEF First, Retrieved
      <4> QED
        BY <4>3, <4>4, <4>5 DEF TypeOK, ClientTypeOK
    <3> QED
      BY <1>1, <2>1, <3>1 DEF First, Retrieved, Moved1, HeardAny
  <2> QED
    BY <1>5, <1>6, <1>7, <2>2, <2>3 DEF First
<1> QED
  BY <1>8, <1>9

LEMMA FirstWrites ==
    ASSUME TypeOK, First, Write, UNCHANGED <<mover, server>>
    PROVE  First'
<1>1. /\ opened /\ pc = "idle" /\ stream = "live" /\ stream' \in {"live", "broken"}
      /\ UNCHANGED <<listening, control, backlog, ends, asked, down>>
      /\ UNCHANGED <<verb, opened, call, pc, done, error, task, socket, result, heard, got>>
  BY DEF Write, Ready
<1>2. HeardAny(Answers \cup Verdicts) /\ task # 0
  BY <1>1 DEF First, Told, Before
<1>3. HeardAny(Answers) <=> socket.code \in Answers
  BY <1>1 DEF First, Attached
<1>4. Alone' /\ Before' /\ Served' /\ Attached' /\ Carried' /\ Retrieved'
  BY <1>1, <1>2 DEF First, Alone, Before, Served, Attached, Carried, Complete, Retrieved,
     OpeningNow, HeardAny, Waiting, Moved1, Moving
<1>5. Told'
  BY <1>1, <1>2 DEF First, Told, OpeningNow, HeardAny, CleanCloseIsConfirmed, ClosedCleanly,
     FirstUse, Heard
<1>6. Archived'
  <2>1. CASE verb # "archive"
    BY <1>1, <2>1 DEF Archived
  <2>2. CASE verb = "archive" /\ ~HeardAny({"r"})
    <3>1. ~HeardAny(Answers)
      BY <2>2 DEF HeardAny, Answers, First, Served
    <3>2. UNCHANGED up /\ up[1] = <<>>
      BY <1>1, <1>3, <2>2, <3>1 DEF Write, Answers, First, Archived
    <3> QED
      BY <1>1, <2>2, <3>2 DEF First, Archived, HeardAny, Moving, TypeOK, ClientTypeOK
  <2>3. CASE verb = "archive" /\ HeardAny({"r"})
    <3>1. socket.code = "r" /\ socket.task = 1
      <4>1. HeardAny(Answers)
        BY <2>3 DEF HeardAny, Answers
      <4> QED
        BY <1>3, <2>3, <4>1 DEF First, Attached, Alone, Answers
    <3>2. sent \in Nat /\ up[1] \in Seq(Units) /\ 1 \in Tasks
      BY LinkAssumption DEF TypeOK, ClientTypeOK, LinkTypeOK, Tasks
    <3>3. CASE MoverHungUp(1)
      <4>1. ~Moving
        BY <3>3 DEF First, Carried, MoverHungUp
      <4> QED
        BY <1>1, <3>1, <3>3, <4>1 DEF Write, First, Archived, HeardAny, Moving
    <3>4. CASE ~MoverHungUp(1)
      <4>1. up'[1] = Append(up[1], "data") /\ sent' = sent + 1 /\ UNCHANGED stream
        BY <3>1, <3>2, <3>4 DEF Write, TypeOK, LinkTypeOK
      <4>2. /\ Len(up'[1]) = Len(up[1]) + 1 /\ Len(up[1]) \in Nat
            /\ \A i \in 1 .. Len(up[1]) : up'[1][i] = up[1][i]
            /\ up'[1][Len(up[1]) + 1] = "data"
        BY <3>2, <4>1, AppendProperties
      <4>3. mover[1].total \in Nat /\ mover[1].crcAsData \in Nat
        BY <3>2 DEF TypeOK, MoverTypeOK, Mover
      <4>4. \A i \in 1 .. Len(up'[1]) : i \in 1 .. Len(up[1]) \/ i = Len(up[1]) + 1
        BY <4>2
      <4>5. ASSUME Moving
            PROVE  /\ \A i \in 1 .. Len(up'[1]) : up'[1][i] = "data" <=> mover[1].total + i <= sent'
                   /\ mover[1].total + Len(up'[1]) = sent'
        <5>1. mover[1].total + Len(up[1]) = sent
          BY <1>1, <2>3, <4>5 DEF First, Archived
        <5>2. \A i \in 1 .. Len(up[1]) : up[1][i] = "data"
          BY <1>1, <2>3, <3>2, <4>2, <4>3, <4>5, <5>1 DEF First, Archived
        <5>3. ASSUME NEW i \in 1 .. Len(up'[1])
              PROVE  up'[1][i] = "data" /\ mover[1].total + i <= sent'
          <6>1. up'[1][i] = "data"
            BY <4>2, <4>4, <5>2
          <6>2. i \in Nat /\ i <= Len(up[1]) + 1
            BY <4>2
          <6>3. sent' = mover[1].total + Len(up[1]) + 1
            BY <4>1, <5>1
          <6> QED
            BY <4>2, <4>3, <6>1, <6>2, <6>3
        <5> QED
          BY <4>1, <4>2, <4>3, <5>1, <5>3
      <4>6. \A i \in 1 .. Len(up'[1]) : up'[1][i] # "crc"
        BY <1>1, <2>3, <4>2, <4>4 DEF First, Archived
      <4> QED
        BY <1>1, <2>3, <4>1, <4>5, <4>6 DEF First, Archived, HeardAny, Moving
    <3> QED
      BY <3>3, <3>4
  <2> QED
    BY <2>1, <2>2, <2>3
<1> QED
  BY <1>4, <1>5, <1>6 DEF First

(* The trailer follows what is on the wire. *)
LEMMA TrailerEnds ==
    ASSUME NEW s \in Seq(Units)
    PROVE  /\ Len(s) \in Nat
           /\ \A i \in 1 .. Len(s \o CrcTrailer) :
                 \/ i \in 1 .. Len(s) /\ (s \o CrcTrailer)[i] = s[i]
                 \/ i > Len(s) /\ (s \o CrcTrailer)[i] = "crc" /\ i \in Nat
           /\ s \o CrcTrailer # <<>>
<1> DEFINE c == CrcTrailer
<1>1. c \in Seq(Units) /\ Len(c) = Trailer /\ \A j \in 1 .. Trailer : c[j] = "crc"
  BY LinkAssumption DEF CrcTrailer, Units
<1> HIDE DEF c
<1>2. /\ Len(s \o c) = Len(s) + Trailer /\ Len(s) \in Nat
      /\ \A i \in 1 .. Len(s) + Trailer :
            (s \o c)[i] = IF i <= Len(s) THEN s[i] ELSE c[i - Len(s)]
  <2>1. Len(s) \in Nat
    OBVIOUS
  <2>2. /\ Len(s \o c) = Len(s) + Len(c)
        /\ \A i \in 1 .. Len(s) + Len(c) :
              (s \o c)[i] = IF i <= Len(s) THEN s[i] ELSE c[i - Len(s)]
    BY <1>1, ConcatProperties, Zenon
  <2> QED
    BY <1>1, <2>1, <2>2
<1>3. ASSUME NEW i \in 1 .. Len(s \o c), i > Len(s)
      PROVE  (s \o c)[i] = "crc" /\ i \in Nat
  <2>1. i - Len(s) \in 1 .. Trailer /\ i \in Nat
    BY <1>2, <1>3, LinkAssumption
  <2> QED
    BY <1>1, <1>2, <1>3, <2>1
<1>4. s \o c # <<>>
  <2>1. Len(s \o c) # 0
    BY <1>2, LinkAssumption
  <2> QED
    BY <2>1
<1>5. ASSUME NEW i \in 1 .. Len(s \o c), i <= Len(s)
      PROVE  i \in 1 .. Len(s) /\ (s \o c)[i] = s[i]
  BY <1>2, <1>5, LinkAssumption
<1>6. \A i \in 1 .. Len(s \o c) : i > Len(s) \/ i <= Len(s)
  BY <1>2, LinkAssumption
<1> QED
  BY <1>2, <1>3, <1>4, <1>5, <1>6 DEF c

(* Closing: the connection is given up and the verdict awaited. *)
LEMMA FirstCleanup ==
    ASSUME TypeOK, ErrorHeld, First, task <= 1,
           NEW c \in {"close", "destroy", "destroyProtocol"}, NEW d, Cleanup(c, d), ~opened',
           \/ pc = "idle" /\ opened /\ d = done /\ c # "destroyProtocol"
           \/ pc = "unwind" /\ d = TRUE /\ c = "destroyProtocol",
           UNCHANGED <<mover, server>>
    PROVE  First'
<1>1. /\ UNCHANGED <<control, backlog, asked, down, verb, task, ids, heard, stream, got, sent>>
      /\ socket' = NoSocket /\ done' = d
      /\ socket'.code \notin Answers
  BY DEF Cleanup, NoSocket, Answers
<1>2. d = TRUE => /\ result' = [call |-> c, how |-> IF error THEN "threw" ELSE "ok"]
                  /\ pc' \in {"idle", "terminated", "unwind", "gone"} /\ call' = "none"
                  /\ c = "destroyProtocol" => pc' \in {"terminated", "gone"}
                  /\ listening' = (listening /\ pc' \notin {"gone", "terminated"})
  BY DEF Cleanup, TypeOK, ClientTypeOK
<1>3. d # TRUE => pc' = "wait" /\ call' = c /\ UNCHANGED <<listening, result>> /\ pc = "idle" /\ ~done
  BY DEF Cleanup, TypeOK, ClientTypeOK
<1>4. ~OpeningNow /\ ~OpeningNow'
  BY <1>2, <1>3 DEF OpeningNow, Opening
<1>0. 1 \in Tasks /\ done \in BOOLEAN /\ error \in BOOLEAN
  BY LinkAssumption DEF Tasks, TypeOK, ClientTypeOK
<1>5. socket.code \notin Answers => UNCHANGED <<up, ends>>
  BY DEF Cleanup, HangUp, Answers
<1>6. ends'[1] = IF socket.code \in Answers THEN ends[1] \ {"client"} ELSE ends[1]
  BY <1>0 DEF Cleanup, HangUp, Answers, First, Alone, TypeOK, LinkTypeOK
<1>7. Alone'
  BY <1>1, <1>2, <1>3 DEF First, Alone
<1>8. Before'
  <2>1. CASE task = 0
    <3>1. socket.code \notin Answers
      BY <2>1 DEF First, Alone
    <3>2. done' => pc' \in {"gone", "terminated"}
      BY <1>1, <1>2, <2>1 DEF First, Before
    <3> QED
      BY <1>1, <1>4, <1>5, <2>1, <3>1, <3>2 DEF First, Before
  <2>2. CASE task # 0
    BY <1>1, <2>2 DEF Before
  <2> QED
    BY <2>1, <2>2
<1>9. Served'
  <2>1. pc' # "connect"
    BY <1>0, <1>2, <1>3
  <2> QED
    BY <1>1, <2>1 DEF First, Served, HeardAny, Waiting, Moved1
<1>10. Carried'
  BY <1>1, <1>6 DEF First, Carried, Complete, Moved1, Moving
<1>11. Told'
  <2>1. done' <=> d = TRUE
    BY <1>0, <1>1
  <2>2. HeardAny(Verdicts) => done'
    BY <2>1 DEF First, Told
  <2>3. d = TRUE => \/ HeardAny(Verdicts)
                    \/ stream = "none"
                    \/ pc' \in {"gone", "terminated"}
    BY <1>2 DEF First, Told
  <2>4. pc' = "wait" => ~done'
    BY <1>0, <1>1, <1>2, <1>3
  <2>5. CleanCloseIsConfirmed'
    <3>1. CASE d = TRUE /\ c = "close" /\ stream # "none" /\ ~error
      <4>1. HeardAny(Verdicts) /\ ~Heard("e")
        BY <3>1 DEF First, Told, ErrorHeld
      <4>2. Heard("o")
        BY <4>1 DEF HeardAny, Verdicts, Heard
      <4> QED
        BY <1>1, <4>2 DEF CleanCloseIsConfirmed, Heard
    <3>2. CASE d = TRUE /\ ~(c = "close" /\ stream # "none" /\ ~error)
      BY <1>1, <1>2, <3>2 DEF CleanCloseIsConfirmed, ClosedCleanly
    <3>3. CASE d # TRUE
      BY <1>1, <1>3, <3>3 DEF First, Told, CleanCloseIsConfirmed, ClosedCleanly, Heard, FirstUse
    <3> QED
      BY <3>1, <3>2, <3>3
  <2> QED
    BY <1>1, <1>4, <2>2, <2>3, <2>4, <2>5 DEF First, Told, HeardAny
<1>12. Attached'
  BY <1>1, <1>4 DEF First, Attached, NoSocket
<1>13. Retrieved'
  <2>1. verb = "retrieve" /\ "client" \in ends'[1] => got = 0
    <3>1. ASSUME verb = "retrieve", "client" \in ends'[1], got > 0 PROVE FALSE
      <4>1. stream # "none" /\ HeardAny(Answers) /\ "client" \in ends[1]
        BY <1>6, <3>1 DEF First, Retrieved, HeardAny, Answers
      <4>2. opened
        BY <3>1, <4>1 DEF First, Retrieved
      <4> QED
        BY <1>6, <3>1, <4>1, <4>2 DEF First, Attached
    <3> QED
      BY <3>1 DEF TypeOK, ClientTypeOK
  <2>2. Moved1' = Moved1 /\ HeardAny({"w"})' = HeardAny({"w"})
    BY <1>1 DEF Moved1, HeardAny
  <2>3. "client" \in ends'[1] => "client" \in ends[1]
    BY <1>6
  <2>4. listening' => listening
    BY <1>0, <1>2, <1>3
  <2> QED
    BY <1>1, <2>1, <2>2, <2>3, <2>4 DEF First, Retrieved
<1>14. Archived'
  <2>1. CASE UNCHANGED up
    BY <1>1, <2>1 DEF First, Archived, HeardAny, Moving
  <2>2. CASE verb = "archive" /\ stream # "none" /\ ~UNCHANGED up
    <3>1. /\ socket.code = "r" /\ socket.task = 1
          /\ up' = [up EXCEPT ![1] = @ \o CrcTrailer]
      BY <2>2 DEF Cleanup, First, Alone, Answers
    <3>2. opened /\ HeardAny(Answers)
      BY <2>2, <3>1 DEF First, Attached, Answers
    <3>3. HeardAny({"r"})
      BY <2>2, <3>2 DEF HeardAny, Answers, First, Served
    <3>4. up[1] \in Seq(Units) /\ CrcTrailer \in Seq({"crc"})
      BY <1>0, LinkAssumption DEF TypeOK, LinkTypeOK, CrcTrailer
    <3>5. up'[1] = up[1] \o CrcTrailer
      BY <1>0, <3>1 DEF TypeOK, LinkTypeOK
    <3>6. /\ Len(up[1]) \in Nat
          /\ \A i \in 1 .. Len(up'[1]) :
                \/ i \in 1 .. Len(up[1]) /\ up'[1][i] = up[1][i]
                \/ i > Len(up[1]) /\ up'[1][i] = "crc" /\ i \in Nat
          /\ up'[1] # <<>>
      BY <3>4, <3>5, TrailerEnds
    <3>7. mover[1].total \in Nat /\ sent \in Nat
      BY <1>0 DEF TypeOK, ClientTypeOK, MoverTypeOK, Mover
    <3>8. ASSUME Moving, NEW i \in 1 .. Len(up'[1])
          PROVE  up'[1][i] = "data" <=> mover[1].total + i <= sent
      <4>1. mover[1].total + Len(up[1]) = sent
        BY <2>2, <3>2, <3>3, <3>8 DEF First, Archived
      <4>2. CASE i \in 1 .. Len(up[1])
        BY <2>2, <3>6, <3>8, <4>2 DEF First, Archived
      <4>3. CASE i > Len(up[1])
        BY <3>6, <3>7, <3>8, <4>1, <4>3
      <4> QED
        BY <3>6, <3>8, <4>2, <4>3
    <3> QED
      BY <1>1, <2>2, <3>2, <3>3, <3>6, <3>8 DEF First, Archived, HeardAny, Moving
  <2>3. CASE verb # "archive" \/ stream = "none"
    BY <1>1, <2>3 DEF Archived
  <2> QED
    BY <2>1, <2>2, <2>3
<1> QED
  BY <1>7, <1>8, <1>9, <1>10, <1>11, <1>12, <1>13, <1>14 DEF First

(* Steps of the client's own calls: what accepting a callback changes. *)
LEMMA FirstAccepts ==
    ASSUME TypeOK, First, Accept, task <= 1, UNCHANGED <<mover, server>>,
           NEW code, Head(backlog).code = code,
           heard' = heard \/ heard' = heard \cup {[task |-> Head(backlog).task, code |-> code,
                                                   len |-> Head(backlog).len]},
           \/ UNCHANGED asked
           \/ \E l \in Lengths : asked' = [asked EXCEPT ![1] = Append(@, l)],
           pc' # "connect", listening' <=> pc' \notin {"gone", "terminated"}
    PROVE  /\ Alone' /\ Before' /\ Served' /\ Carried'
           /\ task = 1 /\ task' = 1 /\ socket'.code = code /\ pc = "wait"
           /\ ends'[1] = IF socket.code \in Answers THEN ends[1] \ {"client"} ELSE ends[1]
           /\ code \in Answers => Waiting(Answers) # {}
           /\ code \in Answers => Waiting(Answers)' = {}
           /\ Waiting(Answers)' # {} => Waiting(Answers) # {}
           /\ code = "w" => verb = "retrieve" /\ Moved1
           /\ code = "r" => verb = "archive" /\ Moved1
<1>1. /\ pc = "wait" /\ backlog # <<>> /\ 1 \in Tasks
      /\ socket' = [task |-> Head(backlog).task, code |-> Head(backlog).code]
      /\ UNCHANGED <<control, down, up, verb, opened, task, ids, got, sent>>
  BY LinkAssumption DEF Accept, Tasks
<1>2. 1 \in 1 .. Len(backlog) /\ Head(backlog) = backlog[1]
  BY BacklogPops
<1>3. task = 1 /\ Head(backlog).task = 1
  BY <1>2 DEF First, Alone
<1>4. \A codes : code \in codes => Waiting(codes) # {}
  BY WaitingPops
<1>5. /\ Waiting(Answers)' # {} => Waiting(Answers) # {}
      /\ code \in Answers => Waiting(Answers)' = {}
      /\ \A i, j \in Waiting(Answers)' : i = j
      /\ Waiting({"o"})' # {} => Waiting({"o"}) # {}
      /\ Waiting({"w"})' # {} => Waiting({"w"}) # {}
      /\ Waiting({"r"})' # {} => Waiting({"r"}) # {}
  <2>1. \A i, j \in Waiting(Answers) : i = j
    BY DEF First, Served
  <2> QED
    BY <2>1, WaitingPops
<1>6. /\ code = "w" => verb = "retrieve" /\ Moved1 /\ Head(backlog).len = mover[1].length
      /\ code = "r" => verb = "archive" /\ Moved1
      /\ code = "o" => Waiting({"o"}) # {}
  BY <1>2, <1>4 DEF First, Served
<1>7. ends'[1] = IF socket.code \in Answers THEN ends[1] \ {"client"} ELSE ends[1]
  BY <1>1 DEF Accept, HangUp, Answers, First, Alone, TypeOK, LinkTypeOK
<1>8. \A i \in 1 .. Len(backlog') : \E k \in 1 .. Len(backlog) : backlog'[i] = backlog[k]
  BY BacklogPops
<1>9. Alone' /\ Before'
  BY <1>1, <1>3, <1>8 DEF First, Alone, Before
<1>10. Served'
  <2>1. \A codes : HeardAny(codes)' => HeardAny(codes) \/ code \in codes
    BY DEF HeardAny
  <2>2. \A h \in heard' : h.code = "w" => h.len = mover[1].length
    BY <1>6 DEF First, Served
  <2>3. HeardAny(Answers)' => Waiting(Answers)' = {}
    BY <1>5, <2>1 DEF First, Served
  <2>4. /\ HeardAny({"o"})' => HeardAny({"o"}) \/ code = "o"
        /\ HeardAny({"w"})' => HeardAny({"w"}) \/ code = "w"
        /\ HeardAny({"r"})' => HeardAny({"r"}) \/ code = "r"
    BY <2>1
  <2>5. \A i \in 1 .. Len(backlog') : backlog'[i].code = "w" => backlog'[i].len = mover[1].length
    BY <1>8 DEF First, Served
  <2> QED
    BY <1>1, <1>5, <1>6, <2>2, <2>3, <2>4, <2>5 DEF First, Served, Moved1
<1>11. Carried'
  <2>1. asked[1] # <<>> => asked'[1] # <<>> /\ Head(asked'[1]) = Head(asked[1])
    <3>1. asked[1] \in Seq(Lengths)
      BY <1>1 DEF TypeOK, LinkTypeOK
    <3>2. \A l \in Lengths : asked[1] # <<>> =>
             Append(asked[1], l) # <<>> /\ Head(Append(asked[1], l)) = Head(asked[1])
      BY <3>1
    <3>3. asked'[1] = asked[1] \/ \E l \in Lengths : asked'[1] = Append(asked[1], l)
      BY <1>1 DEF TypeOK, LinkTypeOK
    <3> QED
      BY <3>2, <3>3
  <2>2. "mover" \in ends[1] => "mover" \in ends'[1]
    BY <1>7
  <2> QED
    BY <1>1, <2>1, <2>2 DEF First, Carried, Complete, Moved1, Moving
<1> QED
  BY <1>1, <1>3, <1>4, <1>5, <1>6, <1>7, <1>9, <1>10, <1>11 DEF Moved1

(* While the client waits nothing was heard of the end of the task; it waits
   for the open, or in cleanup(), when the answer of a mover was heard. *)
LEMMA WhileWaiting ==
    ASSUME TypeOK, First, Accept, NEW code, Head(backlog).code = code
    PROVE  /\ ~done /\ ~HeardAny(Verdicts)
           /\ call \in Opening => /\ ~HeardAny(Answers) /\ stream = "none" /\ got = 0 /\ sent = 0
                                  /\ asked[1] = <<>> /\ up[1] = <<>> /\ opened
                                  /\ socket.code \notin Answers
                                  /\ Waiting(Answers) # {} => "client" \in ends[1]
           /\ call \notin Opening => ~opened
           /\ call \notin Opening /\ stream # "none" => code \notin Answers
<1>1. pc = "wait"
  BY DEF Accept
<1>2. ~done /\ ~HeardAny(Verdicts)
  BY <1>1 DEF First, Told
<1>3. ASSUME call \notin Opening, stream # "none" PROVE code \notin Answers
  <2>1. HeardAny(Answers)
    BY <1>2, <1>3 DEF First, Told, HeardAny
  <2> QED
    BY <2>1, WaitingPops DEF First, Served
<1>4. call \in Opening => ~HeardAny(Answers)
  BY <1>1 DEF First, Told, OpeningNow, HeardAny
<1> QED
  BY <1>1, <1>2, <1>3, <1>4 DEF First, Told, Attached, OpeningNow

LEMMA FirstHears ==
    ASSUME TypeOK, First, ClientHears, task <= 1, UNCHANGED <<mover, server>>
    PROVE  First'
<1>0. Accept
  BY DEF ClientHears, HearOK, HearError, HearRead, HearWrite, HearMessage,
         HearUnsupported, HearStranger, Hear
<1>1. /\ pc = "wait" /\ listening /\ UNCHANGED <<verb, opened, down, up, got, sent, task>>
      /\ 1 \in Tasks /\ Head(backlog).task = 1
  <2>1. 1 \in 1 .. Len(backlog) /\ Head(backlog) = backlog[1]
    BY <1>0, BacklogPops
  <2> QED
    BY <1>0, <2>1, LinkAssumption DEF Accept, First, Alone, Tasks
<1>2. PICK code : code = Head(backlog).code
  OBVIOUS
<1> DEFINE Added == heard \cup {[task |-> Head(backlog).task, code |-> code,
                                len |-> Head(backlog).len]}
<1>3. \A codes : /\ heard' = Added => (HeardAny(codes)' <=> HeardAny(codes) \/ code \in codes)
                 /\ heard' = heard => (HeardAny(codes)' <=> HeardAny(codes))
  <2>1. ASSUME NEW codes, heard' = Added
        PROVE  HeardAny(codes)' <=> HeardAny(codes) \/ code \in codes
    <3>1. HeardAny(codes)' => HeardAny(codes) \/ code \in codes
      BY <2>1 DEF HeardAny
    <3>2. HeardAny(codes) => HeardAny(codes)'
      BY <2>1 DEF HeardAny
    <3>3. code \in codes => HeardAny(codes)'
      <4> DEFINE new == [task |-> Head(backlog).task, code |-> code, len |-> Head(backlog).len]
      <4>1. new \in heard' /\ new.code = code
        BY <2>1
      <4> QED
        BY <4>1 DEF HeardAny
    <3> QED
      BY <3>1, <3>2, <3>3
  <2>2. ASSUME NEW codes, heard' = heard
        PROVE  HeardAny(codes)' <=> HeardAny(codes)
    BY <2>2 DEF HeardAny
  <2> QED
    BY <2>1, <2>2
<1>w. /\ ~done /\ ~HeardAny(Verdicts)
      /\ call \in Opening => /\ ~HeardAny(Answers) /\ stream = "none" /\ got = 0 /\ sent = 0
                             /\ asked[1] = <<>> /\ up[1] = <<>> /\ opened
                             /\ socket.code \notin Answers
                             /\ Waiting(Answers) # {} => "client" \in ends[1]
      /\ call \notin Opening => ~opened
      /\ call \notin Opening /\ stream # "none" => code \notin Answers
  BY <1>0, <1>2, WhileWaiting
(* Messages, pings and statistics: the client goes on waiting. *)
<1>4. CASE HearMessage
  <2>1. /\ heard' = Added /\ code \in {"msg", "p", "s"}
        /\ UNCHANGED <<listening, asked, call, pc, done, result, stream>>
    BY <1>2, <1>4 DEF HearMessage, Hear
  <2>2. /\ Alone' /\ Before' /\ Served' /\ Carried'
        /\ socket'.code = code
        /\ ends'[1] = IF socket.code \in Answers THEN ends[1] \ {"client"} ELSE ends[1]
        /\ Waiting(Answers)' # {} => Waiting(Answers) # {}
    BY <1>0, <1>1, <1>2, <2>1, FirstAccepts
  <2>3. /\ HeardAny(Answers)' <=> HeardAny(Answers)
        /\ HeardAny(Verdicts)' <=> HeardAny(Verdicts)
        /\ HeardAny(Answers \cup Verdicts)' <=> HeardAny(Answers \cup Verdicts)
        /\ HeardAny({"w"})' <=> HeardAny({"w"})
        /\ HeardAny({"r"})' <=> HeardAny({"r"})
    BY <1>3, <2>1 DEF Answers, Verdicts
  <2>4. Told'
    <3>1. CleanCloseIsConfirmed'
      BY <1>1, <2>1 DEF First, Told, CleanCloseIsConfirmed, ClosedCleanly, FirstUse, Heard
    <3> QED
      BY <1>1, <2>1, <2>3, <3>1 DEF First, Told, OpeningNow
  <2>5. Attached'
    BY <1>1, <1>w, <2>1, <2>2 DEF Attached, OpeningNow, Answers
  <2>6. Retrieved' /\ Archived'
    BY <1>1, <2>1, <2>2, <2>3 DEF First, Retrieved, Archived, Moved1, Moving
  <2> QED
    BY <2>2, <2>4, <2>5, <2>6 DEF First
(* Every other callback ends the call. *)
<1>5. CASE ~HearMessage
  <2>1. PICK how \in {"ok", "threw"} : Leave(how)
    BY <1>5 DEF ClientHears, HearOK, HearError, HearRead, HearWrite, HearUnsupported,
       HearStranger, WaitReturns, WaitThrows, TypeOK, ClientTypeOK
  <2>2. /\ result' = [call |-> call, how |-> how]
        /\ pc' \in {"idle", "unwind", "terminated"}
        /\ pc' = "unwind" => call = "destroy"
        /\ call \in Opening => pc' = "idle"
        /\ listening' <=> pc' \notin {"gone", "terminated"}
        /\ stream' = IF call \in Opening /\ how = "ok" THEN "live" ELSE stream
    BY <1>1, <2>1 DEF Leave, Opening
  <2>3. PICK took \in BOOLEAN :
           /\ heard' = IF took THEN Added ELSE heard
           /\ how = "threw" \/ (took /\ code \in Answers \cup Verdicts)
           /\ took /\ code \in Verdicts <=> done'
           /\ IF took /\ code = "r" THEN asked' = [asked EXCEPT ![1] = Append(@, length)]
                                   ELSE UNCHANGED asked
           /\ took /\ code = "e" /\ call \notin Opening => how = "threw"
    <3>1. CASE HearOK \/ HearError
      BY <1>2, <1>w, <2>1, <3>1
      DEF HearOK, HearError, Hear, WaitReturns, Leave, Verdicts, Answers
    <3>2. CASE HearRead
      BY <1>1, <1>2, <1>w, <2>1, <3>2 DEF HearRead, Hear, Verdicts, Answers
    <3>5. CASE HearWrite
      BY <1>1, <1>2, <1>w, <2>1, <3>5 DEF HearWrite, Hear, Verdicts, Answers
    <3>3. CASE HearUnsupported
      <4>1. how = "threw"
        BY <2>1, <3>3 DEF HearUnsupported, WaitThrows, Leave
      <4> QED
        BY <1>2, <1>w, <3>3, <4>1 DEF HearUnsupported, Hear, Verdicts
    <3>4. CASE HearStranger
      <4>1. how = "threw"
        BY <2>1, <3>4 DEF HearStranger, WaitThrows, Leave
      <4> QED
        BY <1>2, <1>w, <3>4, <4>1 DEF HearStranger
    <3> QED
      BY <1>5, <3>1, <3>2, <3>3, <3>4, <3>5 DEF ClientHears
  <2>4. \A codes : HeardAny(codes)' <=> HeardAny(codes) \/ (took /\ code \in codes)
    BY <1>3, <2>3
  <2>5. /\ Alone' /\ Before' /\ Served' /\ Carried'
        /\ socket'.code = code
        /\ ends'[1] = IF socket.code \in Answers THEN ends[1] \ {"client"} ELSE ends[1]
        /\ code \in Answers => Waiting(Answers) # {}
        /\ code = "w" => verb = "retrieve" /\ Moved1
        /\ code = "r" => verb = "archive" /\ Moved1
    <3>1. \/ UNCHANGED asked
          \/ \E l \in Lengths : asked' = [asked EXCEPT ![1] = Append(@, l)]
      BY <2>3 DEF TypeOK, ClientTypeOK
    <3>2. \/ heard' = heard
          \/ heard' = Added
      BY <2>3
    <3>3. pc' # "connect"
      BY <2>2
    <3> QED
      BY <1>0, <1>1, <1>2, <2>2, <3>1, <3>2, <3>3, FirstAccepts
  <2>6. /\ ~OpeningNow' /\ pc' # "wait"
        /\ pc' = "unwind" => ~opened
        /\ stream' # "none" => HeardAny(Answers \cup Verdicts)'
    <3>1. HeardAny(Answers \cup Verdicts) => HeardAny(Answers \cup Verdicts)'
      BY <2>4
    <3>2. stream # "none" => HeardAny(Answers \cup Verdicts)
      BY DEF First, Told
    <3>3. how = "ok" => HeardAny(Answers \cup Verdicts)'
      BY <2>3, <2>4
    <3>4. pc' = "unwind" => ~opened
      BY <1>w, <2>2 DEF Opening
    <3> QED
      BY <2>2, <3>1, <3>2, <3>3, <3>4 DEF OpeningNow
  <2>7. Told'
    <3>1. CleanCloseIsConfirmed'
      <4>1. ASSUME ClosedCleanly', stream' # "none" PROVE took /\ code = "o"
        BY <1>w, <2>2, <2>3, <4>1 DEF ClosedCleanly, Opening, Verdicts
      <4>2. HeardAny({"o"})' => Heard("o")'
        BY DEF HeardAny, Heard
      <4> QED
        BY <2>4, <4>1, <4>2 DEF CleanCloseIsConfirmed
    <3> QED
      BY <1>1, <1>w, <2>3, <2>4, <2>6, <3>1 DEF Told
  <2>8. Attached'
    <3>1. opened' /\ stream' # "none" => call \in Opening /\ how = "ok" /\ took /\ pc' = "idle"
      BY <1>1, <1>w, <2>2, <2>3
    <3>2. ~opened' /\ stream' # "none" => code \notin Answers
      BY <1>1, <1>w, <2>2
    <3> QED
      BY <1>1, <1>w, <2>4, <2>5, <2>6, <3>1, <3>2 DEF Attached
  <2>9. Retrieved'
    <3>1. stream' = "eof" => stream = "eof" /\ call \notin Opening /\ code \notin Answers
      BY <1>w, <2>2
    <3>2. stream' = "none" => stream = "none"
      BY <2>2
    <3>3. HeardAny({"w"}) => HeardAny({"w"})'
      BY <2>4
    <3>4. code \notin Answers => (HeardAny({"w"})' <=> HeardAny({"w"}))
      BY <2>4 DEF Answers
    <3>5. "client" \in ends'[1] => "client" \in ends[1]
      BY <2>5
    <3> QED
      BY <1>1, <3>1, <3>2, <3>3, <3>4, <3>5 DEF First, Retrieved, Moved1
  <2>10. Archived'
    <3>1. CASE call \in Opening
      <4>1. asked'[1] # <<>> <=> HeardAny({"r"})'
        <5>1. ~HeardAny({"r"})
          BY <1>w, <3>1 DEF HeardAny, Answers
        <5>2. asked \in [Tasks -> Seq(Lengths)]
          BY DEF TypeOK, LinkTypeOK
        <5>3. Append(<<>>, length) # <<>>
          OBVIOUS
        <5> QED
          BY <1>1, <1>w, <2>3, <2>4, <3>1, <5>1, <5>2, <5>3
      <4>2. verb = "archive" => mover[1].total = 0 /\ mover[1].crcAsData = 0
        BY <1>w, <3>1 DEF First, Carried, Complete
      <4> QED
        BY <1>1, <1>w, <3>1, <4>1, <4>2 DEF Archived, Moving
    <3>2. CASE call \notin Opening /\ stream # "none"
      <4>1. (HeardAny({"r"})' <=> HeardAny({"r"})) /\ UNCHANGED <<asked, stream>>
        BY <1>w, <2>2, <2>3, <2>4, <3>2 DEF Answers
      <4> QED
        BY <1>1, <4>1 DEF First, Archived, Moving
    <3>3. CASE call \notin Opening /\ stream = "none"
      BY <2>2, <3>3 DEF Archived
    <3> QED
      BY <3>1, <3>2, <3>3
  <2> QED
    BY <2>5, <2>7, <2>8, <2>9, <2>10 DEF First
<1> QED
  BY <1>4, <1>5

LEMMA FirstConnects ==
    ASSUME TypeOK, First, task <= 1, SendTask \/ OpenFails \/ Acknowledged,
           UNCHANGED <<mover, server>>
    PROVE  First'
<1>0. 1 \in Tasks
  BY LinkAssumption DEF Tasks
<1>1. OpeningNow /\ pc \in {"connect", "ack"} /\ task = 1
  <2>1. pc \in {"connect", "ack"}
    BY DEF SendTask, OpenFails, Acknowledged
  <2> QED
    BY <2>1 DEF OpeningNow, First, Before, TypeOK, ClientTypeOK
<1>2. /\ UNCHANGED <<backlog, ends, asked, down, up, verb, opened, done, task, socket, heard, got, sent>>
      /\ stream = "none" /\ opened /\ call \in Opening /\ listening
      /\ ~HeardAny(Answers \cup Verdicts) /\ ~done
  BY <1>1 DEF SendTask, OpenFails, Acknowledged, WaitThrows, linkVars, First, Told, Alone, HeardAny,
     OpeningNow
<1>3. \/ /\ SendTask \/ Acknowledged
         /\ UNCHANGED <<call, stream, listening, result>> /\ pc' \in {"ack", "wait"}
      \/ /\ OpenFails /\ UNCHANGED stream
         /\ pc' = "idle" /\ result' = [call |-> call, how |-> "threw"] /\ listening'
  BY <1>2 DEF SendTask, OpenFails, Acknowledged, WaitThrows, Leave, linkVars, Opening
<1>4. \/ UNCHANGED control
      \/ control' = [control EXCEPT ![1] = "tasked"] /\ control[1] = "none" /\ server[1] = "idle"
  <2>1. CASE SendTask
    BY <1>1, <2>1 DEF SendTask, First, Served
  <2>2. CASE OpenFails \/ Acknowledged
    BY <2>2 DEF OpenFails, Acknowledged, linkVars
  <2> QED
    BY <2>1, <2>2
<1>5. Alone' /\ Before'
  BY <1>0, <1>1, <1>2, <1>3, <1>4 DEF First, Alone, Before, TypeOK, LinkTypeOK
<1>6. Served'
  <2>1. pc' # "connect"
    BY <1>3
  <2> QED
    BY <1>0, <1>2, <1>4, <2>1 DEF First, Served, HeardAny, Waiting, Moved1, TypeOK, LinkTypeOK
<1>7. Carried'
  BY <1>2 DEF First, Carried, Complete, Moved1, Moving
<1>8. Told'
  BY <1>1, <1>2, <1>3 DEF First, Told, OpeningNow, HeardAny, CleanCloseIsConfirmed, ClosedCleanly,
     Opening
<1>9. Attached'
  BY <1>1, <1>2, <1>3 DEF First, Attached, OpeningNow, HeardAny, Waiting
<1>10. Retrieved' /\ Archived'
  BY <1>2, <1>3 DEF First, Retrieved, Archived, Moved1, HeardAny
<1> QED
  BY <1>5, <1>6, <1>7, <1>8, <1>9, <1>10 DEF First

LEMMA FirstClient ==
    ASSUME TypeOK, ErrorHeld, First, task <= 1, task' <= 1, ClientStep
    PROVE  First'
<1>0. UNCHANGED <<mover, server>>
  BY DEF ClientStep
<1>1. CASE OpenForRead \/ \E size \in Lengths : OpenForWrite(size)
  BY <1>0, <1>1, FirstOpens DEF OpenForRead, OpenForWrite, Opening
<1>2. CASE Read \/ ReadEnds
  BY <1>0, <1>2, FirstReads
<1>3. CASE Write
  BY <1>0, <1>3, FirstWrites
<1>4. CASE Close
  <2>1. PICK d : d = done
    OBVIOUS
  <2> QED
    BY <1>0, <1>4, <2>1, FirstCleanup DEF Close
<1>5. CASE Destroy /\ opened
  <2>1. PICK d : d = done
    OBVIOUS
  <2> QED
    BY <1>0, <1>5, <2>1, FirstCleanup DEF Destroy
<1>6. CASE Destroy /\ ~opened
  <2>1. /\ pc' = "unwind" /\ pc = "idle" /\ UNCHANGED linkVars /\ ~opened' /\ ~opened
        /\ UNCHANGED <<verb, done, error, task, ids, socket, result, heard, stream, got, sent>>
    BY <1>6 DEF Destroy
  <2>2. Alone' /\ Before' /\ Served' /\ Carried'
    BY <1>0, <2>1 DEF linkVars, First, Alone, Before, Served, Carried, Complete, OpeningNow, HeardAny,
       Waiting, Moved1, Moving
  <2>3. Told'
    BY <2>1 DEF First, Told, OpeningNow, HeardAny, CleanCloseIsConfirmed, ClosedCleanly,
       FirstUse, Heard
  <2>4. Attached' /\ Retrieved' /\ Archived'
    BY <1>0, <2>1 DEF linkVars, First, Attached, Retrieved, Archived, OpeningNow, HeardAny,
       Waiting, Moved1, Moving
  <2> QED
    BY <2>2, <2>3, <2>4 DEF First
<1>7. CASE DestroyProtocol
  <2>1. pc = "unwind" /\ ~opened' /\ Cleanup("destroyProtocol", TRUE)
    BY <1>7 DEF DestroyProtocol, First, Told
  <2> QED
    BY <1>0, <2>1, FirstCleanup
<1>8. CASE SendTask \/ OpenFails \/ Acknowledged
  BY <1>0, <1>8, FirstConnects
<1>9. CASE ClientHears
  BY <1>0, <1>9, FirstHears
<1> QED
  BY <1>1, <1>2, <1>3, <1>4, <1>5, <1>6, <1>7, <1>8, <1>9
  DEF ClientStep, ClientNext, AppActs, ClientRuns

LEMMA FirstStutter == First /\ UNCHANGED vars => First'
<1> SUFFICES ASSUME First, UNCHANGED vars PROVE First'
  OBVIOUS
<1>1. Alone' /\ Before' /\ Served' /\ Carried'
  BY DEF vars, linkVars, clientVars, First, Alone, Before, Served, Carried, Complete, OpeningNow, HeardAny,
     Waiting, Moved1, Moving
<1>2. Told' /\ Attached' /\ Retrieved' /\ Archived'
  BY DEF vars, linkVars, clientVars, First, Told, Attached, Retrieved, Archived, OpeningNow,
     HeardAny, Waiting, Moved1, Moving, CleanCloseIsConfirmed, ClosedCleanly, FirstUse, Heard
<1> QED
  BY <1>1, <1>2 DEF First

(* A handle never goes back to an earlier task. *)
LEMMA TaskGrows == TypeOK /\ [Next]_vars => task <= task'
<1> SUFFICES ASSUME TypeOK, [Next]_vars PROVE task <= task'
  OBVIOUS
<1>0. task \in Nat
  BY DEF TypeOK, ClientTypeOK
<1>1. CASE ClientStep
  <2>1. UNCHANGED task \/ task' = task + 1
    BY <1>1 DEF ClientStep, ClientNext, ClientRuns, AppActs, OpenForRead, OpenForWrite, Open, NewTask,
       Read, ReadEnds, Write, Close, Destroy, DestroyProtocol, Cleanup, SendTask, OpenFails,
       Acknowledged, ClientHears, HearOK, HearError, HearRead, HearWrite, HearMessage,
       HearUnsupported, HearStranger, Hear, Accept
  <2> QED
    BY <1>0, <2>1
<1>2. ASSUME NEW t \in Tasks, ServerRuns(t) \/ MoverStep(t) \/ MoverCrash(t) PROVE UNCHANGED task
  BY <1>2 DEF ServerRuns, ServerTakes, ServerTells, ServerDispatches, ServerConcludes, MoverStep,
     MoverCrash, clientVars
<1>3. CASE UNCHANGED vars
  BY <1>0, <1>3 DEF vars, clientVars
<1> QED
  BY <1>0, <1>1, <1>2, <1>3 DEF Next, Over

LEMMA FirstNext == TypeOK /\ ErrorHeld /\ FirstTask /\ [Next]_vars => FirstTask'
<1> SUFFICES ASSUME TypeOK, ErrorHeld, FirstTask, [Next]_vars, task' <= 1
             PROVE  First'
  BY DEF FirstTask
<1>0. First /\ task <= 1
  BY TaskGrows, TypeNext DEF FirstTask, TypeOK, ClientTypeOK
<1>1. CASE ClientStep
  BY <1>0, <1>1, FirstClient
<1>2. ASSUME NEW t \in Tasks, ServerRuns(t) PROVE First'
  BY <1>0, <1>2, FirstTakes, FirstTells, FirstDispatches, FirstConcludes DEF ServerRuns, Verdicts
<1>3. ASSUME NEW t \in Tasks, MoverStep(t) \/ MoverCrash(t) PROVE First'
  BY <1>0, <1>3, FirstMover
<1>4. CASE UNCHANGED vars
  BY <1>0, <1>4, FirstStutter
<1> QED
  BY <1>1, <1>2, <1>3, <1>4 DEF Next, Over

LEMMA FirstAlways == Spec => [](TypeOK /\ ErrorHeld /\ FirstTask)
BY TypeInit, TypeNext, ErrorHeldInit, ErrorHeldNext, FirstInit, FirstNext, PTL DEF Spec

(* Whatever the server, the mover and the wire do, a close that returns
   normally was confirmed: cleanup() does not take another callback for the
   verdict. *)
THEOREM CleanCloseConfirmed == Spec => []CleanCloseIsConfirmed
<1>1. TypeOK /\ FirstTask => CleanCloseIsConfirmed
  BY DEF FirstTask, First, Told, CleanCloseIsConfirmed, FirstUse, TypeOK, ClientTypeOK
<1> QED
  BY <1>1, FirstAlways, PTL

(* What the verdict 'o' says of a transfer the client took part in. *)
LEMMA ConfirmedByMover ==
    ASSUME TypeOK, FirstTask, ClosedCleanly, FirstUse, stream # "none"
    PROVE  First /\ HeardAny({"o"})
<1>1. First
  BY DEF FirstTask, FirstUse
<1>2. Heard("o")
  BY <1>1 DEF First, Told, CleanCloseIsConfirmed
<1> QED
  BY <1>1, <1>2 DEF Heard, HeardAny

(* An 'e' that was heard is thrown by the close, on any use of the handle; on
   the first use, a close that returns normally leaves no 'e' unheard either
   (DHSProtocol::wait and cleanup). *)
THEOREM ErrorIsReported == Spec => []ErrorReported
<1>1. TypeOK /\ ErrorHeld /\ FirstTask => ErrorReported
  <2> SUFFICES ASSUME TypeOK, ErrorHeld, FirstTask, ClosedCleanly
               PROVE  /\ ~Heard("e")
                      /\ FirstUse /\ stream # "none" => server[task] # "rejected"
    BY DEF ErrorReported
  <2>1. ~Heard("e")
    BY DEF ErrorHeld
  <2>2. ASSUME FirstUse, stream # "none" PROVE server[task] # "rejected"
    BY <2>2, ConfirmedByMover DEF FirstUse, First, Served
  <2> QED
    BY <2>1, <2>2
<1> QED
  BY <1>1, FirstAlways, PTL

(* A client that read to the end and closed normally has all that the mover
   had, which is what was announced, if a length was: MarsHandle::close refuses
   a bad total, the server passes it on, and cleanup() throws it. *)
THEOREM RetrieveIsIntact == Spec => []RetrieveIntact
<1>1. TypeOK /\ FirstTask => RetrieveIntact
  <2> SUFFICES ASSUME TypeOK, FirstTask, ClosedCleanly, FirstUse, verb = "retrieve",
                      stream = "eof", NEW h \in heard, h.code = "w"
               PROVE  got = mover[task].source /\ (h.len > 0 => got = h.len)
    BY DEF RetrieveIntact
  <2>1. First /\ HeardAny({"o"}) /\ HeardAny({"w"})
    BY ConfirmedByMover DEF HeardAny
  <2>2. mover[1].result = "ok" /\ h.len = mover[1].length
    BY <2>1 DEF First, Served
  <2> QED
    BY <2>1, <2>2 DEF First, Carried, Complete, Retrieved, FirstUse
<1> QED
  BY <1>1, FirstAlways, PTL

(* An archive of the announced length, closed normally, is with the mover unit
   by unit, and nothing of the trailer was taken for data. *)
THEOREM ArchiveIsIntact == Spec => []ArchiveIntact
<1>1. TypeOK /\ FirstTask => ArchiveIntact
  <2> SUFFICES ASSUME TypeOK, FirstTask, ClosedCleanly, FirstUse, verb = "archive",
                      asked[1] # <<>>, stream # "none", sent = Head(asked[1])
               PROVE  mover[1].total = sent /\ mover[1].crcAsData = 0
    BY DEF ArchiveIntact, FirstUse
  <2>1. First /\ HeardAny({"o"})
    BY ConfirmedByMover
  <2>2. mover[1].result = "ok"
    BY <2>1 DEF First, Served
  <2>3. mover[1].total = sent
    BY <2>1, <2>2 DEF First, Carried, Complete
  <2>4. mover[1].crcAsData \in Nat /\ mover[1].total \in Nat
    BY LinkAssumption DEF TypeOK, MoverTypeOK, Mover, Tasks
  <2> QED
    BY <2>1, <2>3, <2>4 DEF First, Archived
<1> QED
  BY <1>1, FirstAlways, PTL
=============================================================================
