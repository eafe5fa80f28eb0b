----------------------------- MODULE DHSTransfer -----------------------------
(***************************************************************************)
(* A whole transfer: an application and its client (DHSProtocol), the      *)
(* server that gets the tasks, and a mover per task (MarsHandle).          *)
(*                                                                         *)
(* The server is not in the repository.  What it is taken to do is what    *)
(* wait() and ClientTask expect of it: it acknowledges a task, may call    *)
(* back with messages, pings and statistics, starts at most one mover, and *)
(* gives one verdict, 'o' or 'e', when there is no mover or the mover has  *)
(* closed; the verdict on a failed mover is 'e', and an archive is only    *)
(* 'o' after its mover.                                                    *)
(***************************************************************************)
EXTENDS DHSProtocol, MarsHandle, FiniteSets

CONSTANT MaxMessages     \* bound: messages, pings and statistics until the server is silent

ASSUME TransferAssumption == MaxMessages \in Nat

VARIABLES server,    \* server[t]: what the server does about task t, and its verdict
          talk       \* talk[t]: how many messages it has sent

vars == <<linkVars, clientVars, mover, server, talk>>

TypeOK ==
    /\ LinkTypeOK /\ ClientTypeOK /\ MoverTypeOK
    /\ server \in [Tasks -> {"idle", "working", "moving", "accepted", "rejected"}]
    /\ talk \in [Tasks -> 0 .. MaxMessages]

Init ==
    /\ LinkInit /\ ClientInit /\ MoverInit
    /\ server = [t \in Tasks |-> "idle"]
    /\ talk = [t \in Tasks |-> 0]

------------------------------------------------------------------------------
(* The server *)

ServerTakes(t) ==
    /\ control[t] = "tasked"
    /\ \/ /\ control' = [control EXCEPT ![t] = "acked"]
          /\ server' = [server EXCEPT ![t] = "working"]
       \/ /\ "refuse" \in Faults
          /\ control' = [control EXCEPT ![t] = "refused"]
          /\ UNCHANGED server
    /\ UNCHANGED <<listening, backlog, ends, asked, down, up, clientVars, mover, talk>>

ServerTells(t) ==
    /\ server[t] \in {"working", "moving"}
    /\ \A u \in Tasks : talk[u] < MaxMessages
    /\ talk' = [talk EXCEPT ![t] = @ + 1]
    /\ \E code \in {"msg", "p", "s"} \cup ({"code"} \cap Faults) :
          Calls_back(t, ids[t], IF code = "code" THEN "bad" ELSE code, 0)
    /\ UNCHANGED <<listening, control, ends, asked, down, up, clientVars, mover, server>>

ServerDispatches(t) ==
    /\ server[t] = "working"
    /\ server' = [server EXCEPT ![t] = "moving"]
    /\ \/ /\ verb = "retrieve"
          /\ \E len, source \in Lengths : MoverOpenForWrite(t, ids[t], len, source)
       \/ verb = "archive" /\ MoverOpenForRead(t, ids[t])
    /\ UNCHANGED <<clientVars, talk>>

ServerConcludes(t, code) ==
    /\ \/ server[t] = "working"
       \/ server[t] = "moving" /\ mover[t].phase = "closed"
    /\ code = "o" => IF server[t] = "working" THEN verb = "retrieve"
                                              ELSE mover[t].result = "ok"
    /\ server' = [server EXCEPT ![t] = IF code = "o" THEN "accepted" ELSE "rejected"]
    /\ IF listening THEN Calls_back(t, ids[t], code, 0) ELSE UNCHANGED backlog
    /\ UNCHANGED <<listening, control, ends, asked, down, up, clientVars, mover, talk>>

ServerRuns(t) ==
    \/ ServerTakes(t) \/ ServerTells(t) \/ ServerDispatches(t)
    \/ \E code \in {"o", "e"} : ServerConcludes(t, code)

ClientStep == ClientNext /\ UNCHANGED <<mover, server, talk>>
MoverStep(t) == MoverRuns(t) /\ UNCHANGED <<clientVars, server, talk>>
MoverCrash(t) == MoverDies(t) /\ UNCHANGED <<clientVars, server, talk>>

(* Nothing moves any more: the handle is destroyed, or terminate was called,
   and every task is settled. *)
Over == /\ pc \in {"gone", "terminated"}
        /\ \A t \in Tasks : server[t] \in {"idle", "accepted", "rejected"}
                              /\ control[t] # "tasked"
        /\ UNCHANGED vars

Next ==
    \/ ClientStep
    \/ \E t \in Tasks : ServerRuns(t) \/ MoverStep(t) \/ MoverCrash(t)
    \/ Over

Spec == Init /\ [][Next]_vars

(***************************************************************************)
(* Fairness.  A client blocked in a call runs when it can (its thread is   *)
(* scheduled), movers and server make progress and give their verdict, and *)
(* the application closes what it has opened and destroys the handle.  No  *)
(* fairness is asked of reading, of messages or of any fault.              *)
(***************************************************************************)
Fairness ==
    /\ WF_vars(ClientRuns /\ UNCHANGED <<mover, server, talk>>)
    /\ WF_vars((Write \/ Close \/ Destroy) /\ UNCHANGED <<mover, server, talk>>)
    /\ \A t \in Tasks :
          /\ WF_vars(MoverStep(t))
          /\ WF_vars(ServerTakes(t))
          /\ WF_vars(\E code \in {"o", "e"} : ServerConcludes(t, code))

FairSpec == Spec /\ Fairness

------------------------------------------------------------------------------
(* Properties *)

Heard(code) == \E h \in heard : h.code = code

(* The last call was a close that returned normally. *)
ClosedCleanly == result = [call |-> "close", how |-> "ok"]

(* The first task of a handle: open() does not reset done_, so that cleanup()
   returns at once for a later one, without its verdict. *)
FirstUse == task = 1

(* The server's 'e' is not lost.  One that the client has heard is thrown when
   the handle is closed, also when wait() met it in retrieve() or archive(),
   which return normally (DHSProtocol.cc, case 'e' and cleanup), on any use of
   the handle.  On the first use it need not have heard it: a close that returns
   normally has waited until the server was done, and the server had no error.
   On a later use cleanup() does not wait, and an 'e' may stay unheard. *)
ErrorReported ==
    ClosedCleanly =>
        /\ ~Heard("e")
        /\ FirstUse /\ stream # "none" => server[task] # "rejected"

(* A handle that opened and closed without an exception was told by the server
   that the task is done: cleanup() does not return on any other callback. *)
CleanCloseIsConfirmed == ClosedCleanly /\ FirstUse /\ stream # "none" => Heard("o")

(* An application that read to the end of the data and closed without an
   exception has all that the mover had to send and, where 'w' announced a
   length, exactly that many units, whatever happened to the mover:
   MarsHandle::close and the verdict are what tells a short transfer.  A mover
   that does not know its length announces 0, and its total is not checked. *)
RetrieveIntact ==
    ClosedCleanly /\ FirstUse /\ verb = "retrieve" /\ stream = "eof"
        => \A h \in heard : h.code = "w" =>
               /\ got = mover[task].source
               /\ h.len > 0 => got = h.len

(* An archive of as many units as announced, closed without an exception, is
   with the mover unit by unit, and the trailer was not taken for data. *)
ArchiveIntact ==
    ClosedCleanly /\ FirstUse /\ verb = "archive" /\ asked[task] # <<>> /\ stream # "none"
        => (sent = Head(asked[task])
                => mover[task].total = sent /\ mover[task].crcAsData = 0)

(* Every callback the client acts on was made for its current task: what is
   left over from an earlier task of the same endpoint fails the assertion of
   ClientTask::receive. *)
NoStranger == \A h \in heard : h.task = task

(* The server never took the task of the handle: it was not asked, or refused. *)
NotTaken == task = 0 \/ control[task] # "acked"

(* A call of the application returns (or ends the process).  opened_ is set
   before the open can fail, and cleanup() waits for a verdict nobody will give:
   closing a handle whose task was not taken is the one call that may not. *)
CallsReturn ==
    pc \in {"connect", "ack", "wait"} ~> \/ pc \in {"idle", "gone", "terminated"}
                                         \/ pc = "wait" /\ NotTaken

(* No mover is left hanging on its connection. *)
MoversFinish == \A t \in Tasks : mover[t].phase # "off" ~> mover[t].phase = "closed"

(* What MarsHandle::close promises with "Bad total": an archive closed before
   all that was announced is written is never accepted as complete. *)
ShortArchiveIsRefused ==
    \A t \in Tasks : mover[t].receiving /\ mover[t].result = "ok"
        => mover[t].crcAsData = 0
=============================================================================
