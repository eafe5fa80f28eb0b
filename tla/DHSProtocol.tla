----------------------------- MODULE DHSProtocol -----------------------------
(***************************************************************************)
(* The client side of a MARS transfer: the data handle an application      *)
(* opens, reads or writes, closes and destroys (MarsRequestHandle), and    *)
(* the protocol object behind it (DHSProtocol) with its wait() loop.       *)
(*                                                                         *)
(* A call of the application is a sequence of steps: `call' names the call *)
(* in progress and `pc' where it blocks ("connect", "ack", "wait"); at     *)
(* "idle" the application has the control.  An exception leaves the call   *)
(* with result.how = "threw"; one that leaves a destructor terminates the  *)
(* process, since no destructor here is declared noexcept(false).          *)
(***************************************************************************)
EXTENDS CallbackLink

VARIABLES verb,      \* verb of the handle's request, fixed at construction
          opened,    \* MarsRequestHandle::opened_
          call, pc,  \* the call in progress and where it is
          done,      \* DHSProtocol::done_
          error,     \* DHSProtocol::error_
          sending,   \* DHSProtocol::sending_
          task,      \* DHSProtocol::task_, 0 when null
          ids,       \* ids[t]: ClientTask::metkitID_ of the t-th task
          socket,    \* DHSProtocol::socket_
          stats,     \* DHSProtocol::stats_, as the set of tasks that left keys in it
          length,    \* the Length& that wait() works on
          result,    \* how the last open, close or destruction ended
          heard,     \* callbacks accepted for the current task
          stream,    \* what the application knows of its data
          got, sent  \* units of data the application has read, has written

clientVars == <<verb, opened, call, pc, done, error, sending, task, ids, socket,
                stats, length, result, heard, stream, got, sent>>

Opening  == {"openForRead", "openForWrite"}
Calls    == Opening \cup {"close", "destroy", "destroyProtocol", "none"}
NoSocket == [task |-> 0, code |-> "none"]
Verbs    == {"retrieve", "archive"}
    \* "retrieve" stands for the four verbs openForRead takes

ClientTypeOK ==
    /\ verb \in Verbs
    /\ opened \in BOOLEAN /\ done \in BOOLEAN /\ error \in BOOLEAN /\ sending \in BOOLEAN
    /\ call \in Calls
    /\ pc \in {"idle", "connect", "ack", "wait", "unwind", "gone", "terminated"}
    /\ task \in 0 .. MaxTasks
    /\ ids \in [Tasks -> Nat]
    /\ socket \in [task : 0 .. MaxTasks, code : Codes \cup {"none"}]
    /\ stats \subseteq Tasks
    /\ length \in Lengths
    /\ result \in [call : Calls, how : {"ok", "threw"}]
    /\ heard \subseteq [task : Tasks, code : Codes, len : Lengths]
    /\ stream \in {"none", "live", "eof", "broken"}
    /\ got \in Nat /\ sent \in Nat

ClientInit ==
    /\ verb \in Verbs
    /\ opened = FALSE /\ done = FALSE /\ error = FALSE /\ sending = FALSE
    /\ call = "none" /\ pc = "idle"
    /\ task = 0 /\ ids = [t \in Tasks |-> 0]
    /\ socket = NoSocket /\ stats = {} /\ length = 0
    /\ result = [call |-> "none", how |-> "ok"]
    /\ heard = {} /\ stream = "none" /\ got = 0 /\ sent = 0

------------------------------------------------------------------------------
(* How a call ends *)

Leave(how) ==
    /\ result' = [call |-> call, how |-> how]
    /\ call' = "none"
    /\ pc' = IF call # "destroy" THEN "idle"
             ELSE IF how = "ok" THEN "unwind" ELSE "terminated"
    /\ listening' = (listening /\ pc' # "terminated")
    /\ stream' = IF call \in Opening /\ how = "ok" THEN "live" ELSE stream

(* wait() returned: an open returns to the application, a cleanup looks at
   error_, here e, and throws it once *)
WaitReturns(e) ==
    IF call \in Opening
    THEN Leave("ok") /\ error' = e
    ELSE Leave(IF e THEN "threw" ELSE "ok") /\ error' = FALSE

WaitThrows == Leave("threw") /\ UNCHANGED error

HangUpForgotten == UNCHANGED ends    \* mutant: socket_.close() is missing

HangUp == ends' = IF socket.code \in {"r", "w"}
                  THEN [ends EXCEPT ![socket.task] = @ \ {"client"}]
                  ELSE ends

------------------------------------------------------------------------------
(* Opening the handle *)

(* A new task.  Its id is made of the process, the thread and the second. *)
NewTask(c) ==
    /\ task < MaxTasks
    /\ task' = task + 1
    /\ \E id \in {task + 1} \cup (IF "second" \in Faults /\ task > 0 THEN {ids[task]} ELSE {}) :
          ids' = [ids EXCEPT ![task + 1] = id]
    /\ call' = c /\ pc' = "connect"
    /\ result' = [call |-> "none", how |-> "ok"]

Open(c, v) ==
    /\ pc = "idle" /\ ~opened
    /\ opened' = TRUE
    /\ heard' = {} /\ stream' = "none" /\ got' = 0 /\ sent' = 0
    /\ \/ verb = v /\ NewTask(c)
       \/ /\ verb # v /\ "misuse" \in Faults  \* ASSERT on the verb, opened_ already set
          /\ result' = [call |-> c, how |-> "threw"]
          /\ UNCHANGED <<task, ids, call, pc>>
    /\ UNCHANGED <<verb, done, error, sending, socket, stats>>

OpenForRead ==
    /\ Open("openForRead", "retrieve")
    /\ length' = 0
    /\ UNCHANGED linkVars

OpenForWrite(size) ==
    /\ Open("openForWrite", "archive")
    /\ length' = size
    /\ UNCHANGED linkVars

SendTask ==
    /\ pc = "connect"
    /\ control' = [control EXCEPT ![task] = "tasked"]
    /\ pc' = "ack"
    /\ UNCHANGED <<listening, backlog, ends, asked, down, up>>
    /\ UNCHANGED <<verb, opened, call, done, error, sending, task, ids, socket,
                   stats, length, result, heard, stream, got, sent>>

OpenFails ==
    /\ \/ pc = "connect" /\ "connect" \in Faults
       \/ pc = "ack" /\ control[task] = "refused"
    /\ WaitThrows
    /\ UNCHANGED <<control, backlog, ends, asked, down, up>>
    /\ UNCHANGED <<verb, opened, done, sending, task, ids, socket, stats, length,
                   heard, got, sent>>

Acknowledged ==
    /\ pc = "ack" /\ control[task] = "acked"
    /\ pc' = "wait"
    /\ UNCHANGED linkVars
    /\ UNCHANGED <<verb, opened, call, done, error, sending, task, ids, socket,
                   stats, length, result, heard, stream, got, sent>>

------------------------------------------------------------------------------
(* One turn of wait(): the previous callback is hung up, the next accepted  *)

Accept ==
    /\ pc = "wait" /\ backlog # <<>>
    /\ backlog' = Tail(backlog)
    /\ HangUp
    /\ socket' = [task |-> Head(backlog).task, code |-> Head(backlog).code]
    /\ UNCHANGED <<control, down, up, verb, opened, task, ids, got, sent>>

AddressedToAnyone == backlog # <<>> /\ task # 0    \* mutant: the id is not compared

(* ClientTask::receive: the id must be the task's *)
Addressed == backlog # <<>> /\ task # 0 /\ Head(backlog).id = ids[task]

Hear(code) ==
    /\ Addressed /\ Head(backlog).code = code
    /\ Accept
    /\ heard' = heard \cup {[task |-> Head(backlog).task, code |-> code,
                             len |-> Head(backlog).len]}

HearOK ==
    /\ Hear("o")
    /\ done' = TRUE
    /\ WaitReturns(error)
    /\ UNCHANGED <<asked, sending, stats, length>>

(* mutant: case 'e' does not set error_ *)
HearErrorForgets ==
    /\ Hear("e")
    /\ done' = TRUE
    /\ WaitReturns(error)
    /\ UNCHANGED <<asked, sending, stats, length>>

HearError ==
    /\ Hear("e")
    /\ done' = TRUE
    /\ WaitReturns(TRUE)
    /\ UNCHANGED <<asked, sending, stats, length>>

(* mutant: the end of wait() is taken for the end of the task *)
HearReadIsDone ==
    /\ Hear("r")
    /\ asked' = [asked EXCEPT ![Head(backlog).task] = Append(@, length)]
    /\ sending' = TRUE /\ done' = TRUE
    /\ WaitReturns(error)
    /\ UNCHANGED <<stats, length>>

HearRead ==
    /\ Hear("r")
    /\ asked' = [asked EXCEPT ![Head(backlog).task] = Append(@, length)]
    /\ sending' = TRUE
    /\ WaitReturns(error)
    /\ UNCHANGED <<done, stats, length>>

HearWrite ==
    /\ Hear("w")
    /\ length' = Head(backlog).len
    /\ WaitReturns(error)
    /\ UNCHANGED <<asked, done, sending, stats>>

HearMessage ==
    /\ \/ Hear("msg") /\ UNCHANGED stats
       \/ Hear("p") /\ UNCHANGED stats
       \/ Hear("s") /\ stats' = stats \cup {Head(backlog).task}
    /\ UNCHANGED <<listening, asked, call, pc, done, error, sending, length, result,
                   stream>>

HearUnsupported ==
    /\ Hear("bad")
    /\ WaitThrows
    /\ UNCHANGED <<asked, done, sending, stats, length>>

(* A callback with another id fails the assertion of ClientTask::receive. *)
HearStranger ==
    /\ backlog # <<>> /\ ~Addressed
    /\ Accept
    /\ WaitThrows
    /\ UNCHANGED <<asked, heard, done, sending, stats, length>>

------------------------------------------------------------------------------
(* The application's data *)

Ready(c) == pc = "idle" /\ opened /\ stream = "live" /\ result = [call |-> c, how |-> "ok"]

Read ==
    /\ Ready("openForRead") /\ socket.code = "w"
    /\ down[socket.task] > 0
    /\ down' = [down EXCEPT ![socket.task] = @ - 1]
    /\ got' = got + 1
    /\ UNCHANGED <<listening, control, backlog, ends, asked, up>>
    /\ UNCHANGED <<verb, opened, call, pc, done, error, sending, task, ids, socket,
                   stats, length, result, heard, stream, sent>>

(* read() returns 0, or fails when a connection breaks: RetryTransfer *)
ReadEnds ==
    /\ Ready("openForRead")
    /\ socket.code = "w" => down[socket.task] = 0 /\ MoverHungUp(socket.task)
    /\ stream' \in {"eof"} \cup {x \in {"broken"} : "mover" \in Faults}
    /\ UNCHANGED linkVars
    /\ UNCHANGED <<verb, opened, call, pc, done, error, sending, task, ids, socket,
                   stats, length, result, heard, got, sent>>

(* A write to a peer that has hung up is lost, or fails. *)
Write ==
    /\ Ready("openForWrite")
    /\ sent < (IF "over" \in Faults THEN MaxLen + 1 ELSE length)
    /\ \/ /\ socket.code = "r" /\ ~MoverHungUp(socket.task)
          /\ up' = [up EXCEPT ![socket.task] = Append(@, "data")]
          /\ sent' = sent + 1 /\ UNCHANGED stream
       \/ /\ socket.code = "r" => MoverHungUp(socket.task)
          /\ UNCHANGED up
          /\ \/ sent' = sent + 1 /\ UNCHANGED stream
             \/ stream' = "broken" /\ UNCHANGED sent
    /\ UNCHANGED <<listening, control, backlog, ends, asked, down>>
    /\ UNCHANGED <<verb, opened, call, pc, done, error, sending, task, ids, socket,
                   stats, length, result, heard, got>>

------------------------------------------------------------------------------
(* Closing and destroying *)

CrcTrailer == [i \in 1 .. Trailer |-> "crc"]

(* DHSProtocol::cleanup called by c, with done_ = d: the CRC trailer ends an
   archive, the connection is closed, and the server's verdict awaited. *)
Cleanup(c, d) ==
    /\ HangUp
    /\ up' = IF sending /\ socket.code = "r" /\ ~MoverHungUp(socket.task)
             THEN [up EXCEPT ![socket.task] = @ \o CrcTrailer]
             ELSE up
    /\ socket' = NoSocket
    /\ sending' = FALSE
    /\ length' = 0
    /\ done' = d
    /\ IF d
       THEN /\ error' = FALSE
            /\ result' = [call |-> c, how |-> IF error THEN "threw" ELSE "ok"]
            /\ call' = "none"
            /\ pc' = CASE c = "close" -> "idle"
                       [] c # "close" /\ error -> "terminated"
                       [] c = "destroy" /\ ~error -> "unwind"
                       [] c = "destroyProtocol" /\ ~error -> "gone"
            /\ listening' = (listening /\ pc' \notin {"gone", "terminated"})
       ELSE /\ call' = c /\ pc' = "wait"
            /\ UNCHANGED <<listening, error, result>>
    /\ UNCHANGED <<control, backlog, asked, down>>
    /\ UNCHANGED <<verb, task, ids, stats, heard, stream, got, sent>>

(* The application has finished with the data, or gives up. *)
Finished ==
    \/ verb = "retrieve" \/ "short" \in Faults
    \/ result.how = "threw" \/ stream = "broken" \/ sent >= length

Close ==
    /\ pc = "idle" /\ opened /\ Finished
    /\ opened' = FALSE
    /\ Cleanup("close", done)

(* ~MarsRequestHandle closes what is still open ... *)
Destroy ==
    /\ pc = "idle" /\ (opened => Finished)
    /\ opened' = FALSE
    /\ IF opened
       THEN Cleanup("destroy", done)
       ELSE /\ pc' = "unwind" /\ call' = "none"
            /\ UNCHANGED linkVars
            /\ UNCHANGED <<verb, done, error, sending, task, ids, socket, stats,
                           length, result, heard, stream, got, sent>>

(* ... and then ~DHSProtocol cleans up without waiting; the endpoint goes. *)
DestroyProtocol ==
    /\ pc = "unwind"
    /\ Cleanup("destroyProtocol", TRUE)
    /\ UNCHANGED opened

ClientHears ==
    \/ HearOK \/ HearError \/ HearRead \/ HearWrite
    \/ HearMessage \/ HearUnsupported \/ HearStranger

ClientRuns == SendTask \/ OpenFails \/ Acknowledged \/ ClientHears \/ DestroyProtocol

AppActs ==
    \/ OpenForRead \/ (\E size \in Lengths : OpenForWrite(size))
    \/ Read \/ ReadEnds \/ Write
    \/ Close \/ Destroy

ClientNext == AppActs \/ ClientRuns
=============================================================================
