----------------------------- MODULE MarsHandle -----------------------------
(***************************************************************************)
(* The mover's end of a transfer.  A task carries a serialised MarsHandle; *)
(* the process that moves the data opens it, which calls the client back:  *)
(*   - to retrieve, the handle is opened for WRITE ('w' and the length);   *)
(*   - to archive, it is opened for READ ('r', and the client answers the  *)
(*     length), and the CRC trailer is read when it is closed.             *)
(* MarsHandle::close compares the bytes moved with the length announced.   *)
(***************************************************************************)
EXTENDS CallbackLink

VARIABLE mover     \* mover[t]: the MarsHandle of task t

Phases == {"off", "asking", "moving", "closed"}
Mover  == [phase : Phases,
           receiving : BOOLEAN,          \* receiving_
           length : Lengths,             \* length_
           total : Nat,                  \* total_
           source : Lengths,             \* units the mover has to send
           crcAsData : Nat,              \* units of the trailer taken for data
           result : {"none", "ok", "failed"}]

MoverTypeOK == mover \in [Tasks -> Mover]

NoMover == [phase |-> "off", receiving |-> FALSE, length |-> 0, total |-> 0,
            source |-> 0, crcAsData |-> 0, result |-> "none"]

MoverInit == mover = [t \in Tasks |-> NoMover]

Calls_back(t, id, code, len) ==
    /\ listening
    /\ backlog' = Append(backlog, [task |-> t, id |-> id, code |-> code, len |-> len])

(* openForWrite: the id, 'w' and the length are sent. *)
MoverOpenForWrite(t, id, len, source) ==
    /\ mover[t].phase = "off"
    /\ Calls_back(t, id, "w", len)
    /\ ends' = [ends EXCEPT ![t] = {"client", "mover"}]
    /\ mover' = [mover EXCEPT ![t] = [NoMover EXCEPT !.phase = "moving",
                                          !.length = len, !.source = source]]
    /\ UNCHANGED <<listening, control, asked, down, up>>

(* openForRead: the id and 'r' are sent, then the length is waited for. *)
MoverOpenForRead(t, id) ==
    /\ mover[t].phase = "off"
    /\ Calls_back(t, id, "r", 0)
    /\ ends' = [ends EXCEPT ![t] = {"client", "mover"}]
    /\ mover' = [mover EXCEPT ![t] = [NoMover EXCEPT !.phase = "asking"]]
    /\ UNCHANGED <<listening, control, asked, down, up>>

MoverGetsLength(t) ==
    /\ mover[t].phase = "asking" /\ asked[t] # <<>>
    /\ mover' = [mover EXCEPT ![t].phase = "moving", ![t].receiving = TRUE,
                              ![t].length = Head(asked[t])]
    /\ UNCHANGED linkVars

Shut(t, how) ==
    /\ mover' = [mover EXCEPT ![t].phase = "closed", ![t].result = how]
    /\ ends' = [ends EXCEPT ![t] = @ \ {"mover"}]

MoverWrite(t) ==
    /\ mover[t].phase = "moving" /\ ~mover[t].receiving
    /\ mover[t].total < mover[t].source
    /\ down' = IF ClientHungUp(t) THEN down ELSE [down EXCEPT ![t] = @ + 1]
    /\ mover' = [mover EXCEPT ![t].total = @ + 1]
    /\ UNCHANGED <<listening, control, backlog, ends, asked, up>>

(* mutant: read is not capped at length_ - total_ *)
MoverReadUncapped(t) ==
    /\ mover[t].phase = "moving" /\ mover[t].receiving
    /\ up[t] # <<>>
    /\ mover' = [mover EXCEPT ![t].total = @ + 1,
                              ![t].crcAsData = @ + (IF Head(up[t]) = "crc" THEN 1 ELSE 0)]
    /\ up' = [up EXCEPT ![t] = Tail(@)]
    /\ UNCHANGED <<listening, control, backlog, ends, asked, down>>

(* read: never more than length_ units in all *)
MoverRead(t) ==
    /\ mover[t].phase = "moving" /\ mover[t].receiving
    /\ mover[t].total < mover[t].length
    /\ up[t] # <<>>
    /\ mover' = [mover EXCEPT ![t].total = @ + 1,
                              ![t].crcAsData = @ + (IF Head(up[t]) = "crc" THEN 1 ELSE 0)]
    /\ up' = [up EXCEPT ![t] = Tail(@)]
    /\ UNCHANGED <<listening, control, backlog, ends, asked, down>>

(* The transfer loop ends when its source does, at length_ or when the client
   hangs up. *)
Moved(t) ==
    IF mover[t].receiving
    THEN \/ mover[t].total >= mover[t].length
         \/ up[t] = <<>> /\ ClientHungUp(t)
    ELSE mover[t].total >= mover[t].source

BadTotalUnchecked(t) == FALSE    \* mutant: no ShortFile

BadTotal(t) == mover[t].length > 0 /\ mover[t].total # mover[t].length

(* mutant: the trailer is waited for without noticing that it cannot come *)
MoverCloseWaits(t) ==
    /\ mover[t].phase = "moving" /\ Moved(t)
    /\ mover[t].receiving /\ ~BadTotal(t) => Len(up[t]) >= Trailer
    /\ Shut(t, IF BadTotal(t) THEN "failed" ELSE "ok")
    /\ UNCHANGED <<listening, control, backlog, asked, down, up>>

(* close: ShortFile on a bad total; a receiver then waits for the trailer and
   goes on without it when it cannot be read. *)
MoverClose(t) ==
    /\ mover[t].phase = "moving" /\ Moved(t)
    /\ mover[t].receiving /\ ~BadTotal(t) => Len(up[t]) >= Trailer \/ ClientHungUp(t)
    /\ Shut(t, IF BadTotal(t) THEN "failed" ELSE "ok")
    /\ UNCHANGED <<listening, control, backlog, asked, down, up>>

(* A write to a client that has hung up throws, so does an unanswered 'r'. *)
MoverFails(t) ==
    /\ ClientHungUp(t)
    /\ \/ mover[t].phase = "asking" /\ asked[t] = <<>>
       \/ /\ mover[t].phase = "moving" /\ ~mover[t].receiving
          /\ mover[t].total < mover[t].source
    /\ Shut(t, "failed")
    /\ UNCHANGED <<listening, control, backlog, asked, down, up>>

(* Fault "mover": the process dies. *)
MoverDies(t) ==
    /\ "mover" \in Faults /\ mover[t].phase \in {"asking", "moving"}
    /\ Shut(t, "failed")
    /\ UNCHANGED <<listening, control, backlog, asked, down, up>>

MoverRuns(t) ==
    \/ MoverGetsLength(t) \/ MoverWrite(t) \/ MoverRead(t)
    \/ MoverClose(t) \/ MoverFails(t)
=============================================================================
