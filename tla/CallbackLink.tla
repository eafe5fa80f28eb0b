---------------------------- MODULE CallbackLink ----------------------------
(***************************************************************************)
(* The wires between a MARS client and the servers that answer it.         *)
(*                                                                         *)
(* The client of a DHS ("data handling server") opens one listening socket,*)
(* the callback endpoint, sends its task over a short-lived control        *)
(* connection and from then on is CALLED BACK: every answer of the server, *)
(* and the data itself, arrives as a new connection to that endpoint.  A   *)
(* callback starts with the id of the task and a one letter code.          *)
(*                                                                         *)
(* This module only declares what both sides share.  DHSProtocol is the    *)
(* client, MarsHandle the end of the wire that a mover holds, DHSTransfer  *)
(* puts them together with the server.                                     *)
(***************************************************************************)
EXTENDS Naturals, Sequences

CONSTANTS MaxTasks,     \* bound: tasks one handle sends (opens of the handle)
          MaxLen,       \* bound: units of data of a transfer
          Trailer,      \* units the CRC trailer takes on the wire
          Faults        \* what the environment may do wrong in this instance

AllFaults == {"connect",     \* the connection to the server is refused
              "refuse",      \* the server answers the task with another letter than 'a'
              "code",        \* a callback carries a letter wait() does not implement
              "mover",       \* a mover dies during a transfer
              "short",       \* the application closes an archive before it is complete
              "over",        \* the application writes more than it announced
              "misuse",      \* the application opens for the wrong direction
              "second"}      \* two tasks are made within one second

ASSUME LinkAssumption ==
    /\ MaxTasks \in Nat \ {0}
    /\ MaxLen \in Nat
    /\ Trailer \in Nat \ {0}
    /\ Faults \subseteq AllFaults

Tasks   == 1 .. MaxTasks
Lengths == 0 .. MaxLen
Codes   == {"o", "r", "w", "e", "msg", "p", "s", "bad"}
    \* "msg" stands for I, W, D and E; "bad" for h, m, X, y, N, S, t and unknown letters
Units   == {"data", "crc"}

VARIABLES listening,   \* the callback endpoint exists
          control,     \* control[t]: the control connection of task t
          backlog,     \* callbacks not yet accepted, in the order they connected
          ends,        \* ends[t]: who still holds the data connection of task t
          asked,       \* asked[t]: the length the client answered to an 'r', or <<>>
          down,        \* down[t]: units on their way from the mover to the client
          up           \* up[t]: units on their way from the client to the mover

linkVars == <<listening, control, backlog, ends, asked, down, up>>

Callback == [task : Tasks, id : Nat, code : Codes, len : Lengths]

LinkTypeOK ==
    /\ listening \in BOOLEAN
    /\ control \in [Tasks -> {"none", "tasked", "acked", "refused"}]
    /\ backlog \in Seq(Callback)
    /\ ends \in [Tasks -> SUBSET {"client", "mover"}]
    /\ asked \in [Tasks -> Seq(Lengths)]
    /\ down \in [Tasks -> Nat]
    /\ up \in [Tasks -> Seq(Units)]

LinkInit ==
    /\ listening = TRUE
    /\ control = [t \in Tasks |-> "none"]
    /\ backlog = <<>>
    /\ ends = [t \in Tasks |-> {}]
    /\ asked = [t \in Tasks |-> <<>>]
    /\ down = [t \in Tasks |-> 0]
    /\ up = [t \in Tasks |-> <<>>]

(* The other end of the data connection of task t is closed. *)
ClientHungUp(t) == "client" \notin ends[t] \/ ~listening
MoverHungUp(t)  == "mover" \notin ends[t]
=============================================================================
