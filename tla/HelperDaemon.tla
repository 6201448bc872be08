---------------------------- MODULE HelperDaemon ----------------------------
(***************************************************************************)
(* helper/src/main.rs: the privileged daemon.  Every connection has a      *)
(* thread and a table of handles of its own; a request is read, dispatched *)
(* and answered before the next one is looked at.  What is on its way in a *)
(* socket (helper-proto) is a queue of messages here, one for each         *)
(* direction, and what was sent can be read after the sender is gone.      *)
(*                                                                         *)
(* A device is a sequence of bytes; offsets count from 0.  Every pread and *)
(* pwrite is a step of its own and may move fewer bytes than it was asked  *)
(* for, so that others get in between.                                     *)
(***************************************************************************)
EXTENDS Integers, Sequences

CONSTANTS
  Conns,        \* connections
  Devices,      \* the nodes under /dev/
  Strays,       \* other paths, and paths that lead out of /dev/
  MaxHandles,   \* MAX_HANDLES
  MaxChunk      \* MAX_CHUNK

ASSUME HandlesAssumption == MaxHandles \in Nat \ {0} /\ MaxChunk \in Nat \ {0}

VARIABLES
  daemon,     \* "up" or "down"
  conn,       \* the two ends and the two queues of each connection
  disk        \* the bytes of each device
daemonvars == <<daemon, conn, disk>>

Slice(bytes, from, to) == SubSeq(bytes, from + 1, to)

\* `data` put over the bytes behind the first `head`.
Patched(bytes, head, data) ==
  [i \in 1 .. Len(bytes) |->
     IF i > head /\ i <= head + Len(data) THEN data[i - head] ELSE bytes[i]]

Smaller(a, b) == IF a < b THEN a ELSE b
Room(bytes, offset) == IF offset < Len(bytes) THEN Len(bytes) - offset ELSE 0

\* How many of the n bytes at `offset` one system call may move: at least one,
\* and none past the end, where it fails.  (It may fail anywhere.)
Moves(bytes, offset, n) == 1 .. Smaller(n, Room(bytes, offset))

Closed == [open |-> FALSE]
Handle(device, writable) == [open |-> TRUE, device |-> device, writable |-> writable]
NoReply == [type |-> "none"]

OpenRequest(path, writable) == [type |-> "open", path |-> path, writable |-> writable]
ReadRequest(handle, offset, len) == [type |-> "read", handle |-> handle, offset |-> offset, len |-> len]
WriteRequest(handle, offset, data) == [type |-> "write", handle |-> handle, offset |-> offset, data |-> data]
CloseRequest(handle) == [type |-> "close", handle |-> handle]
Malformed == [type |-> "malformed"]

Opened(handle, size) == [type |-> "opened", handle |-> handle, size |-> size]
Data(bytes) == [type |-> "data", bytes |-> bytes]
Written == [type |-> "written"]
ClosedReply == [type |-> "closed"]
Error(kind) == [type |-> "error", kind |-> kind]

NewConn ==
  [client |-> "none",       \* "none", "here" or "gone"
   server |-> "none",       \* "none", "accepted", "serving", "replying" or "ended"
   allowed |-> FALSE, inbox |-> <<>>, outbox |-> <<>>, table |-> <<>>, reply |-> NoReply,
   part |-> <<>>]            \* the bytes moved for the request at the head of inbox

-----------------------------------------------------------------------------
(* dispatch: what a request may be answered, given the connection's table.  *)

Outcome(table, reply) == [table |-> table, reply |-> reply]
Unchanged(table, kind) == {Outcome(table, Error(kind))}

\* A plausible slip: the last slot is given out again when the table is full.
LastSlot(table) ==
  LET free == {i \in 1 .. Len(table) : table[i] = Closed}
  IN  IF free # {} THEN CHOOSE i \in free : \A j \in free : i <= j
      ELSE Smaller(Len(table) + 1, MaxHandles)

\* A closed slot is used again before the table grows; behind the cap is none.
Slot(table) ==
  LET free == {i \in 1 .. Len(table) : table[i] = Closed}
  IN  IF free # {} THEN CHOOSE i \in free : \A j \in free : i <= j ELSE Len(table) + 1

WithHandle(table, i, handle) ==
  [j \in 1 .. Len(table) \cup {i} |-> IF j = i THEN handle ELSE table[j]]

\* Opening may fail, and asking for the size too: the file is dropped again.
OpenOutcomes(table, req) ==
  IF req.path \notin Devices THEN Unchanged(table, "NotAllowed")
  ELSE Unchanged(table, "Io")
         \cup (IF Slot(table) > MaxHandles THEN Unchanged(table, "NotAllowed")
               ELSE {Outcome(WithHandle(table, Slot(table), Handle(req.path, req.writable)),
                             Opened(Slot(table) - 1, Len(disk[req.path])))})

Known(table, handle) == handle < Len(table) /\ table[handle + 1] # Closed

\* How many bytes a read or a write is to move.
Need(req) == IF req.type = "read" THEN req.len ELSE Len(req.data)

\* The loop ends with the last byte, or with the call that fails.
ReadOutcomes(table, req, part) ==
  IF req.len > MaxChunk \/ ~ Known(table, req.handle) THEN Unchanged(table, "NotAllowed")
  ELSE IF Len(part) < req.len THEN Unchanged(table, "Io")
  ELSE {Outcome(table, Data(part))}

WriteOutcomes(table, req, part) ==
  IF Len(req.data) > MaxChunk \/ ~ Known(table, req.handle) THEN Unchanged(table, "NotAllowed")
  ELSE IF ~ table[req.handle + 1].writable THEN Unchanged(table, "ReadOnly")
  ELSE IF Len(part) < Len(req.data) THEN Unchanged(table, "Io")
  ELSE {Outcome(table, Written)}

CloseOutcomes(table, req) ==
  {Outcome([j \in 1 .. Len(table) |-> IF j = req.handle + 1 THEN Closed ELSE table[j]], ClosedReply)}

Outcomes(table, req, part) ==
  CASE req.type = "open"  -> OpenOutcomes(table, req)
    [] req.type = "read"  -> ReadOutcomes(table, req, part)
    [] req.type = "write" -> WriteOutcomes(table, req, part)
    [] req.type = "close" -> CloseOutcomes(table, req)

\* The requests whose loop of system calls is run.
Admitted(table, req) ==
  /\ req.type \in {"read", "write"}
  /\ Need(req) <= MaxChunk /\ Known(table, req.handle)
  /\ req.type = "write" => table[req.handle + 1].writable

-----------------------------------------------------------------------------
(* The thread of a connection.                                              *)

\* The files of an ended connection are closed with its table; what the peer
\* has not read yet stays readable.
Ended(k) == [k EXCEPT !.server = "ended", !.inbox = <<>>, !.table = <<>>, !.reply = NoReply,
                      !.part = <<>>]

\* Only the installing user's processes are served; others learn nothing.
Accept(c) ==
  /\ daemon = "up" /\ conn[c].server = "accepted"
  /\ conn' = [conn EXCEPT ![c] = IF @.allowed THEN [@ EXCEPT !.server = "serving"] ELSE Ended(@)]
  /\ UNCHANGED <<daemon, disk>>

\* The end of the stream, or a frame that is no request, ends the connection.
Hangup(c) ==
  /\ daemon = "up" /\ conn[c].server = "serving"
  /\ \/ conn[c].inbox = <<>> /\ conn[c].client = "gone"
     \/ conn[c].inbox # <<>> /\ Head(conn[c].inbox) = Malformed
  /\ conn' = [conn EXCEPT ![c] = Ended(@)]
  /\ UNCHANGED <<daemon, disk>>

\* A plausible slip: after a short read the next one starts over.
MovedFromStart(bytes, req, part, n) ==
  IF req.type = "read" THEN part \o Slice(bytes, req.offset, req.offset + n)
  ELSE SubSeq(req.data, 1, Len(part) + n)

\* One pread or pwrite: n more bytes from the device, or onto it.
Moved(bytes, req, part, n) ==
  IF req.type = "read"
    THEN part \o Slice(bytes, req.offset + Len(part), req.offset + Len(part) + n)
    ELSE SubSeq(req.data, 1, Len(part) + n)

Transfer(c) ==
  LET k == conn[c]
      req == Head(k.inbox)
      device == k.table[req.handle + 1].device
      at == req.offset + Len(k.part)
  IN  /\ daemon = "up" /\ k.server = "serving" /\ k.inbox # <<>>
      /\ Admitted(k.table, req)
      /\ \E n \in Moves(disk[device], at, Need(req) - Len(k.part)) :
           /\ conn' = [conn EXCEPT ![c].part = Moved(disk[device], req, @, n)]
           /\ disk' = IF req.type = "read" THEN disk
                      ELSE [disk EXCEPT ![device] =
                              Patched(@, at, Slice(req.data, Len(k.part), Len(k.part) + n))]
      /\ UNCHANGED daemon

Dispatch(c) ==
  /\ daemon = "up" /\ conn[c].server = "serving"
  /\ conn[c].inbox # <<>> /\ Head(conn[c].inbox) # Malformed
  /\ \E o \in Outcomes(conn[c].table, Head(conn[c].inbox), conn[c].part) :
       conn' = [conn EXCEPT ![c] = [conn[c] EXCEPT !.inbox = Tail(@), !.table = o.table,
                                                   !.reply = o.reply, !.part = <<>>,
                                                   !.server = "replying"]]
  /\ UNCHANGED <<daemon, disk>>

Reply(c) ==
  /\ daemon = "up" /\ conn[c].server = "replying"
  /\ conn' = [conn EXCEPT ![c] =
                IF conn[c].client = "gone" THEN Ended(@)
                ELSE [conn[c] EXCEPT !.server = "serving", !.reply = NoReply,
                                     !.outbox = Append(@, conn[c].reply)]]
  /\ UNCHANGED <<daemon, disk>>

Die ==
  /\ daemon = "up"
  /\ daemon' = "down"
  /\ conn' = [c \in Conns |-> IF conn[c].server = "none" THEN conn[c] ELSE Ended(conn[c])]
  /\ UNCHANGED disk

-----------------------------------------------------------------------------
(* A client's end.                                                          *)

\* connect(2) fails when no daemon listens.
Connected(c, allowed, first) ==
  [conn EXCEPT ![c] = [NewConn EXCEPT !.client = "here", !.allowed = allowed, !.inbox = <<first>>,
                                      !.server = IF daemon = "up" THEN "accepted" ELSE "ended"]]
Sent(c, msg) ==
  [conn EXCEPT ![c].inbox = IF conn[c].server = "ended" THEN @ ELSE Append(@, msg)]
Received(c) == [conn EXCEPT ![c].outbox = Tail(@)]
HasReply(c) == conn[c].outbox # <<>>
AtEnd(c) == conn[c].outbox = <<>> /\ conn[c].server = "ended"
=============================================================================
