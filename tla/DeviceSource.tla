---------------------------- MODULE DeviceSource ----------------------------
(***************************************************************************)
(* The two sources of core/src/source over a device: DiskSource, which     *)
(* opens the node itself, and HelperSource, which asks the daemon.         *)
(* open_device takes the second when the first is not permitted.  Threads  *)
(* share the source; a lock pairs each request with its reply.  A device   *)
(* takes whole sectors only (align.rs).                                    *)
(***************************************************************************)
EXTENDS HelperDaemon

CONSTANTS
  Threads, Writers,   \* threads that use the source; those of them that write
  Client,             \* the source's connection
  Device,             \* the node it opens
  Block,              \* its sector size
  Bytes, NewByte,     \* bound: a write writes the new one
  MaxLen,             \* bound: bytes asked for in one call
  NoThread

\* The caller of write_at is the only writer (align.rs:43).
ASSUME SourceAssumption ==
  /\ Block \in Nat \ {0} /\ Client \in Conns /\ Device \in Devices
  /\ MaxLen \in Nat /\ NewByte \in Bytes
  /\ NoThread \notin Threads /\ Writers \subseteq Threads /\ \A t, u \in Writers : t = u

VARIABLES
  source,     \* how the device was opened
  lock,       \* the holder of self.stream
  calls,      \* the call of each thread; effect is history
  step,       \* what the thread does next, with the aligned bytes it holds: those
              \* read so far, or those it writes, the first `done` of them already
  answers,    \* what the last call of each thread returned
  left        \* bound: sources, calls of threads, requests of others and deaths to come
sourcevars == <<source, lock, calls, step, answers, left>>

NoCall == [kind |-> "none"]
NoEffect == <<>>
Failure == [ok |-> FALSE, bytes |-> <<>>]
Success(bytes) == [ok |-> TRUE, bytes |-> bytes]

Source(via, handle, size, writable) ==
  [via |-> via, handle |-> handle, size |-> size, writable |-> writable]
Unopened == Source("none", 0, 0, FALSE)
Unusable == Source("failed", 0, 0, FALSE)

Step(at) == [at |-> at, block |-> <<>>, done |-> 0]

Spend(what) == left[what] > 0 /\ left' = [left EXCEPT ![what] = @ - 1]

SInit ==
  /\ source = Unopened
  /\ lock = NoThread
  /\ calls = [t \in Threads |-> NoCall]
  /\ step = [t \in Threads |-> Step("idle")]
  /\ answers = [t \in Threads |-> Failure]

-----------------------------------------------------------------------------
(* Opening.                                                                 *)

\* The node opens or it does not; when it is the permission that is missing
\* and the daemon's socket exists, the daemon is asked.
OpenDevice ==
  /\ source = Unopened /\ Spend("opens")
  /\ \E writable \in BOOLEAN :
       \/ /\ source' = Source("disk", 0, Len(disk[Device]), writable)
          /\ UNCHANGED conn
       \/ source' = Unusable /\ UNCHANGED conn
       \/ /\ source' = Source("opening", 0, 0, writable)
          /\ \E allowed \in BOOLEAN :
               conn' = Connected(Client, allowed, OpenRequest(Device, writable))
  /\ UNCHANGED <<daemon, disk, lock, calls, step, answers>>

Handshake ==
  /\ source.via = "opening"
  /\ \/ /\ HasReply(Client)
        /\ LET reply == Head(conn[Client].outbox)
           IN  source' = IF reply.type = "opened"
                           THEN Source("helper", reply.handle, reply.size, source.writable)
                           ELSE Unusable
        /\ conn' = Received(Client)
     \/ AtEnd(Client) /\ source' = Unusable /\ UNCHANGED conn
  /\ UNCHANGED <<daemon, disk, lock, calls, step, answers, left>>

-----------------------------------------------------------------------------
(* One call of one thread.                                                  *)

Ready == source.via \in {"disk", "helper"}

Call(t) ==
  /\ Ready /\ calls[t] = NoCall /\ Spend("calls")
  /\ \E offset \in 0 .. source.size - 1, n \in 1 .. MaxLen :
       \/ calls' = [calls EXCEPT ![t] =
                      [kind |-> "read", offset |-> offset, len |-> n, effect |-> NoEffect]]
       \/ /\ t \in Writers
          /\ calls' = [calls EXCEPT ![t] =
                         [kind |-> "write", offset |-> offset, effect |-> NoEffect,
                          data |-> [i \in 1 .. n |-> NewByte]]]
  /\ step' = [step EXCEPT ![t] = Step("checking")]
  /\ UNCHANGED <<daemon, conn, disk, source, lock, answers>>

StartOf(offset, block) == offset - (offset % block)
EndOf(offset, len, block) == ((offset + len + block - 1) \div block) * block

\* The caller's bytes inside the aligned ones.
Inside(aligned, head, len) == Slice(aligned, head, head + len)

Offset(t) == calls[t].offset
Count(t) == IF calls[t].kind = "read" THEN calls[t].len ELSE Len(calls[t].data)
From(t) == StartOf(Offset(t), Block)
HeadOf(t) == Offset(t) - From(t)

\* Reading stops at the end of the device; the read of a write does not.
To(t) == LET end == EndOf(Offset(t), Count(t), Block)
         IN  IF calls[t].kind = "read" THEN Smaller(end, source.size) ELSE end

Returns(t, answer) ==
  /\ answers' = [answers EXCEPT ![t] = answer]
  /\ calls' = [calls EXCEPT ![t] = NoCall]
  /\ step' = [step EXCEPT ![t] = Step("idle")]

Check(t) ==
  /\ step[t].at = "checking"
  /\ IF (calls[t].kind = "write" /\ ~ source.writable) \/ Offset(t) + Count(t) > source.size
       THEN Returns(t, Failure)
       ELSE /\ step' = [step EXCEPT ![t] = Step("reading")]
            /\ UNCHANGED <<calls, answers>>
  /\ UNCHANGED <<daemon, conn, disk, source, lock, left>>

\* The aligned bytes are here: a read is done, a write patches and writes them.
Continues(t, aligned) ==
  IF calls[t].kind = "read"
    THEN Returns(t, Success(Inside(aligned, HeadOf(t), Count(t))))
    ELSE /\ step' = [step EXCEPT ![t] = [at |-> "writing", done |-> 0,
                                         block |-> Patched(aligned, HeadOf(t), calls[t].data)]]
         /\ UNCHANGED <<calls, answers>>

\* History: of the caller's bytes, those among the first n of the aligned ones.
Own(t, n) == IF n < HeadOf(t) THEN 0 ELSE Smaller(n - HeadOf(t), Count(t))
ReadSoFar(t, aligned) == Inside(aligned, HeadOf(t), Own(t, Len(aligned)))
WrittenSoFar(t, n) == SubSeq(calls[t].data, 1, Own(t, n))

-----------------------------------------------------------------------------
(* DiskSource: the system calls are made by the thread itself.              *)

Fails(t) ==
  /\ Returns(t, Failure)
  /\ UNCHANGED <<daemon, conn, disk, source, lock, left>>

\* `while done < buf.len()`: a pread of what is missing, until nothing is.
DiskRead(t) ==
  /\ source.via = "disk" /\ step[t].at = "reading"
  /\ Len(step[t].block) < To(t) - From(t)
  /\ \/ Fails(t)
     \/ LET at == From(t) + Len(step[t].block)
        IN  \E n \in Moves(disk[Device], at, To(t) - at) :
              LET aligned == step[t].block \o Slice(disk[Device], at, at + n)
              IN  /\ step' = [step EXCEPT ![t].block = aligned]
                  /\ calls' = IF calls[t].kind = "write" THEN calls
                              ELSE [calls EXCEPT ![t].effect = ReadSoFar(t, aligned)]
                  /\ UNCHANGED <<daemon, conn, disk, source, lock, answers, left>>

DiskHasRead(t) ==
  /\ source.via = "disk" /\ step[t].at = "reading"
  /\ Len(step[t].block) = To(t) - From(t)
  /\ Continues(t, step[t].block)
  /\ UNCHANGED <<daemon, conn, disk, source, lock, left>>

\* `while done < data.len()`: a pwrite of what is missing, until nothing is.
DiskWrite(t) ==
  /\ source.via = "disk" /\ step[t].at = "writing"
  /\ step[t].done < Len(step[t].block)
  /\ \/ Fails(t)
     \/ LET at == From(t) + step[t].done
        IN  \E n \in Moves(disk[Device], at, Len(step[t].block) - step[t].done) :
              /\ disk' = [disk EXCEPT ![Device] =
                            Patched(@, at, Slice(step[t].block, step[t].done, step[t].done + n))]
              /\ step' = [step EXCEPT ![t].done = @ + n]
              /\ calls' = [calls EXCEPT ![t].effect = WrittenSoFar(t, step[t].done + n)]
              /\ UNCHANGED <<daemon, conn, source, lock, answers, left>>

DiskHasWritten(t) ==
  /\ source.via = "disk" /\ step[t].at = "writing"
  /\ step[t].done = Len(step[t].block)
  /\ Returns(t, Success(<<>>))
  /\ UNCHANGED <<daemon, conn, disk, source, lock, left>>

-----------------------------------------------------------------------------
(* HelperSource: under the lock a request goes out and its reply comes in.  *)

RequestOf(t) ==
  IF step[t].at = "reading" THEN ReadRequest(source.handle, From(t), To(t) - From(t))
  ELSE WriteRequest(source.handle, From(t), step[t].block)

Ask(t) ==
  /\ source.via = "helper" /\ step[t].at \in {"reading", "writing"} /\ lock = NoThread
  /\ \/ /\ lock' = t
        /\ conn' = Sent(Client, RequestOf(t))
        /\ UNCHANGED <<calls, step, answers>>
     \/ /\ conn[Client].server = "ended"          \* the socket is broken already
        /\ Returns(t, Failure)
        /\ UNCHANGED <<lock, conn>>
  /\ UNCHANGED <<daemon, disk, source, left>>

\* A plausible slip: after an error the lock is kept.
KeptOnError(t, reply) == IF reply.type = "error" THEN t ELSE NoThread

Unlocked(t, reply) == NoThread

Hear(t) ==
  /\ lock = t /\ HasReply(Client)
  /\ LET reply == Head(conn[Client].outbox)
     IN  /\ lock' = Unlocked(t, reply)
         /\ \/ reply.type = "data" /\ step[t].at = "reading" /\ Continues(t, reply.bytes)
            \/ reply.type = "written" /\ step[t].at = "writing" /\ Returns(t, Success(<<>>))
            \/ /\ \/ reply.type = "error"
                  \/ reply.type = "data" /\ step[t].at # "reading"
                  \/ reply.type = "written" /\ step[t].at # "writing"
               /\ Returns(t, Failure)
  /\ conn' = Received(Client)
  /\ UNCHANGED <<daemon, disk, source, left>>

Disconnected(t) ==
  /\ lock = t /\ AtEnd(Client)
  /\ lock' = NoThread
  /\ Returns(t, Failure)
  /\ UNCHANGED <<daemon, conn, disk, source, left>>

\* What the daemon moves for the lock's holder takes effect there and then.
EffectOf(part) ==
  IF lock = NoThread THEN calls
  ELSE IF step[lock].at = "writing"
         THEN [calls EXCEPT ![lock].effect = WrittenSoFar(lock, Len(part))]
  ELSE IF calls[lock].kind = "read"
         THEN [calls EXCEPT ![lock].effect = ReadSoFar(lock, part)]
  ELSE calls

Serve ==
  /\ Transfer(Client)
  /\ calls' = EffectOf(conn'[Client].part)
  /\ UNCHANGED <<source, lock, step, answers, left>>

\* The last thread drops the source, and with it the connection.
Drop ==
  /\ source.via = "helper" /\ \A t \in Threads : calls[t] = NoCall
  /\ source' = Unusable
  /\ conn' = [conn EXCEPT ![Client].client = "gone"]
  /\ UNCHANGED <<daemon, disk, lock, calls, step, answers, left>>

Works(t) ==
  \/ Check(t) \/ DiskRead(t) \/ DiskHasRead(t) \/ DiskWrite(t) \/ DiskHasWritten(t)
  \/ Ask(t) \/ Hear(t) \/ Disconnected(t)

SNext == OpenDevice \/ Handshake \/ Drop \/ Serve \/ \E t \in Threads : Call(t) \/ Works(t)
=============================================================================
