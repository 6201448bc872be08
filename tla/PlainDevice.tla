----------------------------- MODULE PlainDevice -----------------------------
(***************************************************************************)
(* What a DataSource over a device promises its callers                    *)
(* (core/src/source/mod.rs:34-50): a read returns exactly the bytes asked  *)
(* for, each as it was at some moment of the call, in order; a write       *)
(* changes its own bytes, one after the other, all of them before it       *)
(* succeeds, and never another.  Neither is atomic: a read may see the     *)
(* first bytes of a write and miss the next.                               *)
(***************************************************************************)
EXTENDS Integers, Sequences

CONSTANTS
  Threads, Bytes,
  MaxLen      \* bound: bytes of one call

VARIABLES
  content,    \* the device
  calls,      \* the call each thread is in, with the bytes moved so far
  answers     \* what each thread's last call returned

NoCall == [kind |-> "none"]
NoEffect == <<>>
Failure == [ok |-> FALSE, bytes |-> <<>>]
Success(bytes) == [ok |-> TRUE, bytes |-> bytes]

ReadCall(offset, len) == [kind |-> "read", offset |-> offset, len |-> len, effect |-> NoEffect]
WriteCall(offset, data) == [kind |-> "write", offset |-> offset, data |-> data, effect |-> NoEffect]

Init ==
  /\ content \in Seq(Bytes)
  /\ calls = [t \in Threads |-> NoCall]
  /\ answers = [t \in Threads |-> Failure]

Call(t) ==
  /\ calls[t] = NoCall
  /\ \E offset \in 0 .. Len(content), n \in 1 .. MaxLen :
       \/ calls' = [calls EXCEPT ![t] = ReadCall(offset, n)]
       \/ \E data \in [1 .. n -> Bytes] : calls' = [calls EXCEPT ![t] = WriteCall(offset, data)]
  /\ UNCHANGED <<content, answers>>

\* Some more bytes are read, as they are now.
Take(t) ==
  /\ calls[t].kind = "read"
  /\ LET at == calls[t].offset + Len(calls[t].effect)
     IN  \E n \in 1 .. calls[t].len - Len(calls[t].effect) :
           /\ at + n <= Len(content)
           /\ calls' = [calls EXCEPT ![t].effect = @ \o SubSeq(content, at + 1, at + n)]
  /\ UNCHANGED <<content, answers>>

\* Some more bytes of the data arrive.
Put(t) ==
  /\ calls[t].kind = "write"
  /\ LET done == Len(calls[t].effect)
         at == calls[t].offset
     IN  \E n \in done + 1 .. Len(calls[t].data) :
           /\ at + n <= Len(content)
           /\ content' = [i \in 1 .. Len(content) |->
                            IF i > at + done /\ i <= at + n THEN calls[t].data[i - at]
                                                             ELSE content[i]]
           /\ calls' = [calls EXCEPT ![t].effect = SubSeq(calls[t].data, 1, n)]
  /\ UNCHANGED answers

Answer(t) ==
  /\ calls[t] # NoCall
  /\ \/ answers' = [answers EXCEPT ![t] = Failure]
     \/ /\ calls[t].kind = "read" /\ Len(calls[t].effect) = calls[t].len
        /\ answers' = [answers EXCEPT ![t] = Success(calls[t].effect)]
     \/ /\ calls[t].kind = "write" /\ Len(calls[t].effect) = Len(calls[t].data)
        /\ answers' = [answers EXCEPT ![t] = Success(<<>>)]
  /\ calls' = [calls EXCEPT ![t] = NoCall]
  /\ UNCHANGED content

Next == \E t \in Threads : Call(t) \/ Take(t) \/ Put(t) \/ Answer(t)

Spec == Init /\ [][Next]_<<content, calls, answers>>
=============================================================================
