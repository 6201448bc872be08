---------------------------- MODULE HelperProofs ----------------------------
(***************************************************************************)
(* Theorems about the privileged helper: what HelperHistory states of the  *)
(* daemon's handles and of the device its callers see, for every number of *)
(* connections, threads and devices, every sector size and every cap.      *)
(*                                                                         *)
(* The inductive invariant HInv has a part for each kind of actor.  The    *)
(* daemon and its other clients (Sound): the replies a client has not      *)
(* heard and the requests the daemon has not read are, in order, those the *)
(* client waits for, and each handle it holds, or will once it has heard   *)
(* and before it closes it, is the open slot it asked for (Promised).  The *)
(* source (SourceOk): its connection is quiet unless a thread has the lock *)
(* and then carries that thread's one request, what the daemon answers it, *)
(* or its loss (ClientOk); and the bytes moved for a thread, one system    *)
(* call after the other, are those its call promises of the device,        *)
(* wherever they are on their way: in the thread's hands (ThreadOk), in    *)
(* the daemon's, or in its reply (Asking).                                 *)
(***************************************************************************)
EXTENDS HelperHistory, Induction, SequenceTheorems

-----------------------------------------------------------------------------
(* The values the state is made of. *)

Requests ==
  [type : {"open"}, path : Devices \cup Strays, writable : BOOLEAN]
    \cup [type : {"read"}, handle : Nat, offset : Nat, len : Int]
    \cup [type : {"write"}, handle : Nat, offset : Nat, data : Seq(Bytes)]
    \cup [type : {"close"}, handle : Nat]
    \cup {Malformed}

Replies ==
  [type : {"opened"}, handle : Nat, size : Nat]
    \cup [type : {"data"}, bytes : Seq(Bytes)]
    \cup {Written, ClosedReply}
    \cup [type : {"error"}, kind : {"NotAllowed", "ReadOnly", "Io"}]

Handles == {Closed} \cup [open : {TRUE}, device : Devices, writable : BOOLEAN]
Tables == {table \in Seq(Handles) : Len(table) <= MaxHandles}

ConnectionFields ==
  [client : {"none", "here", "gone"},
   server : {"none", "accepted", "serving", "replying", "ended"},
   allowed : BOOLEAN, inbox : Seq(Requests), outbox : Seq(Replies),
   table : Tables, reply : Replies \cup {NoReply}, part : Seq(Bytes)]

Connections ==
  {k \in ConnectionFields :
     /\ k.server = "replying" => k.reply \in Replies
     /\ k.part # <<>> => k.server = "serving" /\ k.inbox # <<>>}

Sources ==
  [via : {"none", "disk", "opening", "helper", "failed"},
   handle : Nat, size : Nat, writable : BOOLEAN]

Calls ==
  {NoCall}
    \cup [kind : {"read"}, offset : Nat, len : Nat \ {0}, effect : Seq(Bytes)]
    \cup [kind : {"write"}, offset : Nat, data : Seq(Bytes) \ {<<>>}, effect : Seq(Bytes)]

Steps ==
  [at : {"idle", "checking", "reading", "writing"}, block : Seq(Bytes), done : Nat]

DaemonTypes ==
  /\ daemon \in {"up", "down"}
  /\ conn \in [Conns -> Connections]
  /\ disk \in [Devices -> Seq(Bytes)]

SourceTypes ==
  /\ source \in Sources
  /\ lock \in Threads \cup {NoThread}
  /\ calls \in [Threads -> Calls]
  /\ step \in [Threads -> Steps]
  /\ answers \in [Threads -> [ok : BOOLEAN, bytes : Seq(Bytes)]]

HistoryTypes ==
  /\ DOMAIN granted = Others /\ \A c \in Others : DOMAIN granted[c] \subseteq Nat
  /\ asked \in [Others -> Seq(Requests)]

-----------------------------------------------------------------------------
(* Other clients. *)

\* The replies on their way, in their order.
Pending(k) == IF k.server = "replying" THEN Append(k.outbox, k.reply) ELSE k.outbox

\* Slot h of a table is open, for what was asked.
Names(table, h, handle) == h < Len(table) /\ table[h + 1] = handle /\ handle # Closed

\* The client waits for the replies p and for the answers to the requests q.
InOrder(p, q, a) ==
  Len(a) = Len(p) + Len(q) /\ \A i \in 1 .. Len(q) : a[Len(p) + i] = q[i]

\* A handle that a client holds, or is about to hear of, or has asked to close,
\* is an open slot that stands for what the client opened.
Held(table, g) == \A h \in DOMAIN g : Names(table, h, g[h])

ToHear(p, table, g, a) ==
  \A i \in 1 .. Len(p) : p[i].type = "opened" =>
    /\ p[i].handle \notin DOMAIN g
    /\ Names(table, p[i].handle, Handle(a[i].path, a[i].writable))
    /\ \A j \in 1 .. Len(p) : p[j].type = "opened" /\ p[j].handle = p[i].handle => j = i

ToClose(p, q, table, g) ==
  \A i \in 1 .. Len(q) : q[i].type = "close" =>
    /\ q[i].handle \notin DOMAIN g
    /\ Names(table, q[i].handle, table[q[i].handle + 1])
    /\ \A j \in 1 .. Len(p) : p[j].type = "opened" => p[j].handle # q[i].handle
    /\ \A j \in 1 .. Len(q) : q[j].type = "close" /\ q[j].handle = q[i].handle => j = i

Promised(p, q, table, g, a) ==
  InOrder(p, q, a) /\ Held(table, g) /\ ToHear(p, table, g, a) /\ ToClose(p, q, table, g)

\* Other clients have no handle of the source's device.
Apart(k) ==
  /\ \A i \in 1 .. Len(k.inbox) : k.inbox[i].type = "open" => k.inbox[i].path # Device
  /\ \A i \in 1 .. Len(k.table) : k.table[i] # Closed => k.table[i].device # Device

OtherOk(k, g, a) ==
  /\ k.client = "none" => k = NewConn /\ g = <<>> /\ a = <<>>
  /\ Len(k.outbox) <= Len(a)
  /\ k.server # "ended" => Promised(Pending(k), k.inbox, k.table, g, a)
  /\ Apart(k)

OthersOk == \A c \in Others : OtherOk(conn[c], granted[c], asked[c])

-----------------------------------------------------------------------------
(* The calls of the threads. *)

Fresh(t) == calls[t].effect = NoEffect
Span(t) == To(t) - From(t)

\* `part` is what has been read of the aligned bytes so far.  A read keeps what it
\* saw; nobody but the writer changes what the writer has read.
Reads(t, part) ==
  /\ part \in Seq(Bytes) /\ Len(part) <= Span(t) /\ From(t) + Len(part) <= source.size
  /\ calls[t].kind = "read" => calls[t].effect = ReadSoFar(t, part)
  /\ calls[t].kind = "write" => Fresh(t) /\ part = Slice(disk[Device], From(t), From(t) + Len(part))

\* The first n of the aligned bytes have been written; around the caller's bytes
\* they are the device's own.
Writes(t, n) ==
  LET block == step[t].block
  IN  /\ n \in 0 .. Len(block) /\ calls[t].effect = WrittenSoFar(t, n)
      /\ \A i \in 1 .. Len(block) :
           block[i] = IF i > HeadOf(t) /\ i <= HeadOf(t) + Len(calls[t].data)
                        THEN calls[t].data[i - HeadOf(t)] ELSE disk[Device][From(t) + i]

ThreadOk(t) ==
  /\ step[t].at = "idle" <=> calls[t] = NoCall
  /\ calls[t] # NoCall => Ready /\ Offset(t) < source.size
  /\ calls[t] # NoCall /\ calls[t].kind = "write" => t \in Writers
  /\ step[t].at = "checking" => Fresh(t)
  /\ step[t].at \in {"reading", "writing"} => Offset(t) + Count(t) <= source.size
  /\ step[t].at = "reading" =>
       /\ source.via = "disk" \/ step[t].block = <<>>
       /\ lock # t => Reads(t, step[t].block)
  /\ step[t].at = "writing" =>
       /\ calls[t].kind = "write" /\ To(t) <= source.size /\ Len(step[t].block) = Span(t)
       /\ source.via = "disk" \/ step[t].done = 0
       /\ lock # t => Writes(t, step[t].done)

ThreadsOk == \A t \in Threads : ThreadOk(t)

-----------------------------------------------------------------------------
(* The connection of the source. *)

Quiet(k) == k.outbox = <<>> /\ (k.server = "ended" \/ (k.server # "replying" /\ k.inbox = <<>>))
Asked(k, req) == k.server \in {"accepted", "serving"} /\ k.inbox = <<req>> /\ k.outbox = <<>>
Answering(k, r) ==
  \/ k.server = "replying" /\ k.inbox = <<>> /\ k.outbox = <<>> /\ k.reply = r
  \/ k.server = "serving" /\ k.inbox = <<>> /\ k.outbox = <<r>>
  \/ k.server = "ended" /\ k.outbox = <<r>>
Lost(k) == k.server = "ended" /\ k.outbox = <<>>

Serves(k) == k.server \in {"serving", "replying"}

OpenReply(k, r) ==
  r.type = "opened" =>
    /\ r.size = Len(disk[Device])
    /\ Serves(k) => Names(k.table, r.handle, Handle(Device, source.writable))

CallReply(t, r) ==
  \/ r.type = "error"
  \/ r.type = "data" /\ step[t].at = "reading" /\ Len(r.bytes) = Span(t) /\ Reads(t, r.bytes)
  \/ r.type = "written" /\ step[t].at = "writing" /\ Writes(t, Len(step[t].block))

\* What the daemon has moved for the thread's request.
Moving(t, part) ==
  IF step[t].at = "reading" THEN Reads(t, part) ELSE Writes(t, Len(part))

Opening(k) ==
  \/ Asked(k, OpenRequest(Device, source.writable))
  \/ Lost(k)
  \/ \E r \in Replies : Answering(k, r) /\ OpenReply(k, r)

Asking(k, t) ==
  \/ Asked(k, RequestOf(t)) /\ Moving(t, k.part)
  \/ Lost(k)
  \/ \E r \in Replies : Answering(k, r) /\ CallReply(t, r)

ClientOk ==
  LET k == conn[Client]
  IN  /\ Ready => source.size = Len(disk[Device])
      /\ lock # NoThread => source.via = "helper" /\ step[lock].at \in {"reading", "writing"}
      /\ source.via \in {"none", "disk", "failed"} => Quiet(k)
      /\ source.via = "opening" => Opening(k)
      /\ source.via = "helper" =>
           /\ IF lock = NoThread THEN Quiet(k) ELSE Asking(k, lock)
           /\ k.server \notin {"none", "accepted"}
           /\ Serves(k) => Names(k.table, source.handle, Handle(Device, source.writable))

\* The daemon and its other clients; the source; the invariant.
Sound == DaemonTypes /\ HistoryTypes /\ OthersOk
SourceOk == SourceTypes /\ ThreadsOk /\ ClientOk
HInv == Sound /\ SourceOk

-----------------------------------------------------------------------------
(* Bytes and sectors. *)

\* A slice of a sequence.
LEMMA SliceAt ==
  ASSUME NEW s \in Seq(Bytes), NEW from \in Nat, NEW to \in Nat, from <= to, to <= Len(s)
  PROVE  /\ Slice(s, from, to) \in Seq(Bytes) /\ Len(Slice(s, from, to)) = to - from
         /\ \A i \in 1 .. to - from : Slice(s, from, to)[i] = s[from + i]
BY DEF Slice

LEMMA SliceSize ==
  ASSUME NEW s \in Seq(Bytes), NEW from \in Nat, NEW to \in Nat, from <= to, to <= Len(s)
  PROVE  Slice(s, from, to) \in Seq(Bytes) /\ Len(Slice(s, from, to)) = to - from
BY SliceAt

\* Bytes laid over others: the length stays.
LEMMA PatchedIs ==
  ASSUME NEW s \in Seq(Bytes), NEW head \in Nat, NEW data \in Seq(Bytes)
  PROVE  /\ Patched(s, head, data) \in Seq(Bytes) /\ Len(Patched(s, head, data)) = Len(s)
         /\ \A i \in 1 .. Len(s) :
              Patched(s, head, data)[i] =
                IF i > head /\ i <= head + Len(data) THEN data[i - head] ELSE s[i]
<1>. DEFINE at(i) == IF i > head /\ i <= head + Len(data) THEN data[i - head] ELSE s[i]
<1>1. Len(s) \in Nat /\ Len(data) \in Nat
  OBVIOUS
<1>2. ASSUME NEW i \in 1 .. Len(s) PROVE at(i) \in Bytes
  <2>1. CASE i > head /\ i <= head + Len(data)
    <3>1. i - head \in 1 .. Len(data)
      BY <1>1, <2>1
    <3>2. QED
      BY <2>1, <3>1
  <2>2. CASE ~ (i > head /\ i <= head + Len(data))
    BY <2>2
  <2>3. QED
    BY <2>1, <2>2
<1>. HIDE DEF at
<1>3. Patched(s, head, data) = [i \in 1 .. Len(s) |-> at(i)]
  BY DEF Patched, at
<1>4. [i \in 1 .. Len(s) |-> at(i)] \in [1 .. Len(s) -> Bytes]
  BY <1>2
<1>5. [i \in 1 .. Len(s) |-> at(i)] \in Seq(Bytes) /\ Len([i \in 1 .. Len(s) |-> at(i)]) = Len(s)
  BY <1>1, <1>4
<1>6. QED
  BY <1>3, <1>5 DEF at

\* A part of a sequence, by where it starts and how long it is.
LEMMA PartIs ==
  ASSUME NEW s \in Seq(Bytes), NEW from \in Nat, NEW n \in Nat, n = 0 \/ from + n <= Len(s)
  PROVE  /\ SubSeq(s, from + 1, from + n) \in Seq(Bytes) /\ Len(SubSeq(s, from + 1, from + n)) = n
         /\ \A i \in 1 .. n : SubSeq(s, from + 1, from + n)[i] = s[from + i]
<1>. DEFINE a == from + 1
            b == from + n
<1>1. a \in Int /\ b \in Int /\ \A i \in a .. b : s[i] \in Bytes
  OBVIOUS
<1>2. b - a + 1 = n /\ (IF a <= b THEN b - a + 1 ELSE 0) = n
  BY n \in Nat, from \in Nat
<1>5. \A i \in 1 .. n : a + i - 1 = from + i
  BY n \in Nat, from \in Nat
<1>. HIDE DEF a, b
<1>3. /\ SubSeq(s, a, b) \in Seq(Bytes)
      /\ Len(SubSeq(s, a, b)) = IF a <= b THEN b - a + 1 ELSE 0
      /\ \A i \in 1 .. b - a + 1 : SubSeq(s, a, b)[i] = s[a + i - 1]
  BY <1>1, SubSeqProperties
<1>4. QED
  BY <1>2, <1>3, <1>5 DEF a, b

\* Two sequences joined, and when the result is a third.
LEMMA JoinIs ==
  ASSUME NEW x \in Seq(Bytes), NEW y \in Seq(Bytes), NEW z \in Seq(Bytes), Len(z) = Len(x) + Len(y),
         \A i \in 1 .. Len(x) : z[i] = x[i], \A i \in 1 .. Len(y) : z[Len(x) + i] = y[i]
  PROVE  z = x \o y
<1>. DEFINE o == Len(x)
            p == Len(y)
<1>1. x \o y \in Seq(Bytes) /\ Len(x \o y) = o + p
      /\ \A i \in 1 .. o + p : (x \o y)[i] = IF i <= o THEN x[i] ELSE y[i - o]
  BY ConcatProperties
<1>2. ASSUME NEW i \in 1 .. o + p PROVE z[i] = (x \o y)[i]
  <2>1. CASE i <= o
    BY <1>1, <2>1
  <2>2. CASE i > o
    <3>1. i - o \in 1 .. p /\ o + (i - o) = i
      BY <2>2
    <3>. DEFINE j == i - o
    <3>2. z[o + j] = y[j]
      BY <3>1
    <3>3. QED
      BY <1>1, <2>2, <3>1, <3>2
  <2>3. QED
    BY <2>1, <2>2
<1>. DEFINE w == x \o y
<1>. HIDE DEF w
<1>3. w \in Seq(Bytes) /\ Len(z) = Len(w) /\ \A i \in 1 .. Len(z) : z[i] = w[i]
  BY <1>1, <1>2 DEF w
<1>4. z = w
  BY <1>3, SeqEqual
<1>5. QED
  BY <1>4 DEF w

\* Bytes of a device behind others.
LEMMA JoinedIs ==
  ASSUME NEW a \in Seq(Bytes), NEW s \in Seq(Bytes), NEW at \in Nat, NEW n \in Nat, at + n <= Len(s)
  PROVE  /\ a \o Slice(s, at, at + n) \in Seq(Bytes) /\ Len(a \o Slice(s, at, at + n)) = Len(a) + n
         /\ \A i \in 1 .. Len(a) + n :
              (a \o Slice(s, at, at + n))[i] = IF i <= Len(a) THEN a[i] ELSE s[at + (i - Len(a))]
<1>. DEFINE m == SubSeq(s, at + 1, at + n)
<1>1. m \in Seq(Bytes) /\ Len(m) = n /\ \A i \in 1 .. n : m[i] = s[at + i]
  BY PartIs
<1>2. m = Slice(s, at, at + n)
  BY DEF Slice
<1>. HIDE DEF m
<1>3. /\ a \o m \in Seq(Bytes) /\ Len(a \o m) = Len(a) + n
      /\ \A i \in 1 .. Len(a) + n : (a \o m)[i] = IF i <= Len(a) THEN a[i] ELSE m[i - Len(a)]
  BY <1>1, ConcatProperties
<1>4. ASSUME NEW i \in 1 .. Len(a) + n
      PROVE  (a \o m)[i] = IF i <= Len(a) THEN a[i] ELSE s[at + (i - Len(a))]
  <2>1. (a \o m)[i] = IF i <= Len(a) THEN a[i] ELSE m[i - Len(a)]
    BY <1>3
  <2>2. i > Len(a) => i - Len(a) \in 1 .. n
    OBVIOUS
  <2>3. QED
    BY <1>1, <2>1, <2>2
<1>5. QED
  BY <1>2, <1>3, <1>4

Joined(b, a, s, at, n) ==
  /\ b \in Seq(Bytes) /\ Len(b) = Len(a) + n
  /\ \A i \in 1 .. Len(a) + n : b[i] = IF i <= Len(a) THEN a[i] ELSE s[at + (i - Len(a))]

LEMMA JoinedAre ==
  ASSUME NEW a \in Seq(Bytes), NEW s \in Seq(Bytes), NEW at \in Nat, NEW n \in Nat, at + n <= Len(s),
         NEW b, b = a \o Slice(s, at, at + n)
  PROVE  Joined(b, a, s, at, n)
BY JoinedIs DEF Joined

\* Of cnt bytes behind the first head, those among the first n of all.
Upto(n, head, cnt) == IF n < head THEN 0 ELSE Smaller(n - head, cnt)

LEMMA UptoIs ==
  ASSUME NEW n \in Nat, NEW head \in Nat, NEW cnt \in Nat
  PROVE  /\ Upto(n, head, cnt) \in 0 .. cnt
         /\ Upto(n, head, cnt) > 0 => head + Upto(n, head, cnt) <= n
         /\ Upto(n, head, cnt) < cnt => n <= head + Upto(n, head, cnt)
         /\ head + cnt <= n => Upto(n, head, cnt) = cnt
         /\ n <= head => Upto(n, head, cnt) = 0
BY DEF Upto, Smaller

LEMMA UptoMore ==
  ASSUME NEW n \in Nat, NEW m \in Nat, NEW head \in Nat, NEW cnt \in Nat
  PROVE  Upto(n + m, head, cnt) \in Upto(n, head, cnt) .. cnt
BY DEF Upto, Smaller

\* Reading on: the caller's bytes grow by the device's own, in order.
Follow(a, b, s, from, head, o, p) ==
  /\ SubSeq(a, head + 1, head + o) \in Seq(Bytes) /\ Len(SubSeq(a, head + 1, head + o)) = o
  /\ SubSeq(b, head + 1, head + p)
       = SubSeq(a, head + 1, head + o) \o SubSeq(s, (from + head + o) + 1, (from + head + o) + (p - o))

LEMMA TakenMore ==
  ASSUME NEW a \in Seq(Bytes), NEW s \in Seq(Bytes), NEW from \in Nat, NEW head \in Nat,
         NEW cnt \in Nat, NEW l \in Nat, l = Len(a), NEW n \in Nat, from + l + n <= Len(s),
         NEW b, Joined(b, a, s, from + l, n),
         NEW o \in 0 .. cnt, NEW p \in o .. cnt,
         o > 0 => head + o <= l, p > 0 => head + p <= l + n, o < cnt => l <= head + o
  PROVE  Follow(a, b, s, from, head, o, p)
<1>. DEFINE x == SubSeq(a, head + 1, head + o)
            y == SubSeq(b, head + 1, head + p)
            at == from + head + o
            q == p - o
            z == SubSeq(s, at + 1, at + q)
<1>0. /\ b \in Seq(Bytes) /\ Len(b) = l + n
      /\ \A i \in 1 .. l + n : b[i] = IF i <= l THEN a[i] ELSE s[from + l + (i - l)]
  BY DEF Joined
<1>1. o \in Nat /\ p \in Nat /\ q \in Nat /\ at \in Nat /\ p = o + q /\ (q = 0 \/ at + q <= Len(s))
  OBVIOUS
<1>2. x \in Seq(Bytes) /\ Len(x) = o /\ \A i \in 1 .. o : x[i] = a[head + i]
  <2>1. o = 0 \/ head + o <= Len(a)
    OBVIOUS
  <2>2. QED
    BY <1>1, <2>1, PartIs
<1>3. y \in Seq(Bytes) /\ Len(y) = p /\ \A i \in 1 .. p : y[i] = b[head + i]
  <2>1. p = 0 \/ head + p <= Len(b)
    BY <1>0
  <2>2. QED
    BY <1>0, <1>1, <2>1, PartIs
<1>. HIDE DEF q, at
<1>4. z \in Seq(Bytes) /\ Len(z) = q /\ \A i \in 1 .. q : z[i] = s[at + i]
  BY <1>1, PartIs
<1>. HIDE DEF x, y, z
<1>5. ASSUME NEW i \in 1 .. o PROVE y[i] = x[i]
  <2>1. head + i \in 1 .. l + n /\ head + i <= l /\ i \in 1 .. p
    BY <1>1
  <2>2. QED
    BY <1>0, <1>2, <1>3, <2>1
<1>6. ASSUME NEW i \in 1 .. q PROVE y[o + i] = z[i]
  <2>. DEFINE j == head + (o + i)
  <2>1. o + i \in 1 .. p /\ j \in 1 .. l + n /\ ~ (j <= l)
    BY <1>1
  <2>2. from + l + (j - l) = at + i
    BY <1>1 DEF at
  <2>3. y[o + i] = b[j]
    BY <1>3, <2>1
  <2>4. b[j] = s[from + l + (j - l)]
    BY <1>0, <2>1
  <2>5. QED
    BY <1>4, <2>2, <2>3, <2>4
<1>7. y = x \o z
  <2>1. Len(y) = Len(x) + Len(z)
    BY <1>1, <1>2, <1>3, <1>4
  <2>2. \A i \in 1 .. Len(x) : y[i] = x[i]
    BY <1>2, <1>5
  <2>3. \A i \in 1 .. Len(z) : y[Len(x) + i] = z[i]
    BY <1>2, <1>4, <1>6
  <2>4. QED
    BY <1>2, <1>3, <1>4, <2>1, <2>2, <2>3, JoinIs
<1>8. QED
  BY <1>2, <1>7 DEF Follow, x, y, z, at, q

\* Two slices that meet are one.
LEMMA SlicesMeet ==
  ASSUME NEW s \in Seq(Bytes), NEW from \in Nat, NEW l \in Nat, NEW n \in Nat, from + l + n <= Len(s)
  PROVE  Slice(s, from, from + l) \o Slice(s, from + l, from + l + n) = Slice(s, from, from + (l + n))
<1>. DEFINE at == from + l
            k == l + n
            a == SubSeq(s, from + 1, from + l)
            b == SubSeq(s, at + 1, at + n)
            c == SubSeq(s, from + 1, from + k)
<1>1. at \in Nat /\ k \in Nat /\ at + n <= Len(s) /\ from + k <= Len(s) /\ from + l <= Len(s) /\ k = l + n
  OBVIOUS
<1>2. a \in Seq(Bytes) /\ Len(a) = l /\ \A i \in 1 .. l : a[i] = s[from + i]
  BY <1>1, PartIs
<1>3. a = Slice(s, from, from + l) /\ b = Slice(s, from + l, from + l + n) /\ c = Slice(s, from, from + (l + n))
  BY DEF Slice
<1>. HIDE DEF a, k, at
<1>4. c \in Seq(Bytes) /\ Len(c) = k /\ \A i \in 1 .. k : c[i] = s[from + i]
  <2>1. s \in Seq(Bytes) /\ from \in Nat /\ k \in Nat /\ from + k <= Len(s)
    BY <1>1
  <2>2. QED
    BY ONLY <2>1, PartIs DEF c
<1>5. b \in Seq(Bytes) /\ Len(b) = n /\ \A i \in 1 .. n : b[i] = s[at + i]
  <2>1. s \in Seq(Bytes) /\ at \in Nat /\ n \in Nat /\ at + n <= Len(s)
    BY <1>1
  <2>2. QED
    BY ONLY <2>1, PartIs DEF b
<1>. HIDE DEF b, c
<1>6. ASSUME NEW i \in 1 .. l PROVE c[i] = a[i]
  <2>1. i \in 1 .. k
    BY ONLY <1>1
  <2>2. c[i] = s[from + i] /\ a[i] = s[from + i]
    BY <1>2, <1>4, <2>1, Zenon
  <2>3. QED
    BY <2>2
<1>7. ASSUME NEW i \in 1 .. n PROVE c[l + i] = b[i]
  <2>1. l + i \in 1 .. k /\ from + (l + i) = at + i
    BY <1>1 DEF at
  <2>2. QED
    BY <1>4, <1>5, <2>1
<1>8. c = a \o b
  <2>1. Len(c) = Len(a) + Len(b)
    BY <1>1, <1>2, <1>4, <1>5
  <2>2. \A i \in 1 .. Len(a) : c[i] = a[i]
    BY <1>2, <1>6
  <2>3. \A i \in 1 .. Len(b) : c[Len(a) + i] = b[i]
    BY <1>2, <1>5, <1>7
  <2>4. QED
    BY <1>2, <1>4, <1>5, <2>1, <2>2, <2>3, JoinIs
<1>9. QED
  BY <1>3, <1>8

\* Bytes put down from the middle of a buffer.
Laid(u, s, at, data, done, n) ==
  /\ u \in Seq(Bytes) /\ Len(u) = Len(s)
  /\ \A i \in 1 .. Len(s) :
       u[i] = IF i > at /\ i <= at + n THEN data[done + (i - at)] ELSE s[i]

LEMMA PutDown ==
  ASSUME NEW s \in Seq(Bytes), NEW at \in Nat, NEW data \in Seq(Bytes), NEW done \in Nat, NEW n \in Nat,
         done + n <= Len(data), NEW u, u = Patched(s, at, Slice(data, done, done + n))
  PROVE  Laid(u, s, at, data, done, n)
<1>. DEFINE d == SubSeq(data, done + 1, done + n)
<1>1. d \in Seq(Bytes) /\ Len(d) = n /\ \A i \in 1 .. n : d[i] = data[done + i]
  BY PartIs
<1>2. d = Slice(data, done, done + n)
  BY DEF Slice
<1>. HIDE DEF d
<1>3. /\ u \in Seq(Bytes) /\ Len(u) = Len(s)
      /\ \A i \in 1 .. Len(s) : u[i] = IF i > at /\ i <= at + Len(d) THEN d[i - at] ELSE s[i]
  <2>1. u = Patched(s, at, d)
    BY <1>2
  <2>2. QED
    BY <1>1, <2>1, PatchedIs
<1>4. ASSUME NEW i \in 1 .. Len(s)
      PROVE  u[i] = IF i > at /\ i <= at + n THEN data[done + (i - at)] ELSE s[i]
  <2>1. i > at /\ i <= at + n => i - at \in 1 .. n
    OBVIOUS
  <2>2. QED
    BY <1>1, <1>3, <2>1
<1>5. QED
  BY <1>3, <1>4 DEF Laid

\* Writing on: of the caller's bytes the next ones arrive, and none of the others
\* on the device is touched.
LEMMA SameSpot ==
  ASSUME NEW j \in Int, NEW head \in Nat, NEW cnt \in Nat, NEW m \in Nat, NEW n \in Nat,
         NEW o \in 0 .. cnt, NEW p \in o .. cnt,
         o > 0 => head + o <= m, o < cnt => m <= head + o,
         p > 0 => head + p <= m + n, p < cnt => m + n <= head + p
  PROVE  /\ j > m /\ j <= m + n => ((j > head /\ j <= head + cnt) <=> (j > head + o /\ j <= head + p))
         /\ ~ (j > m /\ j <= m + n) => ~ (j > head + o /\ j <= head + p)
OBVIOUS

Overlaid(u, s, data, off, o, p) ==
  /\ u \in Seq(Bytes) /\ Len(u) = Len(s)
  /\ u = [i \in 1 .. Len(s) |-> IF i > off + o /\ i <= off + p THEN data[i - off] ELSE s[i]]

Around(block, data, head, s, from) ==
  \A i \in 1 .. Len(block) :
    block[i] = IF i > head /\ i <= head + Len(data) THEN data[i - head] ELSE s[from + i]

LEMMA WrittenMore ==
  ASSUME NEW s \in Seq(Bytes), NEW block \in Seq(Bytes), NEW data \in Seq(Bytes),
         NEW from \in Nat, NEW head \in Nat, NEW m \in Nat, NEW n \in Nat,
         m + n <= Len(block), from + Len(block) <= Len(s),
         Around(block, data, head, s, from),
         NEW o \in 0 .. Len(data), NEW p \in o .. Len(data),
         o > 0 => head + o <= m, o < Len(data) => m <= head + o,
         p > 0 => head + p <= m + n, p < Len(data) => m + n <= head + p,
         NEW at, at = from + m, NEW off, off = from + head,
         NEW u, u = Patched(s, at, Slice(block, m, m + n))
  PROVE  Overlaid(u, s, data, off, o, p) /\ Around(block, data, head, u, from)
<1>. DEFINE cnt == Len(data)
            l == Len(block)
<1>1. cnt \in Nat /\ l \in Nat /\ at \in Nat /\ off \in Nat
  OBVIOUS
<1>a. /\ s \in Seq(Bytes) /\ at \in Nat /\ block \in Seq(Bytes) /\ m \in Nat /\ n \in Nat
      /\ m + n <= Len(block) /\ u = Patched(s, at, Slice(block, m, m + n))
  BY <1>1
<1>b. Laid(u, s, at, block, m, n)
  BY ONLY <1>a, PutDown, Zenon
<1>2. /\ u \in Seq(Bytes) /\ Len(u) = Len(s)
      /\ \A i \in 1 .. Len(s) : u[i] = IF i > at /\ i <= at + n THEN block[m + (i - at)] ELSE s[i]
  BY <1>b DEF Laid
<1>3. ASSUME NEW i \in 1 .. Len(s)
      PROVE  u[i] = IF i > off + o /\ i <= off + p THEN data[i - off] ELSE s[i]
  <2>. DEFINE j == i - from
  <2>0. i \in Int /\ o \in Int /\ p \in Int /\ at = from + m /\ off = from + head
    BY <1>1
  <2>a. i \in Int /\ o \in Int /\ p \in Int /\ j \in Int /\ from + j = i /\ m + (i - at) = j /\ i - off = j - head
    BY ONLY <2>0, from \in Nat, m \in Nat, head \in Nat
  <2>b. (i > at /\ i <= at + n) <=> (j > m /\ j <= m + n)
    BY ONLY <2>0, from \in Nat, m \in Nat, n \in Nat
  <2>c. (i > off + o /\ i <= off + p) <=> (j > head + o /\ j <= head + p)
    BY ONLY <2>0, from \in Nat, head \in Nat
  <2>1. /\ j \in Int /\ from + j = i /\ m + (i - at) = j /\ i - off = j - head
        /\ (i > at /\ i <= at + n) <=> (j > m /\ j <= m + n)
        /\ (i > off + o /\ i <= off + p) <=> (j > head + o /\ j <= head + p)
    BY <2>a, <2>b, <2>c
  <2>2. /\ j > m /\ j <= m + n => ((j > head /\ j <= head + cnt) <=> (j > head + o /\ j <= head + p))
        /\ ~ (j > m /\ j <= m + n) => ~ (j > head + o /\ j <= head + p)
    <3>. HIDE DEF j
    <3>1. QED
      BY <1>1, <2>1, SameSpot
  <2>3. j > m /\ j <= m + n => j \in 1 .. l
    BY <1>1
  <2>4. u[i] = IF i > at /\ i <= at + n THEN block[m + (i - at)] ELSE s[i]
    BY <1>2
  <2>5. j \in 1 .. l => block[j] = IF j > head /\ j <= head + cnt THEN data[j - head] ELSE s[from + j]
    BY DEF Around
  <2>. HIDE DEF j, l, cnt
  <2>6. QED
    BY <2>1, <2>2, <2>3, <2>4, <2>5
<1>4. u = [i \in 1 .. Len(s) |-> IF i > off + o /\ i <= off + p THEN data[i - off] ELSE s[i]]
  <2>1. u = [i \in 1 .. Len(s) |-> u[i]]
    BY ONLY <1>2, Len(s) \in Nat
  <2>2. QED
    BY <1>3, <2>1, Zenon
<1>5. ASSUME NEW j \in 1 .. Len(block)
      PROVE  block[j] = IF j > head /\ j <= head + Len(data) THEN data[j - head] ELSE u[from + j]
  <2>. DEFINE i == from + j
  <2>1. i \in 1 .. Len(s) /\ (i > at /\ i <= at + n => m + (i - at) = j)
    BY <1>1
  <2>2. u[i] = IF i > at /\ i <= at + n THEN block[m + (i - at)] ELSE s[i]
    BY <1>2, <2>1
  <2>3. block[j] = IF j > head /\ j <= head + Len(data) THEN data[j - head] ELSE s[i]
    BY DEF Around
  <2>. HIDE DEF i
  <2>4. u[i] = block[j] \/ u[i] = s[i]
    BY <2>1, <2>2
  <2>5. block[j] = IF j > head /\ j <= head + Len(data) THEN data[j - head] ELSE u[i]
    BY <2>3, <2>4
  <2>6. QED
    BY <2>5 DEF i
<1>6. QED
  BY <1>2, <1>4, <1>5 DEF Overlaid, Around

\* The sector an offset lies in, and the end of the last sector of a range.
LEMMA StartIs ==
  ASSUME NEW x \in Nat, NEW b \in Nat \ {0}
  PROVE  StartOf(x, b) \in Nat /\ StartOf(x, b) <= x
BY DEF StartOf

LEMMA EndIs ==
  ASSUME NEW x \in Nat, NEW n \in Nat, NEW b \in Nat \ {0}
  PROVE  EndOf(x, n, b) \in Nat /\ x + n <= EndOf(x, n, b)
<1>. DEFINE y == x + n + b - 1
            q == y \div b
<1>1. y \in Nat /\ b \in Nat /\ b > 0
  OBVIOUS
<1>. HIDE DEF y
<1>2. q \in Nat /\ y % b \in 0 .. b - 1
  BY <1>1
<1>3. y = b * q + (y % b)
  BY <1>1
<1>4. q * b = b * q /\ q * b \in Nat
  BY <1>1, <1>2
<1>. HIDE DEF q
<1>5. y = x + n + b - 1
  BY DEF y
<1>6. EndOf(x, n, b) = q * b
  BY DEF EndOf, q, y
<1>7. DEFINE p == q * b
<1>. HIDE DEF p
<1>8. y = p + (y % b) /\ p \in Nat
  BY <1>3, <1>4 DEF p
<1>9. QED
  BY <1>1, <1>2, <1>5, <1>6, <1>8 DEF p

\* What one system call may move.
LEMMA MovesIs ==
  ASSUME NEW s \in Seq(Bytes), NEW offset \in Nat, NEW n \in Int, NEW m \in Moves(s, offset, n)
  PROVE  m \in Nat \ {0} /\ m <= n /\ offset + m <= Len(s)
BY DEF Moves, Room, Smaller

-----------------------------------------------------------------------------
(* The table of a connection, and what may come of a request. *)

USE HandlesAssumption

LEMMA Smallest ==
  ASSUME NEW T, T \subseteq Nat, T # {}
  PROVE  \E x \in T : \A y \in T : x <= y
<1>1. PICK x \in T : \A y \in T : ~ (<<y, x>> \in LT)
  BY LTWellFounded, WFMin
<1>2. ASSUME NEW y \in T PROVE x <= y
  <2>1. x \in Nat /\ y \in Nat
    OBVIOUS
  <2>2. ASSUME y < x PROVE FALSE
    <3>1. <<y, x>> \in LT
      BY <2>1, <2>2 DEF LT
    <3>2. QED
      BY <1>1, <3>1
  <2>3. QED
    BY <2>1, <2>2
<1>3. QED
  BY <1>2

\* The slot given out is free, and right behind the table at most.
LEMMA SlotIs ==
  ASSUME NEW table \in Seq(Handles)
  PROVE  /\ Slot(table) \in 1 .. Len(table) + 1
         /\ Slot(table) <= Len(table) => table[Slot(table)] = Closed
<1>. DEFINE free == {i \in 1 .. Len(table) : table[i] = Closed}
<1>1. CASE free = {}
  BY <1>1 DEF Slot
<1>2. CASE free # {}
  <2>1. free \subseteq Nat
    OBVIOUS
  <2>2. Slot(table) = CHOOSE i \in free : \A j \in free : i <= j
    BY <1>2 DEF Slot
  <2>. HIDE DEF free
  <2>3. \E i \in free : \A j \in free : i <= j
    BY <1>2, <2>1, Smallest
  <2>4. Slot(table) \in free
    BY <2>2, <2>3
  <2>5. QED
    BY <2>4 DEF free
<1>3. QED
  BY <1>1, <1>2

\* A handle put into a slot.
LEMMA WithHandleIs ==
  ASSUME NEW table \in Seq(Handles), NEW i \in 1 .. Len(table) + 1, NEW handle \in Handles
  PROVE  LET u == WithHandle(table, i, handle)
         IN  /\ u \in Seq(Handles) /\ Len(u) = (IF i <= Len(table) THEN Len(table) ELSE i)
             /\ u[i] = handle /\ \A j \in 1 .. Len(table) : j # i => u[j] = table[j]
<1>. DEFINE n == IF i <= Len(table) THEN Len(table) ELSE i
            at(j) == IF j = i THEN handle ELSE table[j]
<1>1. /\ n \in Nat /\ 1 .. Len(table) \cup {i} = 1 .. n /\ i \in 1 .. n
      /\ \A j \in 1 .. n : j # i => j \in 1 .. Len(table)
      /\ \A j \in 1 .. Len(table) : j \in 1 .. n
  OBVIOUS
<1>2. ASSUME NEW j \in 1 .. n PROVE at(j) \in Handles
  BY <1>1
<1>3. WithHandle(table, i, handle) = [j \in 1 .. n |-> at(j)]
  BY <1>1 DEF WithHandle
<1>. HIDE DEF n
<1>4. /\ [j \in 1 .. n |-> at(j)] \in Seq(Handles) /\ Len([j \in 1 .. n |-> at(j)]) = n
      /\ \A j \in 1 .. n : [k \in 1 .. n |-> at(k)][j] = at(j)
  BY <1>1, <1>2
<1>5. QED
  BY <1>1, <1>3, <1>4 DEF n

\* A slot closed.
LEMMA WithoutHandleIs ==
  ASSUME NEW table \in Seq(Handles), NEW h \in Nat
  PROVE  LET u == [j \in 1 .. Len(table) |-> IF j = h + 1 THEN Closed ELSE table[j]]
         IN  /\ u \in Seq(Handles) /\ Len(u) = Len(table)
             /\ \A j \in 1 .. Len(table) : u[j] = IF j = h + 1 THEN Closed ELSE table[j]
<1>0. Closed \in Handles
  BY DEF Handles
<1>1. ASSUME NEW j \in 1 .. Len(table) PROVE (IF j = h + 1 THEN Closed ELSE table[j]) \in Handles
  BY <1>0
<1>2. QED
  BY <1>1

\* The kinds of requests.
LEMMA RequestKinds ==
  ASSUME NEW req \in Requests
  PROVE  /\ req.type \in {"open", "read", "write", "close", "malformed"}
         /\ req.type = "open" => req.path \in Devices \cup Strays /\ req.writable \in BOOLEAN
         /\ req.type = "read" => req.handle \in Nat /\ req.offset \in Nat /\ req.len \in Int
         /\ req.type = "write" => req.handle \in Nat /\ req.offset \in Nat /\ req.data \in Seq(Bytes)
         /\ req.type = "close" => req.handle \in Nat
         /\ req.type = "malformed" <=> req = Malformed
BY DEF Requests, Malformed

LEMMA RequestsMade ==
  /\ \A p \in Devices \cup Strays : \A w \in BOOLEAN : OpenRequest(p, w) \in Requests
  /\ \A h \in Nat : \A o \in Nat : \A n \in Int : ReadRequest(h, o, n) \in Requests
  /\ \A h \in Nat : \A o \in Nat : \A d \in Seq(Bytes) : WriteRequest(h, o, d) \in Requests
  /\ \A h \in Nat : CloseRequest(h) \in Requests
  /\ Malformed \in Requests
BY DEF Requests, OpenRequest, ReadRequest, WriteRequest, CloseRequest

LEMMA RepliesMade ==
  /\ \A h \in Nat : \A n \in Nat : Opened(h, n) \in Replies
  /\ \A b \in Seq(Bytes) : Data(b) \in Replies
  /\ Written \in Replies /\ ClosedReply \in Replies
  /\ \A e \in {"NotAllowed", "ReadOnly", "Io"} : Error(e) \in Replies
BY DEF Replies, Opened, Data, Error

LEMMA ReplyKinds ==
  ASSUME NEW r \in Replies
  PROVE  /\ r.type \in {"opened", "data", "written", "closed", "error"}
         /\ r.type = "opened" => r.handle \in Nat /\ r.size \in Nat
         /\ r.type = "data" => r.bytes \in Seq(Bytes)
BY DEF Replies, Written, ClosedReply

LEMMA HandleKinds ==
  /\ Closed \in Handles
  /\ \A d \in Devices : \A w \in BOOLEAN : Handle(d, w) \in Handles /\ Handle(d, w) # Closed
  /\ \A d, e, w, v : Handle(d, w) = Handle(e, v) => d = e /\ w = v
  /\ \A x \in Handles : x # Closed => x.device \in Devices /\ x.writable \in BOOLEAN
BY DEF Handles, Closed, Handle

\* What may come of opening: an error, or a handle in a free slot.
OpenedBy(table, req, o) ==
  LET i == Slot(table)
  IN  /\ req.path \in Devices /\ ~ (i > MaxHandles)
      /\ o.table = WithHandle(table, i, Handle(req.path, req.writable))
      /\ o.reply = Opened(i - 1, Len(disk[req.path]))

Refused(table, o) == o.table = table /\ o.reply.type = "error" /\ o.reply \in Replies

LEMMA ErrorIs ==
  ASSUME NEW table, NEW kind \in {"NotAllowed", "ReadOnly", "Io"}, NEW o \in Unchanged(table, kind)
  PROVE  Refused(table, o)
<1>1. o = Outcome(table, Error(kind))
  BY DEF Unchanged
<1>2. o.table = table /\ o.reply = Error(kind)
  BY <1>1 DEF Outcome
<1>3. Error(kind).type = "error"
  BY DEF Error
<1>4. QED
  BY <1>2, <1>3, RepliesMade DEF Refused

LEMMA OpenOutcome ==
  ASSUME NEW table, NEW req \in Requests, req.type = "open", NEW part,
         NEW o \in Outcomes(table, req, part)
  PROVE  Refused(table, o) \/ OpenedBy(table, req, o)
<1>1. o \in OpenOutcomes(table, req)
  BY DEF Outcomes
<1>2. CASE o \in Unchanged(table, "NotAllowed") \/ o \in Unchanged(table, "Io")
  BY <1>2, ErrorIs
<1>. DEFINE it == Outcome(WithHandle(table, Slot(table), Handle(req.path, req.writable)),
                          Opened(Slot(table) - 1, Len(disk[req.path])))
<1>3. CASE req.path \in Devices /\ ~ (Slot(table) > MaxHandles) /\ o = it
  <2>1. o.table = WithHandle(table, Slot(table), Handle(req.path, req.writable))
        /\ o.reply = Opened(Slot(table) - 1, Len(disk[req.path]))
    BY <1>3 DEF Outcome
  <2>2. QED
    BY <2>1, <1>3 DEF OpenedBy
<1>4. QED
  BY <1>1, <1>2, <1>3 DEF OpenOutcomes

\* Reading and writing are answered when all bytes have been moved.
Answered(table, req, part, o) ==
  o.table = table /\ req.len <= Len(part) /\ o.reply = Data(part)

LEMMA ReadOutcome ==
  ASSUME NEW table, NEW req \in Requests, req.type = "read", NEW part \in Seq(Bytes),
         NEW o \in Outcomes(table, req, part)
  PROVE  Refused(table, o) \/ Answered(table, req, part, o)
<1>1. o \in ReadOutcomes(table, req, part)
  BY DEF Outcomes
<1>2. CASE o \in Unchanged(table, "NotAllowed") \/ o \in Unchanged(table, "Io")
  BY <1>2, ErrorIs
<1>3. CASE ~ (Len(part) < req.len) /\ o = Outcome(table, Data(part))
  <2>1. req.len <= Len(part)
    BY <1>3, RequestKinds
  <2>2. QED
    BY <1>3, <2>1 DEF Answered, Outcome
<1>4. QED
  BY <1>1, <1>2, <1>3 DEF ReadOutcomes

WrittenBy(table, req, part, o) ==
  o.table = table /\ Len(req.data) <= Len(part) /\ o.reply = Written

LEMMA WriteOutcome ==
  ASSUME NEW table, NEW req \in Requests, req.type = "write", NEW part \in Seq(Bytes),
         NEW o \in Outcomes(table, req, part)
  PROVE  Refused(table, o) \/ WrittenBy(table, req, part, o)
<1>1. o \in WriteOutcomes(table, req, part)
  BY DEF Outcomes
<1>2. CASE \E kind \in {"NotAllowed", "ReadOnly", "Io"} : o \in Unchanged(table, kind)
  BY <1>2, ErrorIs
<1>3. CASE ~ (Len(part) < Len(req.data)) /\ o = Outcome(table, Written)
  <2>1. Len(req.data) <= Len(part)
    BY <1>3, RequestKinds
  <2>2. QED
    BY <1>3, <2>1 DEF WrittenBy, Outcome
<1>4. QED
  BY <1>1, <1>2, <1>3 DEF WriteOutcomes

ClosedBy(table, req, o) ==
  /\ o.table = [j \in 1 .. Len(table) |-> IF j = req.handle + 1 THEN Closed ELSE table[j]]
  /\ o.reply = ClosedReply

LEMMA CloseOutcome ==
  ASSUME NEW table, NEW req \in Requests, req.type = "close", NEW part,
         NEW o \in Outcomes(table, req, part)
  PROVE  ClosedBy(table, req, o)
<1>1. o \in CloseOutcomes(table, req)
  BY DEF Outcomes
<1>2. QED
  BY <1>1 DEF CloseOutcomes, Outcome, ClosedBy

LEMMA KnownIs ==
  ASSUME NEW table \in Seq(Handles), NEW h \in Nat, Known(table, h)
  PROVE  h + 1 \in 1 .. Len(table) /\ table[h + 1] \in Handles /\ table[h + 1] # Closed
         /\ table[h + 1].device \in Devices
<1>1. h + 1 \in 1 .. Len(table) /\ table[h + 1] # Closed
  BY DEF Known
<1>2. table[h + 1] \in Handles
  BY <1>1
<1>3. QED
  BY <1>1, <1>2, HandleKinds

LEMMA OutcomeOk ==
  ASSUME disk \in [Devices -> Seq(Bytes)], NEW table \in Tables, NEW req \in Requests, req # Malformed,
         NEW part \in Seq(Bytes), NEW o \in Outcomes(table, req, part)
  PROVE  o.table \in Tables /\ o.reply \in Replies
<1>1. table \in Seq(Handles) /\ Len(table) <= MaxHandles
  BY DEF Tables
<1>2. CASE req.type = "open"
  <2>1. CASE Refused(table, o)
    BY <1>2, <2>1, OpenOutcome DEF Refused
  <2>2. CASE OpenedBy(table, req, o)
    <3>. DEFINE i == Slot(table)
                handle == Handle(req.path, req.writable)
                u == WithHandle(table, i, handle)
    <3>1. o.table = u /\ o.reply = Opened(i - 1, Len(disk[req.path]))
          /\ req.path \in Devices /\ ~ (i > MaxHandles) /\ req.writable \in BOOLEAN
      BY <1>2, <2>2, RequestKinds DEF OpenedBy
    <3>2. i \in 1 .. Len(table) + 1 /\ handle \in Handles
      BY <1>1, <3>1, SlotIs, HandleKinds
    <3>. HIDE DEF i, handle
    <3>3. u \in Seq(Handles) /\ Len(u) = IF i <= Len(table) THEN Len(table) ELSE i
      BY <1>1, <3>2, WithHandleIs
    <3>4. u \in Tables
      BY <1>1, <3>1, <3>3 DEF Tables
    <3>5. Len(disk[req.path]) \in Nat /\ i - 1 \in Nat
      BY <3>1, <3>2
    <3>6. o.reply \in Replies
      BY <3>1, <3>5, RepliesMade
    <3>7. QED
      BY <1>2, <3>1, <3>4, <3>6, OpenOutcome
  <2>3. QED
    BY <1>2, <2>1, <2>2, OpenOutcome
<1>3. CASE req.type = "read"
  BY <1>3, ReadOutcome, RepliesMade DEF Refused, Answered
<1>4. CASE req.type = "write"
  BY <1>4, WriteOutcome, RepliesMade DEF Refused, WrittenBy
<1>5. CASE req.type = "close"
  <2>1. ClosedBy(table, req, o)
    BY <1>5, CloseOutcome
  <2>2. req.handle \in Nat
    BY <1>5, RequestKinds
  <2>. DEFINE u == [j \in 1 .. Len(table) |-> IF j = req.handle + 1 THEN Closed ELSE table[j]]
  <2>3. u \in Seq(Handles) /\ Len(u) = Len(table)
    BY <1>1, <2>2, WithoutHandleIs
  <2>4. o.table = u /\ o.reply = ClosedReply
    BY <2>1 DEF ClosedBy
  <2>. HIDE DEF u
  <2>5. QED
    BY <1>1, <2>1, <2>3, <2>4, RepliesMade DEF Tables
<1>6. QED
  BY <1>2, <1>3, <1>4, <1>5, RequestKinds

-----------------------------------------------------------------------------
(* What a client waits for, as messages go and come. *)

LEMMA OrderSent ==
  ASSUME NEW p \in Seq(Replies), NEW q \in Seq(Requests), NEW a \in Seq(Requests),
         InOrder(p, q, a), NEW req \in Requests
  PROVE  InOrder(p, Append(q, req), Append(a, req))
<1>. DEFINE q2 == Append(q, req)
            a2 == Append(a, req)
<1>1. /\ Len(p) \in Nat /\ Len(q) \in Nat /\ Len(a) \in Nat /\ Len(q2) = Len(q) + 1 /\ Len(a2) = Len(a) + 1
      /\ \A i \in 1 .. Len(q) : q2[i] = q[i]
      /\ q2[Len(q) + 1] = req
      /\ \A i \in 1 .. Len(a) : a2[i] = a[i]
      /\ a2[Len(a) + 1] = req
  OBVIOUS
<1>. HIDE DEF q2, a2
<1>2. InOrder(p, q2, a2)
  <2>1. Len(a2) = Len(p) + Len(q2)
    BY <1>1 DEF InOrder
  <2>2. ASSUME NEW i \in 1 .. Len(q2) PROVE a2[Len(p) + i] = q2[i]
    <3>1. CASE i <= Len(q)
      <4>1. i \in 1 .. Len(q) /\ Len(p) + i \in 1 .. Len(a)
        BY <1>1, <3>1 DEF InOrder
      <4>2. a[Len(p) + i] = q[i]
        BY <4>1 DEF InOrder
      <4>3. QED
        BY <1>1, <4>1, <4>2
    <3>2. CASE i = Len(q) + 1
      <4>1. Len(p) + i = Len(a) + 1
        BY <1>1, <3>2 DEF InOrder
      <4>2. QED
        BY <1>1, <3>2, <4>1
    <3>3. i <= Len(q) \/ i = Len(q) + 1
      BY <1>1
    <3>4. QED
      BY <3>1, <3>2, <3>3
  <2>3. QED
    BY <2>1, <2>2 DEF InOrder
<1>3. QED
  BY <1>2 DEF q2, a2

\* Another request is sent.
LEMMA PromiseSent ==
  ASSUME NEW p \in Seq(Replies), NEW q \in Seq(Requests), NEW table, NEW g, NEW a \in Seq(Requests),
         Promised(p, q, table, g, a), NEW req \in Requests, req.type # "close"
  PROVE  Promised(p, Append(q, req), table, g, Append(a, req))
<1>. DEFINE q2 == Append(q, req)
            a2 == Append(a, req)
<1>1. /\ Len(p) \in Nat /\ Len(q) \in Nat /\ Len(a) \in Nat /\ Len(q2) = Len(q) + 1 /\ Len(a2) = Len(a) + 1
      /\ \A i \in 1 .. Len(q) : q2[i] = q[i]
      /\ q2[Len(q) + 1] = req
      /\ \A i \in 1 .. Len(a) : a2[i] = a[i]
      /\ a2[Len(a) + 1] = req
  OBVIOUS
<1>. HIDE DEF q2, a2
<1>2. InOrder(p, q2, a2)
  BY OrderSent DEF Promised, q2, a2
<1>3. \A i \in 1 .. Len(p) : a2[i] = a[i]
  BY <1>1 DEF Promised, InOrder
<1>4. ToHear(p, table, g, a2)
  BY <1>3 DEF Promised, ToHear
<1>5. ASSUME NEW i \in 1 .. Len(q2), q2[i].type = "close" PROVE i \in 1 .. Len(q) /\ q2[i] = q[i]
  BY <1>1, <1>5
<1>6. ToClose(p, q2, table, g)
  BY <1>5 DEF Promised, ToClose
<1>7. QED
  BY <1>2, <1>4, <1>6 DEF Promised, q2, a2

\* A handle is given up, and asked to be closed.
LEMMA PromiseClosing ==
  ASSUME NEW p \in Seq(Replies), NEW q \in Seq(Requests), NEW table, NEW g, NEW a \in Seq(Requests),
         Promised(p, q, table, g, a), NEW h \in DOMAIN g, DOMAIN g \subseteq Nat
  PROVE  Promised(p, Append(q, CloseRequest(h)), table,
                  [x \in DOMAIN g \ {h} |-> g[x]], Append(a, CloseRequest(h)))
<1>. DEFINE req == CloseRequest(h)
            q2 == Append(q, req)
            a2 == Append(a, req)
            g2 == [x \in DOMAIN g \ {h} |-> g[x]]
<1>1. req \in Requests /\ req.type = "close" /\ req.handle = h
  BY RequestsMade DEF CloseRequest
<1>. HIDE DEF req
<1>2. /\ Len(p) \in Nat /\ Len(q) \in Nat /\ Len(a) \in Nat /\ Len(q2) = Len(q) + 1 /\ Len(a2) = Len(a) + 1
      /\ \A i \in 1 .. Len(q) : q2[i] = q[i]
      /\ q2[Len(q) + 1] = req
      /\ \A i \in 1 .. Len(a) : a2[i] = a[i]
      /\ a2[Len(a) + 1] = req
  BY <1>1
<1>3. DOMAIN g2 = DOMAIN g \ {h} /\ \A x \in DOMAIN g2 : x \in DOMAIN g /\ g2[x] = g[x]
  OBVIOUS
<1>. HIDE DEF q2, a2, g2
<1>4. InOrder(p, q2, a2)
  BY <1>1, OrderSent DEF Promised, q2, a2
<1>5. Held(table, g2)
  BY <1>3 DEF Promised, Held
<1>6. \A i \in 1 .. Len(p) : a2[i] = a[i]
  BY <1>2 DEF Promised, InOrder
<1>7. ToHear(p, table, g2, a2)
  BY <1>3, <1>6 DEF Promised, ToHear
<1>8. ASSUME NEW i \in 1 .. Len(q2), q2[i].type = "close"
      PROVE  (i \in 1 .. Len(q) /\ q2[i] = q[i]) \/ (i = Len(q) + 1 /\ q2[i].handle = h)
  BY <1>1, <1>2
<1>9. Names(table, h, g[h]) /\ \A i \in 1 .. Len(q) : q[i].type = "close" => q[i].handle # h
  BY DEF Promised, Held, ToClose
<1>10. \A j \in 1 .. Len(p) : p[j].type = "opened" => p[j].handle # h
  BY DEF Promised, ToHear
<1>11. ToClose(p, q2, table, g2)
  <2>1. SUFFICES ASSUME NEW i \in 1 .. Len(q2), q2[i].type = "close"
                 PROVE  /\ q2[i].handle \notin DOMAIN g2
                        /\ Names(table, q2[i].handle, table[q2[i].handle + 1])
                        /\ \A j \in 1 .. Len(p) : p[j].type = "opened" => p[j].handle # q2[i].handle
                        /\ \A j \in 1 .. Len(q2) :
                             q2[j].type = "close" /\ q2[j].handle = q2[i].handle => j = i
    BY DEF ToClose
  <2>2. CASE i \in 1 .. Len(q) /\ q2[i] = q[i]
    <3>1. /\ q[i].handle \notin DOMAIN g
          /\ Names(table, q[i].handle, table[q[i].handle + 1])
          /\ \A j \in 1 .. Len(p) : p[j].type = "opened" => p[j].handle # q[i].handle
          /\ \A j \in 1 .. Len(q) : q[j].type = "close" /\ q[j].handle = q[i].handle => j = i
      BY <2>1, <2>2 DEF Promised, ToClose
    <3>2. ASSUME NEW j \in 1 .. Len(q2), q2[j].type = "close", q2[j].handle = q2[i].handle PROVE j = i
      BY <1>8, <1>9, <2>1, <2>2, <3>1, <3>2
    <3>3. QED
      BY <1>3, <2>2, <3>1, <3>2
  <2>3. CASE i = Len(q) + 1 /\ q2[i].handle = h
    <3>1. Names(table, h, table[h + 1])
      BY <1>9 DEF Names
    <3>2. ASSUME NEW j \in 1 .. Len(q2), q2[j].type = "close", q2[j].handle = h PROVE j = i
      BY <1>8, <1>9, <2>3, <3>2
    <3>3. QED
      BY <1>3, <1>10, <2>3, <3>1, <3>2
  <2>4. QED
    BY <1>8, <2>1, <2>2, <2>3
<1>12. QED
  BY <1>4, <1>5, <1>7, <1>11 DEF Promised, q2, a2, g2, req

\* The first reply is heard.
LEMMA OrderHeard ==
  ASSUME NEW p \in Seq(Replies), NEW q \in Seq(Requests), NEW a \in Seq(Requests),
         InOrder(p, q, a), p # <<>>
  PROVE  /\ InOrder(Tail(p), q, Tail(a))
         /\ Len(Tail(p)) = Len(p) - 1 /\ Len(p) \in Nat \ {0}
         /\ \A i \in 1 .. Len(Tail(p)) : i + 1 \in 1 .. Len(p) /\ Tail(p)[i] = p[i + 1] /\ Tail(a)[i] = a[i + 1]
<1>. DEFINE p2 == Tail(p)
            a2 == Tail(a)
<1>1. /\ Len(p) \in Nat \ {0} /\ Len(q) \in Nat /\ Len(a) \in Nat /\ Len(p2) = Len(p) - 1
      /\ \A i \in 1 .. Len(p) - 1 : p2[i] = p[i + 1]
  OBVIOUS
<1>2. a # <<>>
  BY <1>1 DEF InOrder
<1>3. Len(a2) = Len(a) - 1 /\ \A i \in 1 .. Len(a) - 1 : a2[i] = a[i + 1]
  BY <1>2
<1>. HIDE DEF p2, a2
<1>4. Len(a2) = Len(p2) + Len(q)
  BY <1>1, <1>3 DEF InOrder
<1>5. ASSUME NEW i \in 1 .. Len(q) PROVE a2[Len(p2) + i] = q[i]
  <2>1. Len(p2) + i \in 1 .. Len(a) - 1 /\ Len(p2) + i + 1 = Len(p) + i
    BY <1>1 DEF InOrder
  <2>2. a2[Len(p2) + i] = a[Len(p) + i]
    BY <1>3, <2>1
  <2>3. QED
    BY <2>2 DEF InOrder
<1>6. ASSUME NEW i \in 1 .. Len(p2) PROVE i + 1 \in 1 .. Len(p) /\ p2[i] = p[i + 1] /\ a2[i] = a[i + 1]
  <2>1. i \in 1 .. Len(p) - 1 /\ i + 1 \in 1 .. Len(p)
    BY <1>1
  <2>2. i \in 1 .. Len(a) - 1
    BY <1>1, <2>1 DEF InOrder
  <2>3. QED
    BY <1>1, <1>3, <2>1, <2>2
<1>7. QED
  BY <1>1, <1>4, <1>5, <1>6 DEF InOrder, p2, a2

LEMMA PromiseHeard ==
  ASSUME NEW p \in Seq(Replies), NEW q \in Seq(Requests), NEW table, NEW g, NEW a \in Seq(Requests),
         Promised(p, q, table, g, a), p # <<>>, Head(p).type # "opened"
  PROVE  Promised(Tail(p), q, table, g, Tail(a))
<1>. DEFINE p2 == Tail(p)
            a2 == Tail(a)
<1>1. /\ InOrder(p2, q, a2)
      /\ Len(p2) = Len(p) - 1 /\ Len(p) \in Nat \ {0}
      /\ \A i \in 1 .. Len(p2) : i + 1 \in 1 .. Len(p) /\ p2[i] = p[i + 1] /\ a2[i] = a[i + 1]
  BY OrderHeard DEF Promised
<1>. HIDE DEF p2, a2
<1>2. ToHear(p2, table, g, a2)
  <2>1. SUFFICES ASSUME NEW i \in 1 .. Len(p2), p2[i].type = "opened"
                 PROVE  /\ p2[i].handle \notin DOMAIN g
                        /\ Names(table, p2[i].handle, Handle(a2[i].path, a2[i].writable))
                        /\ \A j \in 1 .. Len(p2) :
                             p2[j].type = "opened" /\ p2[j].handle = p2[i].handle => j = i
    BY DEF ToHear
  <2>2. /\ p[i + 1].handle \notin DOMAIN g
        /\ Names(table, p[i + 1].handle, Handle(a[i + 1].path, a[i + 1].writable))
        /\ \A j \in 1 .. Len(p) :
             p[j].type = "opened" /\ p[j].handle = p[i + 1].handle => j = i + 1
    BY <1>1, <2>1 DEF Promised, ToHear
  <2>3. ASSUME NEW j \in 1 .. Len(p2), p2[j].type = "opened", p2[j].handle = p2[i].handle PROVE j = i
    <3>1. j + 1 = i + 1
      BY <1>1, <2>2, <2>3
    <3>2. QED
      BY <3>1
  <2>4. QED
    BY <1>1, <2>2, <2>3
<1>3. ToClose(p2, q, table, g)
  BY <1>1, SMTT(30) DEF Promised, ToClose
<1>4. QED
  BY <1>1, <1>2, <1>3 DEF Promised, p2, a2

\* The first reply is heard, and a handle with it.
LEMMA PromiseGranted ==
  ASSUME NEW p \in Seq(Replies), NEW q \in Seq(Requests), NEW table, NEW g, NEW a \in Seq(Requests),
         Promised(p, q, table, g, a), p # <<>>, Head(p).type = "opened"
  PROVE  Promised(Tail(p), q, table,
           [x \in DOMAIN g \cup {Head(p).handle} |->
              IF x = Head(p).handle THEN Handle(Head(a).path, Head(a).writable) ELSE g[x]], Tail(a))
<1>. DEFINE p2 == Tail(p)
            a2 == Tail(a)
            h == Head(p).handle
            handle == Handle(Head(a).path, Head(a).writable)
            g2 == [x \in DOMAIN g \cup {h} |-> IF x = h THEN handle ELSE g[x]]
<1>1. /\ InOrder(p2, q, a2)
      /\ Len(p2) = Len(p) - 1 /\ Len(p) \in Nat \ {0}
      /\ \A i \in 1 .. Len(p2) : i + 1 \in 1 .. Len(p) /\ p2[i] = p[i + 1] /\ a2[i] = a[i + 1]
  BY OrderHeard DEF Promised
<1>2. 1 \in 1 .. Len(p) /\ p[1].type = "opened" /\ p[1].handle = h /\ handle = Handle(a[1].path, a[1].writable)
  <2>1. a # <<>>
    BY DEF Promised, InOrder
  <2>2. Head(a) = a[1] /\ Head(p) = p[1]
    BY <2>1
  <2>3. QED
    BY <1>1, <2>2
<1>3. DOMAIN g2 = DOMAIN g \cup {h} /\ g2[h] = handle /\ \A x \in DOMAIN g : x # h => g2[x] = g[x]
  OBVIOUS
<1>. HIDE DEF p2, a2, h, handle, g2
<1>4. /\ h \notin DOMAIN g /\ Names(table, h, handle)
      /\ \A j \in 1 .. Len(p) : p[j].type = "opened" /\ p[j].handle = h => j = 1
  BY <1>2 DEF Promised, ToHear
<1>5. Held(table, g2)
  BY <1>3, <1>4 DEF Promised, Held
<1>6. ToHear(p2, table, g2, a2)
  <2>1. SUFFICES ASSUME NEW i \in 1 .. Len(p2), p2[i].type = "opened"
                 PROVE  /\ p2[i].handle \notin DOMAIN g2
                        /\ Names(table, p2[i].handle, Handle(a2[i].path, a2[i].writable))
                        /\ \A j \in 1 .. Len(p2) :
                             p2[j].type = "opened" /\ p2[j].handle = p2[i].handle => j = i
    BY DEF ToHear
  <2>2. /\ p[i + 1].handle \notin DOMAIN g
        /\ Names(table, p[i + 1].handle, Handle(a[i + 1].path, a[i + 1].writable))
        /\ \A j \in 1 .. Len(p) :
             p[j].type = "opened" /\ p[j].handle = p[i + 1].handle => j = i + 1
    BY <1>1, <2>1 DEF Promised, ToHear
  <2>3. p[i + 1].handle # h
    <3>1. SUFFICES ASSUME p[i + 1].handle = h PROVE FALSE
      OBVIOUS
    <3>2. i + 1 = 1
      BY <1>1, <1>4, <2>1, <3>1
    <3>3. QED
      BY <3>2
  <2>4. ASSUME NEW j \in 1 .. Len(p2), p2[j].type = "opened", p2[j].handle = p2[i].handle PROVE j = i
    <3>1. j + 1 = i + 1
      BY <1>1, <2>2, <2>4
    <3>2. QED
      BY <3>1
  <2>5. QED
    BY <1>1, <1>3, <2>2, <2>3, <2>4
<1>7. ToClose(p2, q, table, g2)
  <2>1. SUFFICES ASSUME NEW i \in 1 .. Len(q), q[i].type = "close"
                 PROVE  /\ q[i].handle \notin DOMAIN g2
                        /\ Names(table, q[i].handle, table[q[i].handle + 1])
                        /\ \A j \in 1 .. Len(p2) : p2[j].type = "opened" => p2[j].handle # q[i].handle
                        /\ \A j \in 1 .. Len(q) :
                             q[j].type = "close" /\ q[j].handle = q[i].handle => j = i
    BY DEF ToClose
  <2>2. /\ q[i].handle \notin DOMAIN g
        /\ Names(table, q[i].handle, table[q[i].handle + 1])
        /\ \A j \in 1 .. Len(p) : p[j].type = "opened" => p[j].handle # q[i].handle
        /\ \A j \in 1 .. Len(q) : q[j].type = "close" /\ q[j].handle = q[i].handle => j = i
    BY <2>1 DEF Promised, ToClose
  <2>3. q[i].handle # h
    BY <1>2, <2>2
  <2>4. QED
    BY <1>1, <1>3, <2>2, <2>3
<1>8. QED
  BY <1>1, <1>5, <1>6, <1>7 DEF Promised, p2, a2, g2, h, handle

\* The first request is answered.
LEMMA OrderAnswered ==
  ASSUME NEW p \in Seq(Replies), NEW q \in Seq(Requests), NEW a \in Seq(Requests),
         InOrder(p, q, a), q # <<>>, NEW r \in Replies
  PROVE  /\ InOrder(Append(p, r), Tail(q), a)
         /\ Len(p) \in Nat /\ Len(Append(p, r)) = Len(p) + 1
         /\ \A i \in 1 .. Len(p) : Append(p, r)[i] = p[i]
         /\ Append(p, r)[Len(p) + 1] = r
         /\ Len(q) \in Nat \ {0} /\ Len(Tail(q)) = Len(q) - 1 /\ Head(q) = q[1]
         /\ \A i \in 1 .. Len(Tail(q)) : i + 1 \in 1 .. Len(q) /\ Tail(q)[i] = q[i + 1]
         /\ a[Len(p) + 1] = q[1]
<1>. DEFINE p2 == Append(p, r)
            q2 == Tail(q)
<1>1. /\ Len(p) \in Nat /\ Len(p2) = Len(p) + 1
      /\ \A i \in 1 .. Len(p) : p2[i] = p[i]
      /\ p2[Len(p) + 1] = r
  OBVIOUS
<1>2. /\ Len(q) \in Nat \ {0} /\ Len(q2) = Len(q) - 1 /\ Head(q) = q[1]
      /\ \A i \in 1 .. Len(q) - 1 : q2[i] = q[i + 1]
  OBVIOUS
<1>. HIDE DEF p2, q2
<1>3. \A i \in 1 .. Len(q2) : i + 1 \in 1 .. Len(q) /\ q2[i] = q[i + 1]
  BY <1>2
<1>4. Len(a) = Len(p2) + Len(q2)
  BY <1>1, <1>2 DEF InOrder
<1>5. ASSUME NEW i \in 1 .. Len(q2) PROVE a[Len(p2) + i] = q2[i]
  <2>1. Len(p2) + i = Len(p) + (i + 1)
    BY <1>1, <1>2
  <2>2. a[Len(p) + (i + 1)] = q[i + 1]
    BY <1>3 DEF InOrder
  <2>3. QED
    BY <1>3, <2>1, <2>2
<1>6. a[Len(p) + 1] = q[1]
  BY <1>2 DEF InOrder
<1>7. QED
  BY <1>1, <1>2, <1>3, <1>4, <1>5, <1>6 DEF InOrder, p2, q2

\* The reply names no new handle, and what is open stays: the slot of a closed
\* handle was nobody's any more.
LEMMA PromiseAnswered ==
  ASSUME NEW p \in Seq(Replies), NEW q \in Seq(Requests), NEW table, NEW u, NEW g, NEW a \in Seq(Requests),
         Promised(p, q, table, g, a), DOMAIN g \subseteq Nat, q # <<>>,
         NEW r \in Replies, r.type # "opened",
         \A h \in Nat : \A handle : Names(table, h, handle) =>
           Names(u, h, handle) \/ (Head(q).type = "close" /\ h = Head(q).handle)
  PROVE  Promised(Append(p, r), Tail(q), u, g, a)
<1>. DEFINE p2 == Append(p, r)
            q2 == Tail(q)
<1>0. /\ \A i \in 1 .. Len(p) : p[i].type = "opened" => p[i].handle \in Nat
      /\ \A i \in 1 .. Len(q) : q[i].type = "close" => q[i].handle \in Nat
  BY ReplyKinds, RequestKinds
<1>1. /\ InOrder(p2, q2, a)
      /\ Len(p) \in Nat /\ Len(p2) = Len(p) + 1
      /\ \A i \in 1 .. Len(p) : p2[i] = p[i]
      /\ p2[Len(p) + 1] = r
      /\ Len(q) \in Nat \ {0} /\ Len(q2) = Len(q) - 1 /\ Head(q) = q[1]
      /\ \A i \in 1 .. Len(q2) : i + 1 \in 1 .. Len(q) /\ q2[i] = q[i + 1]
  BY OrderAnswered DEF Promised
<1>. HIDE DEF p2, q2
<1>2. ASSUME NEW i \in 1 .. Len(p2), p2[i].type = "opened"
      PROVE  i \in 1 .. Len(p) /\ p2[i] = p[i] /\ p[i].type = "opened"
  <2>1. i # Len(p) + 1
    BY <1>1, <1>2
  <2>2. i \in 1 .. Len(p)
    BY <1>1, <2>1
  <2>3. QED
    BY <1>1, <1>2, <2>2
<1>3. 1 \in 1 .. Len(q)
  BY <1>1
<1>4. ASSUME q[1].type = "close"
      PROVE  /\ q[1].handle \notin DOMAIN g
             /\ \A j \in 1 .. Len(p) : p[j].type = "opened" => p[j].handle # q[1].handle
             /\ \A j \in 1 .. Len(q) : q[j].type = "close" /\ q[j].handle = q[1].handle => j = 1
  BY <1>3, <1>4 DEF Promised, ToClose
<1>5. Held(u, g)
  <2>1. SUFFICES ASSUME NEW h \in DOMAIN g PROVE Names(u, h, g[h])
    BY DEF Held
  <2>2. Names(table, h, g[h])
    BY DEF Promised, Held
  <2>3. QED
    BY <1>1, <1>4, <2>2
<1>6. ToHear(p2, u, g, a)
  <2>1. SUFFICES ASSUME NEW i \in 1 .. Len(p2), p2[i].type = "opened"
                 PROVE  /\ p2[i].handle \notin DOMAIN g
                        /\ Names(u, p2[i].handle, Handle(a[i].path, a[i].writable))
                        /\ \A j \in 1 .. Len(p2) :
                             p2[j].type = "opened" /\ p2[j].handle = p2[i].handle => j = i
    BY DEF ToHear
  <2>2. i \in 1 .. Len(p) /\ p2[i] = p[i] /\ p[i].type = "opened"
    BY <1>2, <2>1
  <2>3. /\ p[i].handle \notin DOMAIN g
        /\ Names(table, p[i].handle, Handle(a[i].path, a[i].writable))
        /\ \A j \in 1 .. Len(p) : p[j].type = "opened" /\ p[j].handle = p[i].handle => j = i
    BY <2>2 DEF Promised, ToHear
  <2>4. Names(u, p[i].handle, Handle(a[i].path, a[i].writable))
    BY <1>0, <1>1, <1>4, <2>2, <2>3
  <2>5. QED
    BY <1>2, <2>2, <2>3, <2>4
<1>7. ToClose(p2, q2, u, g)
  <2>1. SUFFICES ASSUME NEW i \in 1 .. Len(q2), q2[i].type = "close"
                 PROVE  /\ q2[i].handle \notin DOMAIN g
                        /\ Names(u, q2[i].handle, u[q2[i].handle + 1])
                        /\ \A j \in 1 .. Len(p2) : p2[j].type = "opened" => p2[j].handle # q2[i].handle
                        /\ \A j \in 1 .. Len(q2) :
                             q2[j].type = "close" /\ q2[j].handle = q2[i].handle => j = i
    BY DEF ToClose
  <2>2. i + 1 \in 1 .. Len(q) /\ q2[i] = q[i + 1]
    BY <1>1
  <2>3. /\ q[i + 1].handle \notin DOMAIN g
        /\ Names(table, q[i + 1].handle, table[q[i + 1].handle + 1])
        /\ \A j \in 1 .. Len(p) : p[j].type = "opened" => p[j].handle # q[i + 1].handle
        /\ \A j \in 1 .. Len(q) : q[j].type = "close" /\ q[j].handle = q[i + 1].handle => j = i + 1
    BY <2>1, <2>2 DEF Promised, ToClose
  <2>4. ~ (q[1].type = "close" /\ q[i + 1].handle = q[1].handle)
    <3>1. SUFFICES ASSUME q[1].type = "close", q[i + 1].handle = q[1].handle PROVE FALSE
      OBVIOUS
    <3>2. 1 = i + 1
      BY <1>3, <2>3, <3>1
    <3>3. QED
      BY <3>2
  <2>5. Names(u, q[i + 1].handle, u[q[i + 1].handle + 1])
    <3>1. Names(u, q[i + 1].handle, table[q[i + 1].handle + 1])
      BY <1>0, <1>1, <2>1, <2>2, <2>3, <2>4
    <3>2. QED
      BY <3>1 DEF Names
  <2>6. ASSUME NEW j \in 1 .. Len(q2), q2[j].type = "close", q2[j].handle = q2[i].handle PROVE j = i
    <3>1. j + 1 = i + 1
      BY <1>1, <2>2, <2>3, <2>6
    <3>2. QED
      BY <3>1
  <2>7. QED
    BY <1>2, <2>2, <2>3, <2>5, <2>6
<1>8. QED
  BY <1>1, <1>5, <1>6, <1>7 DEF Promised, p2, q2

\* The reply names a new handle, in a slot that was free.
Grows(table, u, new) ==
  \A h \in Nat : \A handle : Names(table, h, handle) => Names(u, h, handle) /\ h # new

LEMMA PromiseOpened ==
  ASSUME NEW p \in Seq(Replies), NEW q \in Seq(Requests), NEW table, NEW u, NEW g, NEW a \in Seq(Requests),
         Promised(p, q, table, g, a), DOMAIN g \subseteq Nat, q # <<>>,
         NEW r \in Replies, r.type = "opened",
         Grows(table, u, r.handle),
         Names(u, r.handle, Handle(Head(q).path, Head(q).writable))
  PROVE  Promised(Append(p, r), Tail(q), u, g, a)
<1>. USE DEF Grows
<1>. DEFINE p2 == Append(p, r)
            q2 == Tail(q)
<1>0. /\ \A i \in 1 .. Len(p) : p[i].type = "opened" => p[i].handle \in Nat
      /\ \A i \in 1 .. Len(q) : q[i].type = "close" => q[i].handle \in Nat
  BY ReplyKinds, RequestKinds
<1>1. /\ InOrder(p2, q2, a)
      /\ Len(p) \in Nat /\ Len(p2) = Len(p) + 1
      /\ \A i \in 1 .. Len(p) : p2[i] = p[i]
      /\ p2[Len(p) + 1] = r
      /\ Len(q) \in Nat \ {0} /\ Len(q2) = Len(q) - 1 /\ Head(q) = q[1]
      /\ \A i \in 1 .. Len(q2) : i + 1 \in 1 .. Len(q) /\ q2[i] = q[i + 1]
      /\ a[Len(p) + 1] = q[1]
  BY OrderAnswered DEF Promised
<1>. HIDE DEF p2, q2
<1>2. ASSUME NEW i \in 1 .. Len(p2)
      PROVE  (i \in 1 .. Len(p) /\ p2[i] = p[i]) \/ (i = Len(p) + 1 /\ p2[i] = r /\ a[i] = Head(q))
  BY <1>1
<1>3. r.handle \notin DOMAIN g
  BY DEF Promised, Held
<1>4. \A i \in 1 .. Len(p) : p[i].type = "opened" => p[i].handle # r.handle
  BY <1>0 DEF Promised, ToHear
<1>5. Held(u, g)
  BY DEF Promised, Held
<1>6. ToHear(p2, u, g, a)
  <2>1. SUFFICES ASSUME NEW i \in 1 .. Len(p2), p2[i].type = "opened"
                 PROVE  /\ p2[i].handle \notin DOMAIN g
                        /\ Names(u, p2[i].handle, Handle(a[i].path, a[i].writable))
                        /\ \A j \in 1 .. Len(p2) :
                             p2[j].type = "opened" /\ p2[j].handle = p2[i].handle => j = i
    BY DEF ToHear
  <2>2. CASE i \in 1 .. Len(p) /\ p2[i] = p[i]
    <3>1. /\ p[i].handle \notin DOMAIN g
          /\ Names(table, p[i].handle, Handle(a[i].path, a[i].writable))
          /\ \A j \in 1 .. Len(p) : p[j].type = "opened" /\ p[j].handle = p[i].handle => j = i
      BY <2>1, <2>2 DEF Promised, ToHear
    <3>2. ASSUME NEW j \in 1 .. Len(p2), p2[j].type = "opened", p2[j].handle = p2[i].handle PROVE j = i
      BY <1>2, <1>4, <2>1, <2>2, <3>1, <3>2
    <3>3. QED
      BY <1>0, <2>1, <2>2, <3>1, <3>2
  <2>3. CASE i = Len(p) + 1 /\ p2[i] = r /\ a[i] = Head(q)
    <3>1. ASSUME NEW j \in 1 .. Len(p2), p2[j].type = "opened", p2[j].handle = p2[i].handle PROVE j = i
      BY <1>2, <1>4, <2>3, <3>1
    <3>2. QED
      BY <1>3, <2>3, <3>1
  <2>4. QED
    BY <1>2, <2>2, <2>3
<1>7. ToClose(p2, q2, u, g)
  <2>1. SUFFICES ASSUME NEW i \in 1 .. Len(q2), q2[i].type = "close"
                 PROVE  /\ q2[i].handle \notin DOMAIN g
                        /\ Names(u, q2[i].handle, u[q2[i].handle + 1])
                        /\ \A j \in 1 .. Len(p2) : p2[j].type = "opened" => p2[j].handle # q2[i].handle
                        /\ \A j \in 1 .. Len(q2) :
                             q2[j].type = "close" /\ q2[j].handle = q2[i].handle => j = i
    BY DEF ToClose
  <2>2. i + 1 \in 1 .. Len(q) /\ q2[i] = q[i + 1]
    BY <1>1
  <2>3. /\ q[i + 1].handle \notin DOMAIN g
        /\ Names(table, q[i + 1].handle, table[q[i + 1].handle + 1])
        /\ \A j \in 1 .. Len(p) : p[j].type = "opened" => p[j].handle # q[i + 1].handle
        /\ \A j \in 1 .. Len(q) : q[j].type = "close" /\ q[j].handle = q[i + 1].handle => j = i + 1
    BY <2>1, <2>2 DEF Promised, ToClose
  <2>4. q[i + 1].handle # r.handle /\ Names(u, q[i + 1].handle, u[q[i + 1].handle + 1])
    <3>1. Names(u, q[i + 1].handle, table[q[i + 1].handle + 1]) /\ q[i + 1].handle # r.handle
      BY <1>0, <2>1, <2>2, <2>3
    <3>2. QED
      BY <3>1 DEF Names
  <2>5. ASSUME NEW j \in 1 .. Len(p2), p2[j].type = "opened" PROVE p2[j].handle # q2[i].handle
    BY <1>2, <2>2, <2>3, <2>4, <2>5
  <2>6. ASSUME NEW j \in 1 .. Len(q2), q2[j].type = "close", q2[j].handle = q2[i].handle PROVE j = i
    <3>1. j + 1 = i + 1
      BY <1>1, <2>2, <2>3, <2>6
    <3>2. QED
      BY <3>1
  <2>7. QED
    BY <2>2, <2>3, <2>4, <2>5, <2>6
<1>8. QED
  BY <1>1, <1>5, <1>6, <1>7 DEF Promised, p2, q2

-----------------------------------------------------------------------------
(* What each step makes of a connection. *)

Serving(k) == [k EXCEPT !.server = "serving"]
Holding(k, part) == [k EXCEPT !.part = part]
Doing(k, o) ==
  [k EXCEPT !.inbox = Tail(@), !.table = o.table, !.reply = o.reply, !.part = <<>>, !.server = "replying"]
Replied(k) == [k EXCEPT !.server = "serving", !.reply = NoReply, !.outbox = Append(@, k.reply)]
Leaving(k) == [k EXCEPT !.client = "gone"]
Sending(k, req) == [k EXCEPT !.inbox = IF k.server = "ended" THEN @ ELSE Append(@, req)]
Hearing(k) == [k EXCEPT !.outbox = Tail(@)]
Begun(allowed, req) ==
  [NewConn EXCEPT !.client = "here", !.allowed = allowed, !.inbox = <<req>>,
                  !.server = IF daemon = "up" THEN "accepted" ELSE "ended"]

LEMMA ConnectionIs ==
  ASSUME NEW k \in Connections
  PROVE  /\ k \in ConnectionFields
         /\ k.inbox \in Seq(Requests) /\ k.outbox \in Seq(Replies)
         /\ k.table \in Tables /\ k.table \in Seq(Handles) /\ Len(k.table) <= MaxHandles
         /\ k.client \in {"none", "here", "gone"}
         /\ k.server \in {"none", "accepted", "serving", "replying", "ended"}
         /\ k.server = "replying" => k.reply \in Replies
         /\ k.allowed \in BOOLEAN
         /\ k.part \in Seq(Bytes) /\ (k.part # <<>> => k.server = "serving" /\ k.inbox # <<>>)
         /\ Pending(k) \in Seq(Replies)
BY DEF Connections, ConnectionFields, Tables, Pending

LEMMA EmptyTable == <<>> \in Tables
BY DEF Tables

LEMMA NewConnIs ==
  /\ NewConn \in Connections
  /\ NewConn.client = "none" /\ NewConn.server = "none" /\ NewConn.inbox = <<>> /\ NewConn.outbox = <<>>
  /\ NewConn.table = <<>> /\ NewConn.part = <<>>
BY EmptyTable DEF NewConn, Connections, ConnectionFields

LEMMA EndedIs ==
  ASSUME NEW k \in Connections
  PROVE  /\ Ended(k) \in Connections /\ Ended(k).server = "ended" /\ Ended(k).client = k.client
         /\ Ended(k).inbox = <<>> /\ Ended(k).outbox = k.outbox /\ Ended(k).table = <<>>
<1>1. k \in ConnectionFields
  BY DEF Connections
<1>2. Ended(k) \in ConnectionFields
  <2>1. <<>> \in Seq(Requests) /\ <<>> \in Seq(Bytes)
    OBVIOUS
  <2>2. QED
    BY <1>1, <2>1, EmptyTable DEF Ended, ConnectionFields
<1>3. /\ Ended(k).server = "ended" /\ Ended(k).client = k.client /\ Ended(k).part = <<>>
      /\ Ended(k).inbox = <<>> /\ Ended(k).outbox = k.outbox /\ Ended(k).table = <<>>
  BY <1>1 DEF Ended, ConnectionFields
<1>4. QED
  BY <1>2, <1>3 DEF Connections

LEMMA ServingIs ==
  ASSUME NEW k \in Connections
  PROVE  /\ Serving(k) \in Connections /\ Serving(k).server = "serving" /\ Serving(k).client = k.client
         /\ Serving(k).inbox = k.inbox /\ Serving(k).outbox = k.outbox /\ Serving(k).table = k.table
         /\ Serving(k).part = k.part
BY DEF Serving, Connections, ConnectionFields

LEMMA HoldingIs ==
  ASSUME NEW k \in Connections, k.server = "serving", k.inbox # <<>>, NEW part \in Seq(Bytes)
  PROVE  LET k2 == Holding(k, part)
         IN  /\ k2 \in Connections /\ k2.server = "serving" /\ k2.client = k.client
             /\ k2.inbox = k.inbox /\ k2.outbox = k.outbox /\ k2.table = k.table /\ k2.part = part
BY DEF Holding, Connections, ConnectionFields

LEMMA DoingIs ==
  ASSUME NEW k \in Connections, k.inbox # <<>>, NEW o, o.table \in Tables, o.reply \in Replies
  PROVE  /\ Doing(k, o) \in Connections /\ Doing(k, o).server = "replying" /\ Doing(k, o).client = k.client
         /\ Doing(k, o).inbox = Tail(k.inbox) /\ Doing(k, o).outbox = k.outbox
         /\ Doing(k, o).table = o.table /\ Doing(k, o).reply = o.reply
<1>1. k \in ConnectionFields /\ k.inbox \in Seq(Requests)
  BY ConnectionIs
<1>2. Tail(k.inbox) \in Seq(Requests)
  BY <1>1
<1>3. <<>> \in Seq(Bytes)
  OBVIOUS
<1>4. QED
  BY <1>1, <1>2, <1>3 DEF Doing, Connections, ConnectionFields

LEMMA RepliedIs ==
  ASSUME NEW k \in Connections, k.server = "replying"
  PROVE  /\ Replied(k) \in Connections /\ Replied(k).server = "serving" /\ Replied(k).client = k.client
         /\ Replied(k).inbox = k.inbox /\ Replied(k).outbox = Append(k.outbox, k.reply)
         /\ Replied(k).table = k.table
<1>1. k \in ConnectionFields /\ Append(k.outbox, k.reply) \in Seq(Replies)
  BY ConnectionIs
<1>2. QED
  BY <1>1 DEF Replied, Connections, ConnectionFields

LEMMA LeavingIs ==
  ASSUME NEW k \in Connections
  PROVE  /\ Leaving(k) \in Connections /\ Leaving(k).server = k.server /\ Leaving(k).client = "gone"
         /\ Leaving(k).inbox = k.inbox /\ Leaving(k).outbox = k.outbox
         /\ Leaving(k).table = k.table /\ Leaving(k).reply = k.reply /\ Leaving(k).part = k.part
BY DEF Leaving, Connections, ConnectionFields

LEMMA SendingIs ==
  ASSUME NEW k \in Connections, NEW req \in Requests
  PROVE  /\ Sending(k, req) \in Connections /\ Sending(k, req).server = k.server
         /\ Sending(k, req).client = k.client
         /\ Sending(k, req).inbox = (IF k.server = "ended" THEN k.inbox ELSE Append(k.inbox, req))
         /\ Sending(k, req).outbox = k.outbox
         /\ Sending(k, req).table = k.table /\ Sending(k, req).reply = k.reply
         /\ Sending(k, req).part = k.part
<1>1. k \in ConnectionFields /\ k.inbox \in Seq(Requests)
  BY ConnectionIs
<1>2. Append(k.inbox, req) \in Seq(Requests) /\ Append(k.inbox, req) # <<>>
  BY <1>1
<1>3. QED
  BY <1>1, <1>2 DEF Sending, Connections, ConnectionFields

LEMMA HearingIs ==
  ASSUME NEW k \in Connections, k.outbox # <<>>
  PROVE  /\ Hearing(k) \in Connections /\ Hearing(k).server = k.server
         /\ Hearing(k).client = k.client
         /\ Hearing(k).inbox = k.inbox /\ Hearing(k).outbox = Tail(k.outbox)
         /\ Hearing(k).table = k.table /\ Hearing(k).reply = k.reply /\ Hearing(k).part = k.part
<1>1. k \in ConnectionFields /\ Tail(k.outbox) \in Seq(Replies)
  BY ConnectionIs
<1>2. QED
  BY <1>1 DEF Hearing, Connections, ConnectionFields

LEMMA BegunIs ==
  ASSUME NEW allowed \in BOOLEAN, NEW req \in Requests
  PROVE  /\ Begun(allowed, req) \in Connections /\ Begun(allowed, req).client = "here"
         /\ Begun(allowed, req).server = (IF daemon = "up" THEN "accepted" ELSE "ended")
         /\ Begun(allowed, req).inbox = <<req>> /\ Begun(allowed, req).outbox = <<>>
         /\ Begun(allowed, req).table = <<>>
<1>1. <<req>> \in Seq(Requests)
  OBVIOUS
<1>. DEFINE server == IF daemon = "up" THEN "accepted" ELSE "ended"
            k == [NewConn EXCEPT !.client = "here", !.allowed = allowed, !.inbox = <<req>>, !.server = server]
<1>2. server \in {"accepted", "ended"}
  OBVIOUS
<1>3. NewConn \in ConnectionFields
  BY NewConnIs DEF Connections
<1>4. k = Begun(allowed, req)
  BY DEF Begun
<1>. HIDE DEF server
<1>5. k \in ConnectionFields
  BY <1>1, <1>2, <1>3 DEF ConnectionFields
<1>6. /\ k.client = "here" /\ k.server = server /\ k.inbox = <<req>>
      /\ k.outbox = NewConn.outbox /\ k.table = NewConn.table /\ k.part = NewConn.part
  BY <1>3 DEF ConnectionFields
<1>. HIDE DEF k
<1>7. QED
  BY <1>2, <1>4, <1>5, <1>6, NewConnIs DEF Connections, server

LEMMA TailAppend ==
  ASSUME NEW S, NEW s \in Seq(S), s # <<>>, NEW x \in S
  PROVE  /\ Append(s, x) # <<>> /\ Head(Append(s, x)) = Head(s)
         /\ Tail(Append(s, x)) = Append(Tail(s), x)
<1>. DEFINE l == Tail(Append(s, x))
            r == Append(Tail(s), x)
<1>1. Append(s, x) # <<>> /\ Head(Append(s, x)) = Head(s)
  OBVIOUS
<1>2. l \in Seq(S) /\ Len(l) = Len(s) /\ \A i \in 1 .. Len(s) : l[i] = Append(s, x)[i + 1]
  OBVIOUS
<1>3. /\ r \in Seq(S) /\ Len(r) = Len(s)
      /\ \A i \in 1 .. Len(s) : r[i] = IF i = Len(s) THEN x ELSE s[i + 1]
  OBVIOUS
<1>4. \A i \in 1 .. Len(s) : Append(s, x)[i + 1] = IF i = Len(s) THEN x ELSE s[i + 1]
  OBVIOUS
<1>. HIDE DEF l, r
<1>5. \A i \in 1 .. Len(s) : l[i] = r[i]
  BY <1>2, <1>3, <1>4
<1>6. l = [i \in 1 .. Len(s) |-> l[i]] /\ r = [i \in 1 .. Len(s) |-> r[i]]
  BY <1>2, <1>3
<1>7. l = r
  BY <1>5, <1>6, Zenon
<1>8. QED
  BY <1>1, <1>7 DEF l, r

\* A connection that ends keeps what the client has not heard yet.
LEMMA OtherEnded ==
  ASSUME NEW k \in Connections, NEW g, NEW a, OtherOk(k, g, a), k.client # "none"
  PROVE  OtherOk(Ended(k), g, a)
<1>1. Apart(Ended(k))
  BY EndedIs DEF Apart
<1>2. QED
  BY <1>1, EndedIs DEF OtherOk

LEMMA OtherServing ==
  ASSUME NEW k \in Connections, NEW g, NEW a, OtherOk(k, g, a), k.server = "accepted"
  PROVE  OtherOk(Serving(k), g, a)
<1>1. k.client # "none"
  BY NewConnIs DEF OtherOk
<1>2. Pending(Serving(k)) = Pending(k)
  BY ServingIs DEF Pending
<1>3. Apart(Serving(k))
  BY ServingIs DEF Apart, OtherOk
<1>4. QED
  BY <1>1, <1>2, <1>3, ServingIs DEF OtherOk

LEMMA OtherReplied ==
  ASSUME NEW k \in Connections, NEW g, NEW a, OtherOk(k, g, a), k.server = "replying"
  PROVE  OtherOk(Replied(k), g, a)
<1>1. k.client # "none"
  BY NewConnIs DEF OtherOk
<1>2. Pending(Replied(k)) = Pending(k)
  BY RepliedIs DEF Pending
<1>3. Apart(Replied(k))
  BY RepliedIs DEF Apart, OtherOk
<1>4. Promised(Pending(k), k.inbox, k.table, g, a)
  BY DEF OtherOk
<1>5. Len(Replied(k).outbox) <= Len(a)
  <2>1. Replied(k).outbox = Pending(k) /\ Len(Pending(k)) \in Nat /\ Len(k.inbox) \in Nat
    BY RepliedIs, ConnectionIs DEF Pending
  <2>2. Len(a) = Len(Pending(k)) + Len(k.inbox)
    BY <1>4 DEF Promised, InOrder
  <2>3. QED
    BY <2>1, <2>2
<1>6. QED
  BY <1>1, <1>2, <1>3, <1>4, <1>5, RepliedIs DEF OtherOk

LEMMA OtherLeaving ==
  ASSUME NEW k \in Connections, NEW g, NEW a, OtherOk(k, g, a)
  PROVE  OtherOk(Leaving(k), g, a)
<1>1. Pending(Leaving(k)) = Pending(k)
  BY LeavingIs DEF Pending
<1>2. Apart(Leaving(k))
  BY LeavingIs DEF Apart, OtherOk
<1>3. QED
  BY <1>1, <1>2, LeavingIs DEF OtherOk

\* The handles a client is left with once a request is sent.
Kept(g, req) == IF req.type # "close" THEN g ELSE [h \in DOMAIN g \ {req.handle} |-> g[h]]

LEMMA PromiseAsked ==
  ASSUME NEW p \in Seq(Replies), NEW q \in Seq(Requests), NEW table, NEW g, NEW a \in Seq(Requests),
         Promised(p, q, table, g, a), DOMAIN g \subseteq Nat, NEW req \in Requests,
         req.type = "close" => req.handle \in DOMAIN g /\ req = CloseRequest(req.handle)
  PROVE  Promised(p, Append(q, req), table, Kept(g, req), Append(a, req))
<1>1. CASE req.type = "close"
  <2>. DEFINE h == req.handle
  <2>1. h \in DOMAIN g /\ req = CloseRequest(h)
    BY <1>1
  <2>2. Kept(g, req) = [x \in DOMAIN g \ {h} |-> g[x]]
    BY <1>1 DEF Kept
  <2>. HIDE DEF h
  <2>3. Promised(p, Append(q, CloseRequest(h)), table, [x \in DOMAIN g \ {h} |-> g[x]], Append(a, CloseRequest(h)))
    BY <2>1, PromiseClosing
  <2>4. QED
    BY <2>1, <2>2, <2>3
<1>2. CASE req.type # "close"
  BY <1>2, PromiseSent DEF Kept
<1>3. QED
  BY <1>1, <1>2

LEMMA OtherSending ==
  ASSUME NEW k \in Connections, NEW g, NEW a \in Seq(Requests), OtherOk(k, g, a), k.client = "here",
         DOMAIN g \subseteq Nat, NEW req \in Requests, req.type = "open" => req.path # Device,
         req.type = "close" => req.handle \in DOMAIN g /\ req = CloseRequest(req.handle)
  PROVE  OtherOk(Sending(k, req), Kept(g, req), Append(a, req))
<1>1. k.inbox \in Seq(Requests) /\ k.outbox \in Seq(Replies) /\ Pending(k) \in Seq(Replies)
  BY ConnectionIs
<1>2. Len(Append(a, req)) = Len(a) + 1 /\ Len(a) \in Nat /\ Len(k.outbox) \in Nat
  BY <1>1
<1>3. Len(Sending(k, req).outbox) <= Len(Append(a, req))
  BY <1>2, SendingIs DEF OtherOk
<1>4. Apart(Sending(k, req))
  <2>1. CASE k.server = "ended"
    <3>1. Sending(k, req).inbox = k.inbox /\ Sending(k, req).table = k.table
      BY <2>1, SendingIs
    <3>2. QED
      BY <3>1 DEF Apart, OtherOk
  <2>2. CASE k.server # "ended"
    <3>. DEFINE q2 == Append(k.inbox, req)
    <3>0. Sending(k, req).inbox = q2 /\ Sending(k, req).table = k.table
      BY <2>2, SendingIs
    <3>1. /\ Sending(k, req).inbox = q2 /\ Sending(k, req).table = k.table
          /\ Len(q2) = Len(k.inbox) + 1 /\ Len(k.inbox) \in Nat
          /\ \A i \in 1 .. Len(k.inbox) : q2[i] = k.inbox[i]
          /\ q2[Len(k.inbox) + 1] = req
      BY <1>1, <3>0
    <3>. HIDE DEF q2
    <3>2. ASSUME NEW i \in 1 .. Len(q2), q2[i].type = "open" PROVE q2[i].path # Device
      <4>1. CASE i \in 1 .. Len(k.inbox)
        BY <3>1, <3>2, <4>1 DEF OtherOk, Apart
      <4>2. CASE i = Len(k.inbox) + 1
        BY <3>1, <3>2, <4>2
      <4>3. QED
        BY <3>1, <4>1, <4>2
    <3>3. QED
      BY <3>1, <3>2 DEF Apart, OtherOk
  <2>3. QED
    BY <2>1, <2>2
<1>5. ASSUME k.server # "ended"
      PROVE  Promised(Pending(Sending(k, req)), Sending(k, req).inbox, Sending(k, req).table,
                      Kept(g, req), Append(a, req))
  <2>1. Promised(Pending(k), k.inbox, k.table, g, a)
    BY <1>5 DEF OtherOk
  <2>2. Promised(Pending(k), Append(k.inbox, req), k.table, Kept(g, req), Append(a, req))
    BY <1>1, <2>1, PromiseAsked
  <2>3. Pending(Sending(k, req)) = Pending(k)
    BY SendingIs DEF Pending
  <2>4. QED
    BY <1>5, <2>2, <2>3, SendingIs
<1>6. QED
  BY <1>3, <1>4, <1>5, SendingIs DEF OtherOk

LEMMA OtherBegun ==
  ASSUME NEW allowed \in BOOLEAN, NEW req \in Requests, req.type = "open" => req.path # Device,
         req.type # "close"
  PROVE  OtherOk(Begun(allowed, req), <<>>, Append(<<>>, req))
<1>. DEFINE k == Begun(allowed, req)
<1>1. Promised(<<>>, <<>>, <<>>, <<>>, <<>>)
  BY DEF Promised, InOrder, Held, ToHear, ToClose
<1>2. <<>> \in Seq(Replies) /\ <<>> \in Seq(Requests)
  OBVIOUS
<1>3. Promised(<<>>, Append(<<>>, req), <<>>, <<>>, Append(<<>>, req))
  BY <1>1, <1>2, PromiseSent
<1>4. Append(<<>>, req) = <<req>> /\ Len(<<req>>) = 1 /\ <<req>>[1] = req
  OBVIOUS
<1>5. /\ k.client = "here" /\ k.server \in {"accepted", "ended"}
      /\ k.inbox = <<req>> /\ k.outbox = <<>> /\ k.table = <<>>
  BY BegunIs
<1>. HIDE DEF k
<1>6. Pending(k) = <<>>
  BY <1>5 DEF Pending
<1>7. Apart(k)
  BY <1>4, <1>5 DEF Apart
<1>8. QED
  BY <1>3, <1>4, <1>5, <1>6, <1>7 DEF OtherOk, k

\* The handles a client has once it has heard a reply.
Got(g, reply, req) ==
  IF reply.type # "opened" THEN g
  ELSE [h \in DOMAIN g \cup {reply.handle} |->
          IF h = reply.handle THEN Handle(req.path, req.writable) ELSE g[h]]

LEMMA OtherHearing ==
  ASSUME NEW k \in Connections, NEW g, NEW a \in Seq(Requests), OtherOk(k, g, a), k.client = "here",
         k.outbox # <<>>
  PROVE  OtherOk(Hearing(k), Got(g, Head(k.outbox), Head(a)), Tail(a))
<1>1. k.inbox \in Seq(Requests) /\ k.outbox \in Seq(Replies) /\ Pending(k) \in Seq(Replies)
  BY ConnectionIs
<1>2. Apart(Hearing(k))
  BY HearingIs DEF Apart, OtherOk
<1>3. Len(Hearing(k).outbox) <= Len(Tail(a))
  <2>1. Len(k.outbox) <= Len(a) /\ Len(k.outbox) \in Nat \ {0}
    BY <1>1 DEF OtherOk
  <2>2. a # <<>> /\ Len(Tail(a)) = Len(a) - 1
    BY <2>1
  <2>3. Len(Tail(k.outbox)) = Len(k.outbox) - 1
    BY <1>1
  <2>4. Hearing(k).outbox = Tail(k.outbox)
    BY HearingIs
  <2>5. QED
    BY <2>1, <2>2, <2>3, <2>4
<1>4. ASSUME k.server # "ended"
      PROVE  Promised(Pending(Hearing(k)), Hearing(k).inbox, Hearing(k).table,
                      Got(g, Head(k.outbox), Head(a)), Tail(a))
  <2>. DEFINE p == Pending(k)
  <2>1. Promised(p, k.inbox, k.table, g, a)
    BY <1>4 DEF OtherOk
  <2>2. p # <<>> /\ Head(p) = Head(k.outbox) /\ Pending(Hearing(k)) = Tail(p)
    <3>1. CASE k.server = "replying"
      <4>1. k.reply \in Replies
        BY <3>1, ConnectionIs
      <4>2. /\ Append(k.outbox, k.reply) # <<>>
            /\ Head(Append(k.outbox, k.reply)) = Head(k.outbox)
            /\ Tail(Append(k.outbox, k.reply)) = Append(Tail(k.outbox), k.reply)
        BY <1>1, <4>1, TailAppend, SMTT(30)
      <4>3. QED
        BY <3>1, <4>2, HearingIs DEF Pending
    <3>2. CASE k.server # "replying"
      BY <3>2, HearingIs DEF Pending
    <3>3. QED
      BY <3>1, <3>2
  <2>. HIDE DEF p
  <2>3. p \in Seq(Replies)
    BY <1>1 DEF p
  <2>4. CASE Head(p).type # "opened"
    <3>1. Promised(Tail(p), k.inbox, k.table, g, Tail(a))
      BY <1>1, <2>1, <2>2, <2>3, <2>4, PromiseHeard
    <3>2. QED
      BY <2>2, <2>4, <3>1, HearingIs DEF Got
  <2>5. CASE Head(p).type = "opened"
    <3>1. Promised(Tail(p), k.inbox, k.table,
           [x \in DOMAIN g \cup {Head(p).handle} |->
              IF x = Head(p).handle THEN Handle(Head(a).path, Head(a).writable) ELSE g[x]], Tail(a))
      BY <1>1, <2>1, <2>2, <2>3, <2>5, PromiseGranted
    <3>2. QED
      BY <2>2, <2>5, <3>1, HearingIs DEF Got
  <2>6. QED
    BY <2>4, <2>5
<1>5. QED
  BY <1>2, <1>3, <1>4, HearingIs DEF OtherOk

LEMMA OtherNew == OtherOk(NewConn, <<>>, <<>>)
<1>1. Promised(<<>>, <<>>, <<>>, <<>>, <<>>)
  BY DEF Promised, InOrder, Held, ToHear, ToClose
<1>2. /\ NewConn.inbox = <<>> /\ NewConn.outbox = <<>> /\ NewConn.table = <<>>
      /\ NewConn.server = "none"
  BY NewConnIs
<1>3. Pending(NewConn) = <<>>
  BY <1>2 DEF Pending
<1>4. Apart(NewConn)
  BY <1>2 DEF Apart
<1>5. Len(<<>>) = 0
  OBVIOUS
<1>6. QED
  BY <1>1, <1>2, <1>3, <1>4, <1>5 DEF OtherOk

\* A handle given out is in a free slot, and none of the others is disturbed.
GivesOut(table, req, o) ==
  /\ o.reply.type = "opened" /\ o.reply.handle \in Nat
  /\ o.reply.size = Len(disk[req.path]) /\ req.path \in Devices
  /\ Names(o.table, o.reply.handle, Handle(req.path, req.writable))
  /\ Grows(table, o.table, o.reply.handle)
  /\ \A i \in 1 .. Len(o.table) :
       o.table[i] = Handle(req.path, req.writable) \/ (i \in 1 .. Len(table) /\ o.table[i] = table[i])

LEMMA GivenOut ==
  ASSUME NEW table \in Tables, NEW req \in Requests, req.type = "open", NEW o, OpenedBy(table, req, o),
         disk \in [Devices -> Seq(Bytes)]
  PROVE  GivesOut(table, req, o)
<1>. DEFINE i == Slot(table)
            handle == Handle(req.path, req.writable)
            u == WithHandle(table, i, handle)
<1>1. table \in Seq(Handles) /\ req.path \in Devices /\ req.writable \in BOOLEAN
  BY RequestKinds DEF Tables, OpenedBy
<1>2. o.table = u /\ o.reply = Opened(i - 1, Len(disk[req.path]))
  BY DEF OpenedBy
<1>3. i \in 1 .. Len(table) + 1 /\ (i <= Len(table) => table[i] = Closed)
  BY <1>1, SlotIs
<1>4. handle \in Handles /\ handle # Closed
  BY <1>1, HandleKinds
<1>. HIDE DEF i, handle
<1>5. /\ u \in Seq(Handles) /\ Len(u) = (IF i <= Len(table) THEN Len(table) ELSE i)
      /\ u[i] = handle /\ \A j \in 1 .. Len(table) : j # i => u[j] = table[j]
  BY <1>1, <1>3, <1>4, WithHandleIs
<1>. HIDE DEF u
<1>6. o.reply.type = "opened" /\ o.reply.handle = i - 1 /\ o.reply.size = Len(disk[req.path])
  BY <1>2 DEF Opened
<1>7. Len(table) \in Nat
  BY <1>1
<1>8. Names(u, i - 1, handle)
  <2>1. i - 1 + 1 = i /\ i - 1 < Len(u)
    BY <1>3, <1>5, <1>7
  <2>2. QED
    BY <1>4, <1>5, <2>1 DEF Names
<1>9. ASSUME NEW h \in Nat, NEW x, Names(table, h, x) PROVE Names(u, h, x) /\ h # i - 1
  <2>1. h + 1 \in 1 .. Len(table) /\ table[h + 1] = x /\ x # Closed
    BY <1>7, <1>9 DEF Names
  <2>2. h + 1 # i
    BY <1>3, <2>1
  <2>3. u[h + 1] = x /\ h < Len(u)
    BY <1>3, <1>5, <1>7, <2>1, <2>2
  <2>4. QED
    BY <1>3, <2>1, <2>2, <2>3 DEF Names
<1>10. ASSUME NEW j \in 1 .. Len(u) PROVE u[j] = handle \/ (j \in 1 .. Len(table) /\ u[j] = table[j])
  <2>1. CASE j = i
    BY <1>5, <2>1
  <2>2. CASE j # i
    <3>1. j \in 1 .. Len(table)
      BY <1>3, <1>5, <1>7, <2>2
    <3>2. QED
      BY <1>5, <2>2, <3>1
  <2>3. QED
    BY <2>1, <2>2
<1>11. i - 1 \in Nat
  BY <1>3
<1>12. QED
  BY <1>1, <1>2, <1>6, <1>8, <1>9, <1>10, <1>11 DEF handle, GivesOut, Grows

\* Only the closed slot is disturbed.
LEMMA TakenBack ==
  ASSUME NEW table \in Tables, NEW req \in Requests, req.type = "close", NEW o, ClosedBy(table, req, o)
  PROVE  /\ o.reply = ClosedReply
         /\ \A h \in Nat : \A handle : Names(table, h, handle) => Names(o.table, h, handle) \/ h = req.handle
         /\ \A i \in 1 .. Len(o.table) :
              o.table[i] = Closed \/ (i \in 1 .. Len(table) /\ o.table[i] = table[i])
<1>1. table \in Seq(Handles) /\ req.handle \in Nat /\ Len(table) \in Nat
  BY RequestKinds DEF Tables
<1>. DEFINE u == [j \in 1 .. Len(table) |-> IF j = req.handle + 1 THEN Closed ELSE table[j]]
<1>2. Len(u) = Len(table) /\ \A j \in 1 .. Len(table) : u[j] = IF j = req.handle + 1 THEN Closed ELSE table[j]
  BY <1>1, WithoutHandleIs
<1>3. o.table = u /\ o.reply = ClosedReply
  BY DEF ClosedBy
<1>. HIDE DEF u
<1>4. ASSUME NEW h \in Nat, NEW x, Names(table, h, x), h # req.handle PROVE Names(u, h, x)
  <2>1. h + 1 \in 1 .. Len(table) /\ h + 1 # req.handle + 1
    BY <1>1, <1>4 DEF Names
  <2>2. QED
    BY <1>2, <1>4, <2>1 DEF Names
<1>5. QED
  BY <1>2, <1>3, <1>4

\* What the daemon does for another client.
LEMMA OtherDoing ==
  ASSUME disk \in [Devices -> Seq(Bytes)],
         NEW k \in Connections, NEW g, DOMAIN g \subseteq Nat, NEW a \in Seq(Requests), OtherOk(k, g, a),
         k.server = "serving", k.inbox # <<>>, Head(k.inbox) # Malformed,
         NEW o \in Outcomes(k.table, Head(k.inbox), k.part)
  PROVE  Doing(k, o) \in Connections /\ OtherOk(Doing(k, o), g, a)
<1>. DEFINE req == Head(k.inbox)
            k2 == Doing(k, o)
            p == Pending(k)
            p2 == Append(p, o.reply)
            q == k.inbox
<1>1. /\ q \in Seq(Requests) /\ req \in Requests /\ req # Malformed /\ k.table \in Tables
      /\ k.table \in Seq(Handles) /\ p \in Seq(Replies) /\ p = k.outbox
      /\ k.part \in Seq(Bytes)
  BY ConnectionIs DEF Pending
<1>2. o.table \in Tables /\ o.reply \in Replies
  BY <1>1, OutcomeOk
<1>3. /\ k2 \in Connections /\ k2.server = "replying" /\ k2.client = k.client
      /\ k2.inbox = Tail(q) /\ k2.outbox = k.outbox /\ k2.table = o.table /\ k2.reply = o.reply
  BY <1>2, DoingIs
<1>4. Promised(p, q, k.table, g, a) /\ k.client # "none" /\ Apart(k)
  BY NewConnIs DEF OtherOk
<1>5. Pending(k2) = p2
  BY <1>1, <1>3 DEF Pending
<1>6. /\ Len(q) \in Nat \ {0} /\ req = q[1] /\ 1 \in 1 .. Len(q)
      /\ \A i \in 1 .. Len(Tail(q)) : i + 1 \in 1 .. Len(q) /\ Tail(q)[i] = q[i + 1]
  BY <1>1
<1>h. o \in Outcomes(k.table, req, k.part) /\ Head(q) = req /\ q # <<>> /\ disk \in [Devices -> Seq(Bytes)]
  OBVIOUS
<1>. HIDE DEF k2, p, p2, req, q
<1>7. \A i \in 1 .. Len(q) : q[i].type = "open" => q[i].path # Device
  BY <1>4 DEF Apart, q
<1>9. Promised(p2, Tail(q), o.table, g, a) /\ Apart(k2)
  <2>1. ASSUME o.table = k.table, o.reply.type # "opened"
        PROVE  Promised(p2, Tail(q), o.table, g, a) /\ Apart(k2)
    <3>1. Promised(p2, Tail(q), o.table, g, a)
      BY <1>1, <1>2, <1>4, <1>6, <2>1, <1>h, PromiseAnswered DEF p2
    <3>2. Apart(k2)
      BY <1>3, <1>4, <1>6, <1>7, <2>1 DEF Apart
    <3>3. QED
      BY <3>1, <3>2
  <2>2. CASE req.type = "open"
    <3>1. CASE Refused(k.table, o)
      BY <2>1, <3>1 DEF Refused
    <3>2. CASE OpenedBy(k.table, req, o)
      <4>0. GivesOut(k.table, req, o)
        BY <1>1, <2>2, <3>2, GivenOut
      <4>1. /\ o.reply.type = "opened"
            /\ Names(o.table, o.reply.handle, Handle(req.path, req.writable))
            /\ Grows(k.table, o.table, o.reply.handle)
            /\ \A i \in 1 .. Len(o.table) :
                 o.table[i] = Handle(req.path, req.writable) \/ (i \in 1 .. Len(k.table) /\ o.table[i] = k.table[i])
        BY <4>0 DEF GivesOut
      <4>2. Promised(p2, Tail(q), o.table, g, a)
        BY <1>1, <1>2, <1>4, <1>6, <4>1, <1>h, PromiseOpened DEF p2
      <4>3. Handle(req.path, req.writable).device # Device
        BY <1>6, <1>7, <2>2 DEF Handle
      <4>4. Apart(k2)
        <5>1. \A i \in 1 .. Len(k2.inbox) : k2.inbox[i].type = "open" => k2.inbox[i].path # Device
          BY <1>3, <1>6, <1>7
        <5>2. ASSUME NEW i \in 1 .. Len(k2.table), k2.table[i] # Closed PROVE k2.table[i].device # Device
          BY <1>3, <1>4, <4>1, <4>3, <5>2 DEF Apart
        <5>3. QED
          BY <5>1, <5>2 DEF Apart
      <4>5. QED
        BY <4>2, <4>4
    <3>3. QED
      BY <1>1, <2>2, <3>1, <3>2, <1>h, OpenOutcome
  <2>3. CASE req.type = "read"
    <3>1. o.table = k.table /\ o.reply.type # "opened"
      <4>1. Refused(k.table, o) \/ Answered(k.table, req, k.part, o)
        BY <1>1, <1>h, <2>3, ReadOutcome
      <4>2. CASE Refused(k.table, o)
        BY <4>2 DEF Refused
      <4>3. CASE Answered(k.table, req, k.part, o)
        <5>1. o.table = k.table /\ o.reply = Data(k.part)
          BY <4>3 DEF Answered
        <5>2. QED
          BY <5>1 DEF Data
      <4>4. QED
        BY <4>1, <4>2, <4>3
    <3>2. QED
      BY <2>1, <3>1
  <2>4. CASE req.type = "write"
    <3>1. o.table = k.table /\ o.reply.type # "opened"
      <4>1. Refused(k.table, o) \/ WrittenBy(k.table, req, k.part, o)
        BY <1>1, <1>h, <2>4, WriteOutcome
      <4>2. QED
        BY <4>1 DEF Refused, WrittenBy, Written, Error
    <3>2. QED
      BY <2>1, <3>1
  <2>5. CASE req.type = "close"
    <3>1. /\ o.reply = ClosedReply
          /\ \A h \in Nat : \A handle : Names(k.table, h, handle) => Names(o.table, h, handle) \/ h = req.handle
          /\ \A i \in 1 .. Len(o.table) :
               o.table[i] = Closed \/ (i \in 1 .. Len(k.table) /\ o.table[i] = k.table[i])
      BY <1>1, <1>h, <2>5, CloseOutcome, TakenBack
    <3>2. o.reply.type # "opened"
      BY <3>1 DEF ClosedReply
    <3>3. Promised(p2, Tail(q), o.table, g, a)
      BY <1>1, <1>2, <1>4, <1>6, <2>5, <3>1, <3>2, <1>h, PromiseAnswered DEF p2
    <3>4. Apart(k2)
      BY <1>3, <1>4, <1>6, <1>7, <3>1, SMTT(30) DEF Apart
    <3>5. QED
      BY <3>3, <3>4
  <2>6. QED
    BY <1>1, <2>2, <2>3, <2>4, <2>5, RequestKinds
<1>10. Len(k2.outbox) <= Len(a)
  BY <1>3 DEF OtherOk
<1>11. QED
  BY <1>3, <1>4, <1>5, <1>9, <1>10 DEF OtherOk, k2

-----------------------------------------------------------------------------
(* The daemon and the other clients, action by action. *)

LEMMA Given ==
  Block \in Nat \ {0} /\ Client \in Conns /\ Device \in Devices /\ NoThread \notin Threads
BY SourceAssumption

USE Given

LEMMA OneConnection ==
  ASSUME DaemonTypes, NEW c \in Conns, NEW k \in Connections, conn' = [conn EXCEPT ![c] = k]
  PROVE  /\ conn' \in [Conns -> Connections] /\ conn'[c] = k
         /\ \A d \in Conns : d # c => conn'[d] = conn[d]
BY DEF DaemonTypes

\* A step of one connection, and what is then known of its client.
LEMMA SoundStep ==
  ASSUME Sound, NEW c \in Conns, NEW k \in Connections, conn' = [conn EXCEPT ![c] = k],
         UNCHANGED <<daemon, disk, granted, asked>>,
         c \in Others => OtherOk(k, granted[c], asked[c])
  PROVE  Sound' /\ conn'[c] = k /\ \A d \in Conns : d # c => conn'[d] = conn[d]
<1>1. /\ conn' \in [Conns -> Connections] /\ conn'[c] = k
      /\ \A d \in Conns : d # c => conn'[d] = conn[d]
  BY OneConnection DEF Sound
<1>2. DaemonTypes'
  BY <1>1 DEF Sound, DaemonTypes
<1>3. HistoryTypes'
  BY DEF Sound, HistoryTypes
<1>4. ASSUME NEW d \in Others PROVE OtherOk(conn'[d], granted'[d], asked'[d])
  <2>1. d \in Conns /\ OtherOk(conn[d], granted[d], asked[d])
    BY DEF Others, Sound, OthersOk
  <2>2. QED
    BY <1>1, <2>1
<1>5. OthersOk'
  BY <1>4 DEF OthersOk, Others
<1>6. QED
  BY <1>1, <1>2, <1>3, <1>5 DEF Sound

LEMMA KnownConnection ==
  ASSUME Sound, NEW c \in Conns
  PROVE  /\ conn[c] \in Connections
         /\ c \in Others =>
              /\ OtherOk(conn[c], granted[c], asked[c])
              /\ DOMAIN granted[c] \subseteq Nat /\ asked[c] \in Seq(Requests)
BY DEF Sound, DaemonTypes, HistoryTypes, OthersOk

LEMMA AcceptSound ==
  ASSUME Sound, NEW c \in Conns, Accept(c), UNCHANGED <<granted, asked>>
  PROVE  /\ Sound' /\ \A d \in Conns : d # c => conn'[d] = conn[d]
         /\ conn[c].server = "accepted" /\ conn'[c] \in {Serving(conn[c]), Ended(conn[c])}
         /\ disk' = disk
<1>. DEFINE k == conn[c]
            k2 == IF k.allowed THEN Serving(k) ELSE Ended(k)
<1>1. /\ conn' = [conn EXCEPT ![c] = k2] /\ k.server = "accepted"
      /\ UNCHANGED <<daemon, disk>>
  BY DEF Accept, Serving, Sound, DaemonTypes
<1>2. k \in Connections /\ (c \in Others => OtherOk(k, granted[c], asked[c]))
  BY KnownConnection
<1>3. k2 \in Connections
  BY <1>2, ServingIs, EndedIs
<1>4. ASSUME c \in Others PROVE OtherOk(k2, granted[c], asked[c])
  <2>1. k.client # "none"
    BY <1>1, <1>2, <1>4, NewConnIs DEF OtherOk
  <2>2. QED
    BY <1>1, <1>2, <1>4, <2>1, OtherServing, OtherEnded
<1>5. k2 \in {Serving(k), Ended(k)}
  OBVIOUS
<1>. HIDE DEF k2
<1>6. Sound' /\ conn'[c] = k2 /\ \A d \in Conns : d # c => conn'[d] = conn[d]
  BY <1>1, <1>3, <1>4, SoundStep
<1>7. QED
  BY <1>1, <1>5, <1>6

LEMMA HangupSound ==
  ASSUME Sound, NEW c \in Conns, Hangup(c), UNCHANGED <<granted, asked>>
  PROVE  /\ Sound' /\ \A d \in Conns : d # c => conn'[d] = conn[d]
         /\ conn[c].server = "serving" /\ conn'[c] = Ended(conn[c])
         /\ disk' = disk
<1>. DEFINE k == conn[c]
            k2 == Ended(k)
<1>1. /\ conn' = [conn EXCEPT ![c] = k2] /\ k.server = "serving"
      /\ UNCHANGED <<daemon, disk>>
  BY DEF Hangup
<1>2. k \in Connections /\ (c \in Others => OtherOk(k, granted[c], asked[c]))
  BY KnownConnection
<1>3. k2 \in Connections
  BY <1>2, EndedIs
<1>4. ASSUME c \in Others PROVE OtherOk(k2, granted[c], asked[c])
  <2>1. k.client # "none"
    BY <1>1, <1>2, <1>4, NewConnIs DEF OtherOk
  <2>2. QED
    BY <1>2, <1>4, <2>1, OtherEnded
<1>. HIDE DEF k2
<1>5. Sound' /\ conn'[c] = k2 /\ \A d \in Conns : d # c => conn'[d] = conn[d]
  BY <1>1, <1>3, <1>4, SoundStep
<1>6. QED
  BY <1>1, <1>5 DEF k2

LEMMA ReplySound ==
  ASSUME Sound, NEW c \in Conns, Reply(c), UNCHANGED <<granted, asked>>
  PROVE  /\ Sound' /\ \A d \in Conns : d # c => conn'[d] = conn[d]
         /\ conn[c].server = "replying" /\ conn'[c] \in {Replied(conn[c]), Ended(conn[c])}
         /\ disk' = disk
<1>. DEFINE k == conn[c]
            k2 == IF k.client = "gone" THEN Ended(k) ELSE Replied(k)
<1>1. /\ conn' = [conn EXCEPT ![c] = k2] /\ k.server = "replying"
      /\ UNCHANGED <<daemon, disk>>
  <2>1. CASE k.client = "gone"
    BY <2>1 DEF Reply
  <2>2. CASE k.client # "gone"
    BY <2>2 DEF Reply, Replied
  <2>3. QED
    BY <2>1, <2>2
<1>2. k \in Connections /\ (c \in Others => OtherOk(k, granted[c], asked[c]))
  BY KnownConnection
<1>3. k2 \in Connections
  BY <1>1, <1>2, RepliedIs, EndedIs
<1>4. ASSUME c \in Others PROVE OtherOk(k2, granted[c], asked[c])
  <2>1. k.client # "none"
    BY <1>1, <1>2, <1>4, NewConnIs DEF OtherOk
  <2>2. QED
    BY <1>1, <1>2, <1>4, <2>1, OtherReplied, OtherEnded
<1>5. k2 \in {Replied(k), Ended(k)}
  OBVIOUS
<1>. HIDE DEF k2
<1>6. Sound' /\ conn'[c] = k2 /\ \A d \in Conns : d # c => conn'[d] = conn[d]
  BY <1>1, <1>3, <1>4, SoundStep
<1>7. QED
  BY <1>1, <1>5, <1>6

LEMMA DispatchSound ==
  ASSUME Sound, NEW c \in Conns, Dispatch(c), UNCHANGED <<granted, asked>>
  PROVE  /\ Sound' /\ \A d \in Conns : d # c => conn'[d] = conn[d]
         /\ disk' = disk
         /\ conn[c].server = "serving" /\ conn[c].inbox # <<>> /\ Head(conn[c].inbox) # Malformed
         /\ \E o \in Outcomes(conn[c].table, Head(conn[c].inbox), conn[c].part) :
              conn'[c] = Doing(conn[c], o)
<1>. DEFINE k == conn[c]
            req == Head(k.inbox)
<1>1. PICK o \in Outcomes(k.table, req, k.part) : conn' = [conn EXCEPT ![c] = Doing(k, o)]
  BY DEF Dispatch, Doing
<1>2. /\ k.server = "serving" /\ k.inbox # <<>> /\ req # Malformed /\ UNCHANGED <<daemon, disk>>
  BY DEF Dispatch
<1>3. /\ k \in Connections
      /\ c \in Others => /\ OtherOk(k, granted[c], asked[c])
                         /\ DOMAIN granted[c] \subseteq Nat /\ asked[c] \in Seq(Requests)
      /\ disk \in [Devices -> Seq(Bytes)]
  BY KnownConnection DEF Sound, DaemonTypes
<1>. DEFINE k2 == Doing(k, o)
<1>4. k2 \in Connections
  <2>1. k.table \in Tables /\ req \in Requests /\ k.part \in Seq(Bytes)
    BY <1>2, <1>3, ConnectionIs
  <2>2. o.table \in Tables /\ o.reply \in Replies
    BY <1>1, <1>2, <1>3, <2>1, OutcomeOk
  <2>3. QED
    BY <1>2, <1>3, <2>2, DoingIs
<1>5. ASSUME c \in Others PROVE OtherOk(k2, granted[c], asked[c])
  BY <1>1, <1>2, <1>3, <1>5, OtherDoing
<1>6. o \in Outcomes(k.table, req, k.part) /\ k2 = Doing(k, o)
  BY <1>1
<1>. HIDE DEF k2
<1>7. Sound' /\ conn'[c] = k2 /\ \A d \in Conns : d # c => conn'[d] = conn[d]
  BY <1>1, <1>2, <1>4, <1>5, <1>6, SoundStep
<1>8. QED
  BY <1>2, <1>6, <1>7

\* The loop of a request: its handle is open, and its bytes are known.
LEMMA AdmittedIs ==
  ASSUME NEW table \in Tables, NEW req \in Requests, Admitted(table, req)
  PROVE  /\ req.type \in {"read", "write"} /\ req.handle \in Nat /\ req.offset \in Nat
         /\ req.handle + 1 \in 1 .. Len(table) /\ table[req.handle + 1] # Closed
         /\ table[req.handle + 1].device \in Devices
         /\ req.type = "write" => req.data \in Seq(Bytes) /\ Need(req) = Len(req.data)
         /\ Need(req) \in Int
<1>1. table \in Seq(Handles) /\ req.type \in {"read", "write"} /\ Known(table, req.handle)
  BY DEF Tables, Admitted
<1>2. /\ req.handle \in Nat /\ req.offset \in Nat
      /\ req.type = "read" => req.len \in Int
      /\ req.type = "write" => req.data \in Seq(Bytes)
  BY <1>1, RequestKinds
<1>3. Need(req) \in Int /\ (req.type = "write" => Need(req) = Len(req.data))
  BY <1>1, <1>2 DEF Need
<1>4. QED
  BY <1>1, <1>2, <1>3, KnownIs

LEMMA MovedIs ==
  ASSUME NEW s \in Seq(Bytes), NEW req, req.type \in {"read", "write"}, NEW part \in Seq(Bytes),
         req.type = "read" => req.offset \in Nat,
         req.type = "write" => req.data \in Seq(Bytes) /\ Need(req) = Len(req.data),
         Need(req) \in Int, NEW n \in Nat, n <= Need(req) - Len(part),
         req.type = "read" => req.offset + Len(part) + n <= Len(s)
  PROVE  Moved(s, req, part, n) \in Seq(Bytes) /\ Len(Moved(s, req, part, n)) = Len(part) + n
<1>1. CASE req.type = "read"
  <2>. DEFINE at == req.offset + Len(part)
  <2>1. at \in Nat /\ at + n <= Len(s)
    BY <1>1
  <2>2. Moved(s, req, part, n) = part \o Slice(s, at, at + n)
    BY <1>1 DEF Moved
  <2>. HIDE DEF at
  <2>3. QED
    BY <2>1, <2>2, JoinedIs
<1>2. CASE req.type = "write"
  <2>. DEFINE z == Len(part) + n
              d == req.data
  <2>1. z \in Nat /\ z <= Len(d) /\ d \in Seq(Bytes) /\ Moved(s, req, part, n) = SubSeq(d, 0 + 1, 0 + z)
    BY <1>2 DEF Moved
  <2>. HIDE DEF z, d
  <2>2. 0 + z <= Len(d)
    BY <2>1
  <2>3. SubSeq(d, 0 + 1, 0 + z) \in Seq(Bytes) /\ Len(SubSeq(d, 0 + 1, 0 + z)) = z
    BY <2>1, <2>2, PartIs
  <2>4. QED
    BY <2>1, <2>3 DEF z
<1>3. QED
  BY <1>1, <1>2

\* One system call of the daemon.
TransferBy(c, n) ==
  LET k == conn[c]
      req == Head(k.inbox)
      device == k.table[req.handle + 1].device
      at == req.offset + Len(k.part)
  IN  /\ n \in Moves(disk[device], at, Need(req) - Len(k.part))
      /\ conn' = [conn EXCEPT ![c] = Holding(k, Moved(disk[device], req, k.part, n))]
      /\ disk' = IF req.type = "read" THEN disk
                 ELSE [disk EXCEPT ![device] =
                         Patched(disk[device], at, Slice(req.data, Len(k.part), Len(k.part) + n))]

LEMMA TransferIs ==
  ASSUME Sound, NEW c \in Conns, Transfer(c)
  PROVE  /\ conn[c].server = "serving" /\ conn[c].inbox # <<>> /\ daemon' = daemon
         /\ conn[c] \in Connections /\ Head(conn[c].inbox) \in Requests
         /\ Admitted(conn[c].table, Head(conn[c].inbox))
         /\ \E n : TransferBy(c, n)
<1>. DEFINE k == conn[c]
            req == Head(k.inbox)
            device == k.table[req.handle + 1].device
            at == req.offset + Len(k.part)
<1>1. k.server = "serving" /\ k.inbox # <<>> /\ daemon' = daemon /\ Admitted(k.table, req)
  BY DEF Transfer
<1>2. k \in Connections /\ req \in Requests /\ k.table \in Tables
  BY <1>1, KnownConnection, ConnectionIs
<1>3. device \in Devices
  BY <1>1, <1>2, AdmittedIs
<1>4. PICK n \in Moves(disk[device], at, Need(req) - Len(k.part)) :
        /\ conn' = [conn EXCEPT ![c].part = Moved(disk[device], req, @, n)]
        /\ disk' = IF req.type = "read" THEN disk
                   ELSE [disk EXCEPT ![device] =
                           Patched(@, at, Slice(req.data, Len(k.part), Len(k.part) + n))]
  BY DEF Transfer
<1>5. conn' = [conn EXCEPT ![c] = Holding(k, Moved(disk[device], req, k.part, n))]
  BY <1>4 DEF Holding, Sound, DaemonTypes
<1>6. TransferBy(c, n)
  BY <1>3, <1>4, <1>5 DEF TransferBy, Sound, DaemonTypes
<1>7. QED
  BY <1>1, <1>2, <1>6

LEMMA OtherHolding ==
  ASSUME NEW k \in Connections, NEW g, NEW a, OtherOk(k, g, a), k.server = "serving", k.inbox # <<>>,
         NEW part \in Seq(Bytes)
  PROVE  OtherOk(Holding(k, part), g, a)
<1>. DEFINE k2 == Holding(k, part)
<1>1. /\ k2.server = k.server /\ k2.client = k.client /\ k2.inbox = k.inbox
      /\ k2.outbox = k.outbox /\ k2.table = k.table
  BY HoldingIs
<1>. HIDE DEF k2
<1>2. k.client # "none"
  BY NewConnIs DEF OtherOk
<1>3. Pending(k2) = Pending(k) /\ Apart(k2)
  BY <1>1 DEF Pending, Apart, OtherOk
<1>4. OtherOk(k2, g, a)
  BY <1>1, <1>2, <1>3 DEF OtherOk
<1>5. QED
  BY <1>4 DEF k2

LEMMA TransferSound ==
  ASSUME Sound, NEW c \in Conns, Transfer(c), UNCHANGED <<granted, asked>>
  PROVE  /\ Sound' /\ \A d \in Conns : d # c => conn'[d] = conn[d]
         /\ c \in Others => disk'[Device] = disk[Device]
<1>. DEFINE k == conn[c]
            req == Head(k.inbox)
            device == k.table[req.handle + 1].device
            at == req.offset + Len(k.part)
<1>1. /\ k.server = "serving" /\ k.inbox # <<>> /\ daemon' = daemon /\ k \in Connections
      /\ req \in Requests /\ Admitted(k.table, req)
  BY TransferIs
<1>2. PICK n : TransferBy(c, n)
  BY TransferIs
<1>3. k.part \in Seq(Bytes) /\ k.table \in Tables
  BY <1>1, ConnectionIs
<1>4. /\ req.type \in {"read", "write"} /\ req.offset \in Nat /\ device \in Devices
      /\ req.handle + 1 \in 1 .. Len(k.table) /\ k.table[req.handle + 1] # Closed
      /\ req.type = "write" => req.data \in Seq(Bytes) /\ Need(req) = Len(req.data)
      /\ Need(req) \in Int
  BY <1>1, <1>3, AdmittedIs
<1>5. disk \in [Devices -> Seq(Bytes)] /\ disk[device] \in Seq(Bytes)
  BY <1>4 DEF Sound, DaemonTypes
<1>. DEFINE part == Moved(disk[device], req, k.part, n)
            wrote == Patched(disk[device], at, Slice(req.data, Len(k.part), Len(k.part) + n))
<1>6. /\ n \in Moves(disk[device], at, Need(req) - Len(k.part))
      /\ conn' = [conn EXCEPT ![c] = Holding(k, part)]
      /\ disk' = IF req.type = "read" THEN disk ELSE [disk EXCEPT ![device] = wrote]
  BY <1>2 DEF TransferBy
<1>7. n \in Nat /\ n <= Need(req) - Len(k.part) /\ at + n <= Len(disk[device]) /\ at \in Nat
  <2>1. at \in Nat /\ Need(req) - Len(k.part) \in Int
    BY <1>3, <1>4
  <2>. DEFINE m == Need(req) - Len(k.part)
              s == disk[device]
  <2>. HIDE DEF m, s, at
  <2>2. at \in Nat /\ m \in Int /\ s \in Seq(Bytes) /\ n \in Moves(s, at, m)
    BY <1>5, <1>6, <2>1 DEF m, s
  <2>3. n \in Nat \ {0} /\ n <= m /\ at + n <= Len(s)
    BY ONLY <2>2, MovesIs
  <2>4. QED
    BY <2>2, <2>3 DEF m, s
<1>a. at = req.offset + Len(k.part) /\ device = k.table[req.handle + 1].device
  OBVIOUS
<1>. HIDE DEF req, device, at
<1>8. part \in Seq(Bytes)
  <2>. DEFINE s == disk[device]
              had == k.part
  <2>1. req.offset + Len(k.part) + n <= Len(disk[device])
    BY <1>7, <1>a
  <2>. HIDE DEF s, had, k
  <2>2. /\ s \in Seq(Bytes) /\ req.type \in {"read", "write"} /\ had \in Seq(Bytes)
        /\ (req.type = "read" => req.offset \in Nat)
        /\ (req.type = "write" => req.data \in Seq(Bytes) /\ Need(req) = Len(req.data))
        /\ Need(req) \in Int /\ n \in Nat /\ n <= Need(req) - Len(had)
        /\ (req.type = "read" => req.offset + Len(had) + n <= Len(s))
    BY <1>3, <1>4, <1>5, <1>7, <2>1 DEF s, had
  <2>3. Moved(s, req, had, n) \in Seq(Bytes)
    BY <2>2, MovedIs
  <2>4. QED
    BY <2>3 DEF s, had
<1>9. req.type = "write" => wrote \in Seq(Bytes)
  <2>1. SUFFICES ASSUME req.type = "write" PROVE wrote \in Seq(Bytes)
    OBVIOUS
  <2>2. Len(k.part) + n <= Len(req.data) /\ Len(k.part) \in Nat /\ req.data \in Seq(Bytes)
    BY <1>3, <1>4, <1>7, <2>1
  <2>. DEFINE done == Len(k.part)
              data == req.data
  <2>. HIDE DEF done, data
  <2>3. done + n <= Len(data) /\ done \in Nat /\ data \in Seq(Bytes)
    BY <2>2 DEF done, data
  <2>4. Patched(disk[device], at, Slice(data, done, done + n)) \in Seq(Bytes)
    BY <1>5, <1>7, <2>3, PutDown DEF Laid
  <2>5. QED
    BY <2>4 DEF done, data
<1>. HIDE DEF part, wrote
<1>10. disk' \in [Devices -> Seq(Bytes)]
  BY <1>4, <1>5, <1>6, <1>9
<1>11. ASSUME c \in Others PROVE disk'[Device] = disk[Device]
  <2>1. device # Device
    BY <1>1, <1>4, <1>11, <1>a, KnownConnection DEF OtherOk, Apart
  <2>2. QED
    BY <1>4, <1>5, <1>6, <2>1
<1>12. Holding(k, part) \in Connections
  BY <1>1, <1>8, HoldingIs
<1>13. ASSUME c \in Others PROVE OtherOk(Holding(k, part), granted[c], asked[c])
  BY <1>1, <1>8, <1>13, KnownConnection, OtherHolding
<1>14. /\ conn' \in [Conns -> Connections] /\ conn'[c] = Holding(k, part)
       /\ \A d \in Conns : d # c => conn'[d] = conn[d]
  BY <1>6, <1>12, OneConnection DEF Sound
<1>15. DaemonTypes' /\ HistoryTypes'
  BY <1>1, <1>10, <1>14 DEF Sound, DaemonTypes, HistoryTypes
<1>16. ASSUME NEW d \in Others PROVE OtherOk(conn'[d], granted'[d], asked'[d])
  <2>1. d \in Conns /\ OtherOk(conn[d], granted[d], asked[d])
    BY DEF Others, Sound, OthersOk
  <2>2. QED
    BY <1>13, <1>14, <2>1
<1>17. QED
  BY <1>11, <1>14, <1>15, <1>16 DEF Sound, OthersOk

\* A step of another client: its connection and what it knows.
LEMMA ClientStep ==
  ASSUME Sound, NEW c \in Others, NEW k \in Connections, conn' = [conn EXCEPT ![c] = k],
         UNCHANGED <<daemon, disk>>, NEW g, DOMAIN g \subseteq Nat, NEW a \in Seq(Requests),
         DOMAIN granted' = Others, granted'[c] = g, \A d \in Others : d # c => granted'[d] = granted[d],
         asked' = [asked EXCEPT ![c] = a], OtherOk(k, g, a)
  PROVE  Sound' /\ \A d \in Conns : d # c => conn'[d] = conn[d]
<1>1. /\ conn' \in [Conns -> Connections] /\ conn'[c] = k
      /\ \A d \in Conns : d # c => conn'[d] = conn[d]
  BY OneConnection DEF Sound, Others
<1>2. DaemonTypes'
  BY <1>1 DEF Sound, DaemonTypes
<1>3. /\ granted'[c] = g /\ asked'[c] = a /\ DOMAIN granted' = Others
      /\ asked' \in [Others -> Seq(Requests)]
      /\ \A d \in Others : d # c => granted'[d] = granted[d] /\ asked'[d] = asked[d]
  BY DEF Sound, HistoryTypes
<1>4. HistoryTypes'
  BY <1>3 DEF Sound, HistoryTypes, Others
<1>5. ASSUME NEW d \in Others PROVE OtherOk(conn'[d], granted'[d], asked'[d])
  <2>1. d \in Conns /\ OtherOk(conn[d], granted[d], asked[d])
    BY DEF Others, Sound, OthersOk
  <2>2. QED
    BY <1>1, <1>3, <2>1
<1>6. QED
  BY <1>1, <1>2, <1>4, <1>5 DEF Sound, OthersOk, Others

LEMMA OtherRequestIs ==
  ASSUME NEW c \in Others, Sound, NEW req \in OtherRequests(c)
  PROVE  /\ req \in Requests /\ (req.type = "open" => req.path # Device)
         /\ req.type = "close" => req.handle \in DOMAIN granted[c] /\ req = CloseRequest(req.handle)
<1>1. CASE req \in {OpenRequest(path, writable) : path \in OwnDevices \cup Strays, writable \in BOOLEAN}
  <2>1. PICK path \in OwnDevices \cup Strays, writable \in BOOLEAN : req = OpenRequest(path, writable)
    BY <1>1
  <2>2. path # Device /\ path \in Devices \cup Strays
    BY OthersAssumption
  <2>3. QED
    BY <2>1, <2>2, RequestsMade DEF OpenRequest
<1>2. CASE req \in {ReadRequest(0, 0, n) : n \in {1, MaxChunk + 1}}
  BY <1>2, RequestsMade DEF ReadRequest
<1>3. CASE req \in {WriteRequest(h, 0, <<NewByte>>) : h \in 0 .. MaxHandles}
  <2>1. PICK h \in 0 .. MaxHandles : req = WriteRequest(h, 0, <<NewByte>>)
    BY <1>3
  <2>2. h \in Nat /\ <<NewByte>> \in Seq(Bytes)
    BY SourceAssumption
  <2>3. QED
    BY <2>1, <2>2, RequestsMade DEF WriteRequest
<1>4. CASE req \in {CloseRequest(h) : h \in DOMAIN granted[c]}
  <2>1. PICK h \in DOMAIN granted[c] : req = CloseRequest(h)
    BY <1>4
  <2>2. h \in Nat
    BY DEF Sound, HistoryTypes
  <2>3. QED
    BY <2>1, <2>2, RequestsMade DEF CloseRequest
<1>5. CASE req = Malformed
  BY <1>5, RequestsMade DEF Malformed
<1>6. QED
  BY <1>1, <1>2, <1>3, <1>4, <1>5 DEF OtherRequests

LEMMA OtherSendsSound ==
  ASSUME Sound, NEW c \in Others, OtherSends(c)
  PROVE  /\ Sound' /\ \A d \in Conns : d # c => conn'[d] = conn[d]
         /\ disk' = disk
<1>. DEFINE k == conn[c]
            g == granted[c]
            a == asked[c]
<1>1. /\ k \in Connections /\ OtherOk(k, g, a) /\ DOMAIN g \subseteq Nat /\ a \in Seq(Requests) /\ c \in Conns
  BY KnownConnection DEF Others
<1>2. UNCHANGED <<daemon, disk>>
  BY DEF OtherSends
<1>3. PICK req \in OtherRequests(c) :
        /\ asked' = [asked EXCEPT ![c] = Append(@, req)]
        /\ granted' = IF req.type # "close" THEN granted
                      ELSE [granted EXCEPT ![c] = [h \in DOMAIN @ \ {req.handle} |-> @[h]]]
        /\ \/ /\ k.client = "none"
              /\ \E allowed \in BOOLEAN : conn' = Connected(c, allowed, req)
           \/ k.client = "here" /\ conn' = Sent(c, req)
  BY DEF OtherSends
<1>4. /\ req \in Requests /\ (req.type = "open" => req.path # Device)
      /\ req.type = "close" => req.handle \in DOMAIN g /\ req = CloseRequest(req.handle)
  BY <1>3, OtherRequestIs
<1>5. asked' = [asked EXCEPT ![c] = Append(a, req)] /\ Append(a, req) \in Seq(Requests)
  BY <1>1, <1>3, <1>4 DEF Sound, HistoryTypes
<1>6. /\ DOMAIN granted' = Others /\ granted'[c] = Kept(g, req)
      /\ \A d \in Others : d # c => granted'[d] = granted[d]
  BY <1>3 DEF Sound, HistoryTypes, Kept
<1>7. DOMAIN Kept(g, req) \subseteq Nat
  BY <1>1 DEF Kept
<1>8. CASE k.client = "none"
  <2>1. PICK allowed \in BOOLEAN : conn' = Connected(c, allowed, req)
    BY <1>3, <1>8
  <2>2. g = <<>> /\ a = <<>>
    BY <1>1, <1>8 DEF OtherOk
  <2>3. req.type # "close"
    BY <1>4, <2>2
  <2>4. conn' = [conn EXCEPT ![c] = Begun(allowed, req)]
    BY <2>1 DEF Connected, Begun
  <2>5. OtherOk(Begun(allowed, req), Kept(g, req), Append(a, req))
    BY <1>4, <2>2, <2>3, OtherBegun DEF Kept
  <2>6. Begun(allowed, req) \in Connections
    BY <1>4, BegunIs
  <2>7. QED
    BY <1>2, <1>5, <1>6, <1>7, <2>4, <2>5, <2>6, ClientStep
<1>9. CASE k.client = "here"
  <2>1. conn' = [conn EXCEPT ![c] = Sending(k, req)]
    BY <1>1, <1>3, <1>9 DEF Sent, Sending, Sound, DaemonTypes
  <2>2. OtherOk(Sending(k, req), Kept(g, req), Append(a, req))
    BY <1>1, <1>4, <1>9, OtherSending
  <2>3. Sending(k, req) \in Connections
    BY <1>1, <1>4, SendingIs
  <2>4. QED
    BY <1>2, <1>5, <1>6, <1>7, <2>1, <2>2, <2>3, ClientStep
<1>10. QED
  BY <1>2, <1>3, <1>8, <1>9

LEMMA OtherHearsSound ==
  ASSUME Sound, NEW c \in Others, OtherHears(c)
  PROVE  /\ Sound' /\ \A d \in Conns : d # c => conn'[d] = conn[d]
         /\ disk' = disk
<1>. DEFINE k == conn[c]
            g == granted[c]
            a == asked[c]
            reply == Head(k.outbox)
            req == Head(a)
<1>1. /\ k \in Connections /\ OtherOk(k, g, a) /\ DOMAIN g \subseteq Nat /\ a \in Seq(Requests) /\ c \in Conns
  BY KnownConnection DEF Others
<1>2. /\ UNCHANGED <<daemon, disk>> /\ k.client = "here" /\ k.outbox # <<>>
      /\ conn' = Received(c)
      /\ asked' = [asked EXCEPT ![c] = Tail(@)]
  BY DEF OtherHears, HasReply
<1>3. granted' = IF reply.type # "opened" THEN granted
                 ELSE [granted EXCEPT ![c] =
                         [h \in DOMAIN @ \cup {reply.handle} |->
                            IF h = reply.handle THEN Handle(req.path, req.writable) ELSE @[h]]]
  BY DEF OtherHears
<1>4. /\ DOMAIN granted' = Others /\ granted'[c] = Got(g, reply, req)
      /\ \A d \in Others : d # c => granted'[d] = granted[d]
  BY <1>3 DEF Sound, HistoryTypes, Got
<1>5. conn' = [conn EXCEPT ![c] = Hearing(k)]
  BY <1>1, <1>2 DEF Received, Hearing, Sound, DaemonTypes
<1>6. k.outbox \in Seq(Replies) /\ reply \in Replies
  BY <1>1, <1>2, ConnectionIs
<1>7. DOMAIN Got(g, reply, req) \subseteq Nat
  BY <1>1, <1>6, ReplyKinds DEF Got
<1>8. a # <<>>
  BY <1>1, <1>2, <1>6 DEF OtherOk
<1>9. asked' = [asked EXCEPT ![c] = Tail(a)] /\ Tail(a) \in Seq(Requests)
  BY <1>1, <1>2, <1>8 DEF Sound, HistoryTypes
<1>10. OtherOk(Hearing(k), Got(g, reply, req), Tail(a)) /\ Hearing(k) \in Connections
  BY <1>1, <1>2, OtherHearing, HearingIs
<1>. HIDE DEF k, g, a, reply, req
<1>11. QED
  BY <1>2, <1>4, <1>5, <1>7, <1>9, <1>10, ClientStep

LEMMA OtherLeavesSound ==
  ASSUME Sound, NEW c \in Others, OtherLeaves(c)
  PROVE  /\ Sound' /\ \A d \in Conns : d # c => conn'[d] = conn[d]
         /\ disk' = disk
<1>. DEFINE k == conn[c]
<1>1. /\ k \in Connections /\ OtherOk(k, granted[c], asked[c]) /\ c \in Conns
  BY KnownConnection DEF Others
<1>2. UNCHANGED <<daemon, disk, granted, asked>> /\ conn' = [conn EXCEPT ![c] = Leaving(k)]
  BY <1>1 DEF OtherLeaves, Leaving, Sound, DaemonTypes
<1>3. Leaving(k) \in Connections /\ OtherOk(Leaving(k), granted[c], asked[c])
  BY <1>1, LeavingIs, OtherLeaving
<1>4. QED
  BY <1>1, <1>2, <1>3, SoundStep

LEMMA DieSound ==
  ASSUME Sound, Die, UNCHANGED <<granted, asked>>
  PROVE  Sound' /\ conn'[Client] \in {conn[Client], Ended(conn[Client])} /\ disk' = disk
         /\ (conn'[Client] = conn[Client] => conn[Client].server \in {"none", "ended"})
<1>1. /\ daemon' = "down" /\ UNCHANGED disk
      /\ conn' = [c \in Conns |-> IF conn[c].server = "none" THEN conn[c] ELSE Ended(conn[c])]
  BY DEF Die
<1>2. \A c \in Conns : conn[c] \in Connections
  BY KnownConnection
<1>3. \A c \in Conns : conn'[c] \in Connections /\ (conn'[c] = conn[c] \/ conn'[c] = Ended(conn[c]))
  BY <1>1, <1>2, EndedIs
<1>4. DaemonTypes'
  BY <1>1, <1>3 DEF Sound, DaemonTypes
<1>5. HistoryTypes'
  BY DEF Sound, HistoryTypes
<1>6. ASSUME NEW c \in Others PROVE OtherOk(conn'[c], granted'[c], asked'[c])
  <2>1. c \in Conns /\ OtherOk(conn[c], granted[c], asked[c])
    BY KnownConnection DEF Others
  <2>2. CASE conn[c].server = "none"
    BY <1>1, <2>1, <2>2
  <2>3. CASE conn[c].server # "none"
    <3>1. conn[c].client # "none"
      BY <2>1, <2>3, NewConnIs DEF OtherOk
    <3>2. OtherOk(Ended(conn[c]), granted[c], asked[c])
      BY <1>2, <2>1, <3>1, OtherEnded
    <3>3. QED
      BY <1>1, <2>1, <2>3, <3>2
  <2>4. QED
    BY <2>2, <2>3
<1>7. conn'[Client] = conn[Client] => conn[Client].server \in {"none", "ended"}
  BY <1>1, <1>2, EndedIs
<1>8. QED
  BY <1>1, <1>3, <1>4, <1>5, <1>6, <1>7 DEF Sound, OthersOk

-----------------------------------------------------------------------------
(* The source's own connection, as the daemon goes on. *)

Follows(k2, k) ==
  \/ k2 = k
  \/ k2 = Ended(k)
  \/ k.server = "accepted" /\ k2 = Serving(k)
  \/ k.server = "replying" /\ k2 = Replied(k)

LEMMA QuietFollows ==
  ASSUME NEW k \in Connections, NEW k2, Follows(k2, k), Quiet(k)
  PROVE  Quiet(k2)
BY EndedIs, ServingIs DEF Follows, Quiet

LEMMA LostFollows ==
  ASSUME NEW k \in Connections, NEW k2, Follows(k2, k), Lost(k)
  PROVE  Lost(k2)
BY EndedIs DEF Follows, Lost

LEMMA AskedFollows ==
  ASSUME NEW k \in Connections, NEW k2, Follows(k2, k), NEW req, Asked(k, req)
  PROVE  (Asked(k2, req) /\ k2.part = k.part) \/ Lost(k2)
BY EndedIs, ServingIs DEF Follows, Asked, Lost

LEMMA AnsweringFollows ==
  ASSUME NEW k \in Connections, NEW k2, Follows(k2, k), NEW r, Answering(k, r)
  PROVE  Answering(k2, r) \/ Lost(k2)
<1>1. CASE k2 = k
  BY <1>1
<1>2. CASE k2 = Ended(k)
  BY <1>2, EndedIs DEF Answering, Lost
<1>3. CASE k.server = "replying" /\ k2 = Replied(k)
  <2>1. k.outbox = <<>> /\ k.reply = r /\ k.inbox = <<>>
    BY <1>3 DEF Answering
  <2>2. Append(k.outbox, k.reply) = <<r>>
    BY <2>1
  <2>3. QED
    BY <1>3, <2>1, <2>2, RepliedIs DEF Answering
<1>4. QED
  BY <1>1, <1>2, <1>3 DEF Follows, Answering

LEMMA ServesFollows ==
  ASSUME NEW k \in Connections, NEW k2, Follows(k2, k), Serves(k2), k.server # "accepted"
  PROVE  Serves(k) /\ k2.table = k.table
BY EndedIs, RepliedIs DEF Follows, Serves

\* What is said of a thread depends on its own call and step, on the source, and
\* on the device when it is a write.
LEMMA SameCall ==
  ASSUME NEW u, calls'[u] = calls[u], source' = source
  PROVE  /\ Offset(u)' = Offset(u) /\ Count(u)' = Count(u) /\ From(u)' = From(u) /\ To(u)' = To(u)
         /\ HeadOf(u)' = HeadOf(u) /\ Span(u)' = Span(u) /\ Fresh(u)' = Fresh(u)
         /\ \A n : Own(u, n)' = Own(u, n) /\ WrittenSoFar(u, n)' = WrittenSoFar(u, n)
         /\ \A a : ReadSoFar(u, a)' = ReadSoFar(u, a)
BY DEF Offset, Count, From, To, HeadOf, Span, Fresh, Own, WrittenSoFar, ReadSoFar

LEMMA SameReads ==
  ASSUME NEW u, calls'[u] = calls[u], source' = source,
         disk'[Device] = disk[Device] \/ calls[u].kind # "write", NEW a
  PROVE  Reads(u, a)' = Reads(u, a)
BY SameCall DEF Reads

LEMMA SameWrites ==
  ASSUME NEW u, calls'[u] = calls[u], source' = source, step'[u].block = step[u].block,
         disk'[Device] = disk[Device], NEW n
  PROVE  Writes(u, n)' = Writes(u, n)
BY SameCall DEF Writes

LEMMA SameRequest ==
  ASSUME NEW u, calls'[u] = calls[u], source' = source, step'[u] = step[u],
         disk'[Device] = disk[Device]
  PROVE  /\ RequestOf(u)' = RequestOf(u)
         /\ \A part : Moving(u, part)' = Moving(u, part)
         /\ \A r : CallReply(u, r)' = CallReply(u, r)
<1>1. RequestOf(u)' = RequestOf(u)
  BY SameCall DEF RequestOf
<1>2. \A a : Reads(u, a)' = Reads(u, a)
  BY SameReads
<1>3. \A n : Writes(u, n)' = Writes(u, n)
  BY SameWrites
<1>4. \A part : Moving(u, part)' = Moving(u, part)
  BY <1>2, <1>3 DEF Moving
<1>5. \A r : CallReply(u, r)' = CallReply(u, r)
  BY <1>2, <1>3, SameCall DEF CallReply
<1>6. QED
  BY <1>1, <1>4, <1>5

\* A thread that neither moves nor loses the lock is as it was.
LEMMA OtherThread ==
  ASSUME NEW u, ThreadOk(u), calls'[u] = calls[u], step'[u] = step[u], source' = source,
         \/ disk'[Device] = disk[Device]
         \/ calls[u] = NoCall
         \/ calls[u].kind = "read",
         lock = u => lock' = u
  PROVE  ThreadOk(u)'
<1>1. \/ disk'[Device] = disk[Device] \/ calls[u].kind # "write"
      \/ step[u].at \notin {"reading", "writing"}
  BY DEF ThreadOk
<1>2. step[u].at = "reading" => Reads(u, step[u].block)' = Reads(u, step[u].block)
  BY <1>1, SameReads
<1>3. step[u].at = "writing" => calls[u].kind = "write"
  BY DEF ThreadOk
<1>4. step[u].at = "writing" => Writes(u, step[u].done)' = Writes(u, step[u].done)
  BY <1>1, <1>3, SameWrites
<1>5. QED
  BY <1>2, <1>3, <1>4, SameCall DEF ThreadOk, Ready

\* The daemon's other work does not touch the source's threads.
LEMMA ThreadsKept ==
  ASSUME ThreadsOk, UNCHANGED <<source, lock, calls, step>>, disk'[Device] = disk[Device]
  PROVE  ThreadsOk'
BY OtherThread DEF ThreadsOk

LEMMA OwnKept ==
  ASSUME SourceOk, conn[Client] \in Connections, Follows(conn'[Client], conn[Client]),
         UNCHANGED <<source, lock, calls, step, answers>>, disk'[Device] = disk[Device]
  PROVE  SourceOk'
<1>. DEFINE k == conn[Client]
            k2 == conn'[Client]
<1>1. SourceTypes'
  BY DEF SourceOk, SourceTypes
<1>2. ThreadsOk'
  BY ThreadsKept DEF SourceOk
<1>3. Quiet(k) => Quiet(k2)
  BY QuietFollows
<1>4. ASSUME Opening(k) PROVE Opening(conn[Client])'
  <2>1. CASE Asked(k, OpenRequest(Device, source.writable))
    BY <2>1, AskedFollows DEF Opening
  <2>2. CASE Lost(k)
    BY <2>2, LostFollows DEF Opening
  <2>3. CASE \E r \in Replies : Answering(k, r) /\ OpenReply(k, r)
    <3>1. PICK r \in Replies : Answering(k, r) /\ OpenReply(k, r)
      BY <2>3
    <3>2. k.server # "accepted"
      BY <3>1 DEF Answering
    <3>3. OpenReply(conn[Client], r)'
      BY <3>1, <3>2, ServesFollows DEF OpenReply
    <3>4. QED
      BY <3>1, <3>3, AnsweringFollows DEF Opening
  <2>4. QED
    BY <1>4, <2>1, <2>2, <2>3 DEF Opening
<1>5. ASSUME NEW t, Asking(k, t) PROVE Asking(conn[Client], t)'
  <2>0. /\ RequestOf(t)' = RequestOf(t) /\ \A part : Moving(t, part)' = Moving(t, part)
        /\ \A r : CallReply(t, r)' = CallReply(t, r)
    BY SameRequest
  <2>1. CASE Asked(k, RequestOf(t)) /\ Moving(t, k.part)
    BY <2>0, <2>1, AskedFollows DEF Asking
  <2>2. CASE Lost(k)
    BY <2>2, LostFollows DEF Asking
  <2>3. CASE \E r \in Replies : Answering(k, r) /\ CallReply(t, r)
    BY <2>0, <2>3, AnsweringFollows DEF Asking
  <2>4. QED
    BY <1>5, <2>1, <2>2, <2>3 DEF Asking
<1>6. ASSUME source.via = "helper"
      PROVE  /\ k2.server \notin {"none", "accepted"}
             /\ Serves(k2) => Names(k2.table, source.handle, Handle(Device, source.writable))
  <2>1. k.server \notin {"none", "accepted"} /\ (Serves(k) => Names(k.table, source.handle, Handle(Device, source.writable)))
    BY <1>6 DEF SourceOk, ClientOk
  <2>2. k2.server \notin {"none", "accepted"}
    BY <2>1, EndedIs, RepliedIs DEF Follows
  <2>3. QED
    BY <2>1, <2>2, ServesFollows
<1>7. ClientOk'
  <2>. HIDE DEF k, k2
  <2>1. QED
    BY <1>3, <1>4, <1>5, <1>6 DEF SourceOk, ClientOk, Ready, k, k2
<1>8. QED
  BY <1>1, <1>2, <1>7 DEF SourceOk

-----------------------------------------------------------------------------
(* The sectors of a call. *)

\* The call a thread is in.
LEMMA CallKinds ==
  ASSUME SourceTypes, NEW t \in Threads, calls[t] # NoCall
  PROVE  /\ calls[t].kind \in {"read", "write"}
         /\ calls[t].offset \in Nat
         /\ calls[t].kind = "read" =>
              calls[t] \in [kind : {"read"}, offset : Nat, len : Nat \ {0}, effect : Seq(Bytes)]
         /\ calls[t].kind = "write" =>
              calls[t] \in [kind : {"write"}, offset : Nat, data : Seq(Bytes) \ {<<>>}, effect : Seq(Bytes)]
<1>1. calls[t] \in Calls
  BY DEF SourceTypes
<1>2. QED
  BY <1>1 DEF Calls

LEMMA CountIs ==
  ASSUME SourceTypes, NEW t \in Threads, calls[t] # NoCall
  PROVE  Offset(t) \in Nat /\ Count(t) \in Nat \ {0}
         /\ (calls[t].kind = "read" => Count(t) = calls[t].len)
         /\ (calls[t].kind = "write" => Count(t) = Len(calls[t].data) /\ calls[t].data \in Seq(Bytes))
<1>1. CASE calls[t].kind = "read"
  BY <1>1, CallKinds DEF Offset, Count
<1>2. CASE calls[t].kind = "write"
  <2>1. calls[t].data \in Seq(Bytes) /\ calls[t].data # <<>> /\ calls[t].offset \in Nat
    BY <1>2, CallKinds
  <2>2. Len(calls[t].data) \in Nat \ {0}
    BY <2>1
  <2>3. QED
    BY <1>2, <2>1, <2>2 DEF Offset, Count
<1>3. QED
  BY <1>1, <1>2, CallKinds

\* The aligned range holds the range of the call.
LEMMA RangeIs ==
  ASSUME SourceTypes, NEW t \in Threads, calls[t] # NoCall
  PROVE  /\ From(t) \in Nat /\ HeadOf(t) \in Nat /\ From(t) + HeadOf(t) = Offset(t)
         /\ To(t) \in Nat
         /\ calls[t].kind = "read" => To(t) <= source.size
         /\ Offset(t) + Count(t) <= source.size => Offset(t) + Count(t) <= To(t)
<1>. DEFINE o == Offset(t)
            n == Count(t)
            f == From(t)
            e == EndOf(o, n, Block)
<1>1. o \in Nat /\ n \in Nat \ {0}
  BY CountIs
<1>2. f \in Nat /\ f <= o
  BY <1>1, StartIs DEF From
<1>3. e \in Nat /\ o + n <= e
  BY <1>1, EndIs
<1>4. source.size \in Nat
  BY DEF SourceTypes, Sources
<1>5. To(t) = IF calls[t].kind = "read" THEN Smaller(e, source.size) ELSE e
  BY DEF To
<1>6. HeadOf(t) = o - f
  BY DEF HeadOf
<1>. HIDE DEF o, n, f, e
<1>7. QED
  BY <1>1, <1>2, <1>3, <1>4, <1>5, <1>6 DEF Smaller, o, n, f

\* Of the caller's bytes, those among the first of the aligned ones.
LEMMA OwnIs ==
  ASSUME SourceTypes, NEW t \in Threads, calls[t] # NoCall, NEW n \in Nat
  PROVE  /\ Own(t, n) = Upto(n, HeadOf(t), Count(t))
         /\ HeadOf(t) \in Nat /\ Count(t) \in Nat \ {0} /\ Own(t, n) \in 0 .. Count(t)
         /\ Own(t, n) > 0 => HeadOf(t) + Own(t, n) <= n
         /\ HeadOf(t) + Count(t) <= n => Own(t, n) = Count(t)
         /\ n = 0 => Own(t, n) = 0
<1>. DEFINE h == HeadOf(t)
            c == Count(t)
<1>1. h \in Nat /\ c \in Nat \ {0}
  BY RangeIs, CountIs
<1>2. Own(t, n) = Upto(n, h, c)
  BY DEF Own, Upto
<1>. HIDE DEF h, c
<1>3. /\ Upto(n, h, c) \in 0 .. c /\ (Upto(n, h, c) > 0 => h + Upto(n, h, c) <= n)
      /\ h + c <= n => Upto(n, h, c) = c
      /\ n <= h => Upto(n, h, c) = 0
  BY <1>1, UptoIs
<1>4. QED
  BY <1>1, <1>2, <1>3 DEF h, c

LEMMA ReadSoFarIs ==
  ASSUME SourceTypes, NEW t \in Threads, calls[t] # NoCall, NEW a \in Seq(Bytes)
  PROVE  ReadSoFar(t, a) \in Seq(Bytes) /\ Len(ReadSoFar(t, a)) = Own(t, Len(a))
<1>. DEFINE h == HeadOf(t)
            o == Own(t, Len(a))
<1>1. h \in Nat /\ o \in Nat /\ (o = 0 \/ h + o <= Len(a))
  BY OwnIs
<1>2. ReadSoFar(t, a) = SubSeq(a, h + 1, h + o)
  BY DEF ReadSoFar, Inside, Slice
<1>. HIDE DEF h, o
<1>3. SubSeq(a, h + 1, h + o) \in Seq(Bytes) /\ Len(SubSeq(a, h + 1, h + o)) = o
  BY <1>1, PartIs
<1>4. QED
  BY <1>2, <1>3 DEF o

LEMMA WrittenSoFarIs ==
  ASSUME SourceTypes, NEW t \in Threads, calls[t] # NoCall, calls[t].kind = "write", NEW n \in Nat
  PROVE  WrittenSoFar(t, n) \in Seq(Bytes) /\ Len(WrittenSoFar(t, n)) = Own(t, n)
<1>. DEFINE d == calls[t].data
            o == Own(t, n)
<1>1. d \in Seq(Bytes) /\ o \in Nat /\ o <= Len(d)
  <2>1. d \in Seq(Bytes) /\ Count(t) = Len(d)
    BY CountIs
  <2>2. o \in 0 .. Count(t)
    BY OwnIs
  <2>. HIDE DEF d, o
  <2>3. QED
    BY <2>1, <2>2
<1>2. WrittenSoFar(t, n) = SubSeq(d, 1, o)
  BY DEF WrittenSoFar
<1>. HIDE DEF d, o
<1>3. 0 + 1 = 1 /\ 0 + o = o
  BY <1>1
<1>4. SubSeq(d, 0 + 1, 0 + o) \in Seq(Bytes) /\ Len(SubSeq(d, 0 + 1, 0 + o)) = o
  BY <1>1, <1>3, PartIs
<1>5. QED
  BY <1>2, <1>3, <1>4 DEF o

-----------------------------------------------------------------------------
(* The source's threads, action by action: the invariant, and the step of   *)
(* the plain device that each of them is.                                    *)

PlainStep == [Plain!Next]_<<disk[Device], calls, answers>>

Answers == [ok : BOOLEAN, bytes : Seq(Bytes)]

LEMMA AnswersMade ==
  /\ Failure \in Answers
  /\ \A b \in Seq(Bytes) : Success(b) \in Answers
BY DEF Answers, Failure, Success

LEMMA SteppedTypes ==
  /\ \A at \in {"idle", "checking", "reading"} : Step(at) \in Steps /\ Step(at).at = at
  /\ \A b \in Seq(Bytes) : [at |-> "writing", done |-> 0, block |-> b] \in Steps
<1>1. <<>> \in Seq(Bytes)
  OBVIOUS
<1>2. QED
  BY <1>1 DEF Step, Steps

LEMMA UnmovedSound ==
  ASSUME Sound, UNCHANGED <<daemon, conn, granted, asked>>, disk' \in [Devices -> Seq(Bytes)]
  PROVE  Sound'
BY DEF Sound, DaemonTypes, HistoryTypes, OthersOk

LEMMA ClientMoved ==
  ASSUME Sound, NEW k \in Connections, conn' = [conn EXCEPT ![Client] = k],
         UNCHANGED <<daemon, disk, granted, asked>>
  PROVE  Sound' /\ conn'[Client] = k
BY SoundStep DEF Others

LEMMA OtherAsking ==
  ASSUME NEW u, calls'[u] = calls[u], step'[u] = step[u], source' = source,
         disk'[Device] = disk[Device], NEW k, Asking(k, u)
  PROVE  Asking(k, u)'
<1>1. /\ RequestOf(u)' = RequestOf(u)
      /\ \A part : Moving(u, part)' = Moving(u, part)
      /\ \A r : CallReply(u, r)' = CallReply(u, r)
  BY SameRequest
<1>2. QED
  BY <1>1 DEF Asking

\* A step of one thread that leaves the connection and the device alone.
LEMMA OwnStep ==
  ASSUME SourceOk, NEW t \in Threads, lock # t, UNCHANGED <<source, lock>>,
         conn'[Client] = conn[Client], disk'[Device] = disk[Device],
         calls' \in [Threads -> Calls], step' \in [Threads -> Steps], answers' \in [Threads -> Answers],
         \A u \in Threads : u # t => calls'[u] = calls[u] /\ step'[u] = step[u],
         ThreadOk(t)'
  PROVE  SourceOk'
<1>1. SourceTypes'
  BY DEF SourceOk, SourceTypes, Answers
<1>2. ASSUME NEW u \in Threads PROVE ThreadOk(u)'
  <2>1. CASE u = t
    BY <2>1
  <2>2. CASE u # t
    BY <2>2, OtherThread DEF SourceOk, ThreadsOk
  <2>3. QED
    BY <2>1, <2>2
<1>3. ThreadsOk'
  BY <1>2 DEF ThreadsOk
<1>4. ClientOk'
  <2>. DEFINE k == conn[Client]
  <2>1. Opening(k)' = Opening(k)
    BY DEF Opening, OpenReply
  <2>2. ASSUME lock # NoThread PROVE lock \in Threads /\ step'[lock] = step[lock] /\ (Asking(k, lock) => Asking(k, lock)')
    <3>1. lock \in Threads /\ calls'[lock] = calls[lock] /\ step'[lock] = step[lock]
      BY <2>2 DEF SourceOk, SourceTypes
    <3>2. ASSUME Asking(k, lock) PROVE Asking(k, lock)'
      <4>1. PICK u \in Threads : u = lock
        BY <3>1
      <4>2. Asking(k, u)
        BY <3>2, <4>1
      <4>3. Asking(k, u)'
        BY <3>1, <4>1, <4>2, OtherAsking DEF Asking
      <4>4. QED
        BY <4>1, <4>3
    <3>3. QED
      BY <3>1, <3>2
  <2>3. QED
    BY <2>1, <2>2 DEF SourceOk, ClientOk, Ready
<1>5. QED
  BY <1>1, <1>3, <1>4 DEF SourceOk

\* A thread whose call is over.
LEMMA ReturnedIs ==
  ASSUME SourceOk, NEW t \in Threads, NEW answer \in Answers, Returns(t, answer)
  PROVE  /\ calls' \in [Threads -> Calls] /\ step' \in [Threads -> Steps] /\ answers' \in [Threads -> Answers]
         /\ \A u \in Threads : u # t => calls'[u] = calls[u] /\ step'[u] = step[u]
         /\ ThreadOk(t)'
<1>1. /\ calls' = [calls EXCEPT ![t] = NoCall] /\ step' = [step EXCEPT ![t] = Step("idle")]
      /\ answers' = [answers EXCEPT ![t] = answer]
  BY DEF Returns
<1>2. NoCall \in Calls /\ Step("idle") \in Steps /\ Step("idle").at = "idle"
  BY SteppedTypes DEF Calls
<1>3. /\ calls' \in [Threads -> Calls] /\ step' \in [Threads -> Steps] /\ answers' \in [Threads -> Answers]
      /\ \A u \in Threads : u # t => calls'[u] = calls[u] /\ step'[u] = step[u]
      /\ calls'[t] = NoCall /\ step'[t].at = "idle"
  BY <1>1, <1>2 DEF SourceOk, SourceTypes, Answers
<1>4. ThreadOk(t)'
  BY <1>3 DEF ThreadOk
<1>5. QED
  BY <1>3, <1>4

\* An answer the plain device may give: an error, or what the finished call moved.
Earned(t, answer) ==
  \/ answer = Failure
  \/ calls[t].kind = "read" /\ Len(calls[t].effect) = calls[t].len /\ answer = Success(calls[t].effect)
  \/ calls[t].kind = "write" /\ Len(calls[t].effect) = Len(calls[t].data) /\ answer = Success(<<>>)

LEMMA PlainAnswer ==
  ASSUME NEW t \in Threads, calls[t] # NoCall, disk'[Device] = disk[Device], NEW answer, Returns(t, answer),
         Earned(t, answer)
  PROVE  PlainStep
<1>1. Plain!Answer(t)
  BY DEF Plain!Answer, Plain!NoCall, NoCall, Plain!Failure, Failure, Plain!Success, Success,
         Earned, Returns
<1>2. QED
  BY <1>1 DEF PlainStep, Plain!Next

LEMMA PlainStutter ==
  ASSUME UNCHANGED <<calls, answers>>, disk'[Device] = disk[Device]
  PROVE  PlainStep
BY DEF PlainStep

\* The end of a call that changed neither the connection nor the device.
LEMMA ReturnedOwn ==
  ASSUME HInv, NEW t \in Threads, lock # t, calls[t] # NoCall, UNCHANGED <<daemon, conn, disk, source, lock, granted, asked>>,
         NEW answer \in Answers, Returns(t, answer), Earned(t, answer)
  PROVE  HInv' /\ PlainStep
<1>1. Sound'
  BY UnmovedSound DEF HInv, Sound, DaemonTypes
<1>2. /\ calls' \in [Threads -> Calls] /\ step' \in [Threads -> Steps] /\ answers' \in [Threads -> Answers]
      /\ \A u \in Threads : u # t => calls'[u] = calls[u] /\ step'[u] = step[u]
      /\ ThreadOk(t)'
  BY ReturnedIs DEF HInv
<1>3. SourceOk'
  BY <1>2, OwnStep DEF HInv
<1>4. PlainStep
  BY PlainAnswer
<1>5. QED
  BY <1>1, <1>3, <1>4 DEF HInv

\* A new call.
LEMMA CallStep ==
  ASSUME HInv, NEW t \in Threads, Call(t), UNCHANGED <<granted, asked>>
  PROVE  HInv' /\ PlainStep
<1>1. /\ Ready /\ calls[t] = NoCall /\ step' = [step EXCEPT ![t] = Step("checking")]
      /\ UNCHANGED <<daemon, conn, disk, source, lock, answers>>
  BY DEF Call
<1>2. PICK offset \in 0 .. source.size - 1, n \in 1 .. MaxLen :
        \/ calls' = [calls EXCEPT ![t] = [kind |-> "read", offset |-> offset, len |-> n, effect |-> NoEffect]]
        \/ /\ t \in Writers
           /\ calls' = [calls EXCEPT ![t] = [kind |-> "write", offset |-> offset, effect |-> NoEffect,
                                             data |-> [i \in 1 .. n |-> NewByte]]]
  BY DEF Call
<1>3. /\ source.size \in Nat /\ offset \in Nat /\ n \in Nat \ {0} /\ offset < source.size
      /\ source.size = Len(disk[Device]) /\ n \in 1 .. MaxLen
  BY <1>1, <1>2 DEF HInv, SourceOk, SourceTypes, Sources, ClientOk
<1>. DEFINE data == [i \in 1 .. n |-> NewByte]
            reading == [kind |-> "read", offset |-> offset, len |-> n, effect |-> NoEffect]
            writing == [kind |-> "write", offset |-> offset, effect |-> NoEffect, data |-> data]
<1>4. data \in [1 .. n -> Bytes] /\ data \in Seq(Bytes) /\ Len(data) = n /\ data # <<>>
  <2>1. data \in [1 .. n -> Bytes]
    BY SourceAssumption
  <2>2. data \in Seq(Bytes) /\ Len(data) = n
    BY <1>3, <2>1
  <2>3. QED
    BY <1>3, <2>1, <2>2
<1>. HIDE DEF data
<1>5. /\ reading \in Calls /\ reading.kind = "read" /\ reading.offset = offset /\ reading.effect = NoEffect
      /\ reading # NoCall
  BY <1>3 DEF Calls, NoCall, NoEffect
<1>6. /\ writing \in Calls /\ writing.kind = "write" /\ writing.offset = offset /\ writing.effect = NoEffect
      /\ writing # NoCall
  BY <1>3, <1>4 DEF Calls, NoCall, NoEffect
<1>7. PICK call \in {reading, writing} :
        /\ calls' = [calls EXCEPT ![t] = call]
        /\ call = writing => t \in Writers
  BY <1>2 DEF data
<1>8. /\ call \in Calls /\ call # NoCall /\ call.offset = offset /\ call.effect = NoEffect
      /\ call.kind = "write" => t \in Writers
  BY <1>5, <1>6, <1>7
<1>9. /\ calls' \in [Threads -> Calls] /\ step' \in [Threads -> Steps] /\ answers' \in [Threads -> Answers]
      /\ \A u \in Threads : u # t => calls'[u] = calls[u] /\ step'[u] = step[u]
      /\ calls'[t] = call /\ step'[t] = Step("checking")
  BY <1>1, <1>7, <1>8, SteppedTypes DEF HInv, SourceOk, SourceTypes, Answers
<1>10. step'[t].at = "checking"
  BY <1>9 DEF Step
<1>11. ThreadOk(t)'
  <2>. HIDE DEF reading, writing
  <2>1. Offset(t)' = offset
    BY <1>8, <1>9 DEF Offset
  <2>2. QED
    BY <1>1, <1>3, <1>8, <1>9, <1>10, <2>1 DEF ThreadOk, Fresh, Ready
<1>12. lock # t
  <2>1. step[t].at = "idle"
    BY <1>1 DEF HInv, SourceOk, ThreadsOk, ThreadOk
  <2>2. QED
    BY <2>1 DEF HInv, SourceOk, ClientOk
<1>13. SourceOk'
  BY <1>1, <1>9, <1>11, <1>12, OwnStep DEF HInv
<1>14. Sound'
  BY <1>1, UnmovedSound DEF HInv, Sound, DaemonTypes
<1>15. Plain!Call(t)
  <2>1. reading = Plain!ReadCall(offset, n)
    BY DEF Plain!ReadCall, Plain!NoEffect, NoEffect
  <2>2. writing = Plain!WriteCall(offset, data)
    BY DEF Plain!WriteCall, Plain!NoEffect, NoEffect
  <2>3. offset \in 0 .. Len(disk[Device])
    BY <1>3
  <2>. HIDE DEF reading, writing
  <2>4. QED
    BY <1>1, <1>3, <1>4, <1>7, <2>1, <2>2, <2>3 DEF Plain!Call, Plain!NoCall, NoCall
<1>16. PlainStep
  BY <1>15 DEF PlainStep, Plain!Next
<1>17. QED
  BY <1>13, <1>14, <1>16 DEF HInv

\* Nothing has been read of a call that may begin.
LEMMA NothingRead ==
  ASSUME SourceTypes, NEW t \in Threads, calls[t] # NoCall, Fresh(t), Offset(t) < source.size,
         source.size = Len(disk[Device]), disk[Device] \in Seq(Bytes), From(t) <= To(t)
  PROVE  Reads(t, <<>>)
<1>1. From(t) \in Nat /\ To(t) \in Nat /\ From(t) <= Offset(t) /\ source.size \in Nat
  BY RangeIs, CountIs DEF SourceTypes, Sources
<1>2. <<>> \in Seq(Bytes) /\ Len(<<>>) = 0 /\ Span(t) >= 0
  BY <1>1 DEF Span
<1>3. ReadSoFar(t, <<>>) = <<>>
  <2>1. ReadSoFar(t, <<>>) \in Seq(Bytes) /\ Len(ReadSoFar(t, <<>>)) = 0
    BY <1>2, ReadSoFarIs, OwnIs
  <2>2. QED
    BY <2>1
<1>4. Slice(disk[Device], From(t), From(t) + 0) = <<>>
  <2>. DEFINE f == From(t)
              g == f + 0
              z == Slice(disk[Device], f, g)
  <2>1. f \in Nat /\ g \in Nat /\ g = f /\ f <= g /\ g <= Len(disk[Device])
    BY <1>1, CountIs
  <2>. HIDE DEF f, g
  <2>2. z \in Seq(Bytes) /\ Len(z) = g - f
    BY <2>1, SliceSize
  <2>. HIDE DEF z
  <2>3. z = <<>>
    BY <2>1, <2>2
  <2>4. QED
    BY <2>3 DEF z, f, g
<1>5. From(t) + Len(<<>>) <= source.size
  BY <1>1, <1>2, CountIs
<1>6. QED
  BY <1>2, <1>3, <1>4, <1>5 DEF Reads, Fresh, NoEffect

LEMMA CheckStep ==
  ASSUME HInv, NEW t \in Threads, Check(t), UNCHANGED <<granted, asked>>
  PROVE  HInv' /\ PlainStep
<1>1. step[t].at = "checking" /\ UNCHANGED <<daemon, conn, disk, source, lock, left>>
  BY DEF Check
<1>2. calls[t] # NoCall /\ Fresh(t) /\ ThreadOk(t)
  BY <1>1 DEF HInv, SourceOk, ThreadsOk, ThreadOk
<1>3. lock # t
  BY <1>1 DEF HInv, SourceOk, ClientOk
<1>4. CASE Returns(t, Failure)
  BY <1>1, <1>2, <1>3, <1>4, AnswersMade, ReturnedOwn DEF Earned
<1>5. CASE ~ ((calls[t].kind = "write" /\ ~ source.writable) \/ Offset(t) + Count(t) > source.size)
  <2>1. step' = [step EXCEPT ![t] = Step("reading")] /\ UNCHANGED <<calls, answers>>
    BY <1>1, <1>5 DEF Check
  <2>2. Step("reading") \in Steps /\ Step("reading").at = "reading" /\ Step("reading").block = <<>>
    BY SteppedTypes DEF Step
  <2>3. /\ calls' \in [Threads -> Calls] /\ step' \in [Threads -> Steps] /\ answers' \in [Threads -> Answers]
        /\ \A u \in Threads : u # t => calls'[u] = calls[u] /\ step'[u] = step[u]
        /\ step'[t].at = "reading" /\ step'[t].block = <<>>
    BY <2>1, <2>2 DEF HInv, SourceOk, SourceTypes, Answers
  <2>4. Offset(t)' = Offset(t) /\ Count(t)' = Count(t) /\ Offset(t) + Count(t) <= source.size
    <3>1. Offset(t) \in Nat /\ Count(t) \in Nat /\ source.size \in Nat
      BY <1>2, CountIs DEF HInv, SourceOk, SourceTypes, Sources
    <3>2. QED
      BY <1>1, <1>5, <2>1, <3>1 DEF Offset, Count
  <2>5. Reads(t, <<>>)'
    <3>1. /\ Ready /\ Offset(t) < source.size /\ source.size = Len(disk[Device]) /\ disk[Device] \in Seq(Bytes)
      BY <1>2 DEF HInv, SourceOk, ClientOk, Sound, DaemonTypes, ThreadOk
    <3>2. From(t) <= To(t)
      <4>1. /\ From(t) \in Nat /\ HeadOf(t) \in Nat /\ From(t) + HeadOf(t) = Offset(t) /\ To(t) \in Nat
            /\ Offset(t) + Count(t) <= To(t) /\ Count(t) \in Nat
        BY <1>2, <2>4, RangeIs, CountIs DEF HInv, SourceOk
      <4>2. QED
        BY <4>1
    <3>3. Reads(t, <<>>)
      BY <1>2, <3>1, <3>2, NothingRead DEF HInv, SourceOk
    <3>4. QED
      BY <1>1, <2>1, <3>3, SameReads
  <2>6. ThreadOk(t)'
    BY <1>1, <1>2, <2>1, <2>3, <2>4, <2>5 DEF ThreadOk, Ready
  <2>7. SourceOk'
    BY <1>1, <1>3, <2>3, <2>6, OwnStep DEF HInv
  <2>8. Sound'
    BY <1>1, UnmovedSound DEF HInv, Sound, DaemonTypes
  <2>9. PlainStep
    BY <1>1, <2>1, PlainStutter
  <2>10. QED
    BY <2>7, <2>8, <2>9 DEF HInv
<1>6. QED
  BY <1>4, <1>5 DEF Check

\* What is known of a call past its checks.
LEMMA CheckedIs ==
  ASSUME HInv, NEW t \in Threads, step[t].at \in {"reading", "writing"}
  PROVE  /\ calls[t] # NoCall /\ ThreadOk(t) /\ Ready /\ Offset(t) < source.size
         /\ source.size = Len(disk[Device]) /\ source.size \in Nat /\ disk[Device] \in Seq(Bytes)
         /\ From(t) \in Nat /\ HeadOf(t) \in Nat /\ From(t) + HeadOf(t) = Offset(t)
         /\ Span(t) \in Nat \ {0} /\ From(t) + Span(t) = To(t) /\ HeadOf(t) + Count(t) <= Span(t)
         /\ Count(t) \in Nat \ {0} /\ Offset(t) + Count(t) <= source.size
<1>1. calls[t] # NoCall /\ ThreadOk(t)
  BY DEF HInv, SourceOk, ThreadsOk, ThreadOk
<1>2. Ready /\ Offset(t) < source.size /\ Offset(t) + Count(t) <= source.size
  BY <1>1 DEF ThreadOk
<1>3. source.size = Len(disk[Device]) /\ source.size \in Nat /\ disk[Device] \in Seq(Bytes)
  BY <1>2 DEF HInv, SourceOk, ClientOk, SourceTypes, Sources, Sound, DaemonTypes
<1>4. /\ From(t) \in Nat /\ HeadOf(t) \in Nat /\ From(t) + HeadOf(t) = Offset(t)
      /\ To(t) \in Nat /\ Offset(t) + Count(t) <= To(t)
  BY <1>1, <1>2, RangeIs DEF HInv, SourceOk
<1>5. Offset(t) \in Nat /\ Count(t) \in Nat \ {0}
  BY <1>1, CountIs DEF HInv, SourceOk
<1>6. Span(t) \in Nat \ {0} /\ From(t) + Span(t) = To(t) /\ HeadOf(t) + Count(t) <= Span(t)
  <2>1. Span(t) = To(t) - From(t)
    BY DEF Span
  <2>. DEFINE f == From(t)
              e == To(t)
              h == HeadOf(t)
              o == Offset(t)
              c == Count(t)
  <2>2. f \in Nat /\ h \in Nat /\ f + h = o /\ e \in Nat /\ o + c <= e /\ o \in Nat /\ c \in Nat \ {0}
    BY <1>4, <1>5
  <2>3. Span(t) = e - f
    BY <2>1
  <2>. HIDE DEF f, e, h, o, c
  <2>4. e - f \in Nat \ {0} /\ f + (e - f) = e /\ h + c <= e - f
    BY ONLY <2>2
  <2>5. QED
    BY <2>3, <2>4 DEF f, e, h, c
<1>7. QED
  BY <1>1, <1>2, <1>3, <1>4, <1>5, <1>6

\* The aligned bytes are here: a read has its own, all of them.
LEMMA ReadDone ==
  ASSUME HInv, NEW t \in Threads, step[t].at = "reading", calls[t].kind = "read",
         NEW a, Reads(t, a), Len(a) = Span(t), Continues(t, a)
  PROVE  \E answer \in Answers : Returns(t, answer) /\ Earned(t, answer)
<1>1. /\ calls[t] # NoCall /\ Span(t) \in Nat /\ HeadOf(t) + Count(t) <= Span(t) /\ SourceTypes
  BY CheckedIs DEF HInv, SourceOk
<1>2. a \in Seq(Bytes) /\ calls[t].effect = ReadSoFar(t, a)
  BY DEF Reads
<1>3. Own(t, Len(a)) = Count(t) /\ Count(t) = calls[t].len
  BY <1>1, OwnIs, CountIs
<1>4. calls[t].effect \in Seq(Bytes) /\ Len(calls[t].effect) = calls[t].len
  BY <1>1, <1>2, <1>3, ReadSoFarIs
<1>5. Inside(a, HeadOf(t), Count(t)) = calls[t].effect
  BY <1>2, <1>3 DEF ReadSoFar
<1>6. Returns(t, Success(calls[t].effect))
  BY <1>5 DEF Continues
<1>7. Success(calls[t].effect) \in Answers /\ Earned(t, Success(calls[t].effect))
  BY <1>4, AnswersMade DEF Earned
<1>8. QED
  BY <1>6, <1>7

\* A write goes on to its second half.
LEMMA WriteContinues ==
  ASSUME HInv, NEW t \in Threads, step[t].at = "reading", calls[t].kind = "write",
         NEW a, Reads(t, a), Len(a) = Span(t), Continues(t, a), source' = source, disk' = disk
  PROVE  /\ UNCHANGED <<calls, answers>> /\ step' \in [Threads -> Steps]
         /\ \A u \in Threads : u # t => step'[u] = step[u]
         /\ ThreadOk(t)'
<1>. DEFINE head == HeadOf(t)
            data == calls[t].data
            block == Patched(a, head, data)
            s == disk[Device]
            from == From(t)
            n == Span(t)
<1>1. /\ calls[t] # NoCall /\ ThreadOk(t) /\ source.size = Len(s) /\ s \in Seq(Bytes)
      /\ from \in Nat /\ To(t) = from + n /\ head \in Nat /\ n \in Nat
      /\ Offset(t) < source.size /\ Offset(t) + Count(t) <= source.size /\ SourceTypes
  BY CheckedIs DEF HInv, SourceOk
<1>2. /\ step' = [step EXCEPT ![t] = [at |-> "writing", done |-> 0, block |-> block]]
      /\ UNCHANGED <<calls, answers>>
  BY DEF Continues
<1>3. /\ a \in Seq(Bytes) /\ Len(a) = n /\ from + n <= Len(s) /\ Fresh(t) /\ a = Slice(s, from, from + n)
  BY <1>1 DEF Reads
<1>4. data \in Seq(Bytes)
  BY <1>1, CountIs
<1>a. Writes(t, 0)' <=> /\ 0 \in 0 .. Len(step'[t].block) /\ calls'[t].effect = WrittenSoFar(t, 0)'
                        /\ \A i \in 1 .. Len(step'[t].block) :
                             step'[t].block[i] = IF i > HeadOf(t)' /\ i <= HeadOf(t)' + Len(calls'[t].data)
                                THEN calls'[t].data[i - HeadOf(t)'] ELSE disk'[Device][From(t)' + i]
  BY DEF Writes
<1>. HIDE DEF head, data, s, from, n
<1>5. /\ block \in Seq(Bytes) /\ Len(block) = n
      /\ \A i \in 1 .. n : block[i] = IF i > head /\ i <= head + Len(data) THEN data[i - head] ELSE a[i]
  BY <1>1, <1>3, <1>4, PatchedIs
<1>6. \A i \in 1 .. n : a[i] = s[from + i]
  <2>. DEFINE to == from + n
  <2>1. to - from = n /\ from <= to /\ to \in Nat /\ to <= Len(s) /\ a = Slice(s, from, to)
    BY <1>1, <1>3
  <2>. HIDE DEF to
  <2>2. \A i \in 1 .. to - from : Slice(s, from, to)[i] = s[from + i]
    BY <1>1, <2>1, SliceAt
  <2>3. QED
    BY <2>1, <2>2
<1>. HIDE DEF block
<1>7. \A i \in 1 .. n : block[i] = IF i > head /\ i <= head + Len(data) THEN data[i - head] ELSE s[from + i]
  BY <1>5, <1>6
<1>8. /\ step' \in [Threads -> Steps] /\ \A u \in Threads : u # t => step'[u] = step[u]
      /\ step'[t] = [at |-> "writing", done |-> 0, block |-> block]
  BY <1>2, <1>5, SteppedTypes DEF HInv, SourceOk, SourceTypes
<1>9. step'[t].at = "writing" /\ step'[t].block = block /\ step'[t].done = 0
  BY <1>8
<1>10. WrittenSoFar(t, 0) = calls[t].effect
  <2>1. WrittenSoFar(t, 0) \in Seq(Bytes) /\ Len(WrittenSoFar(t, 0)) = 0
    BY <1>1, WrittenSoFarIs, OwnIs
  <2>2. QED
    BY <1>3, <2>1 DEF Fresh, NoEffect
<1>11. /\ Offset(t)' = Offset(t) /\ Count(t)' = Count(t) /\ From(t)' = From(t) /\ To(t)' = To(t)
       /\ HeadOf(t)' = HeadOf(t) /\ Span(t)' = Span(t) /\ WrittenSoFar(t, 0)' = WrittenSoFar(t, 0)
       /\ calls'[t] = calls[t]
  BY <1>2, SameCall
<1>12. Writes(t, 0)'
  BY <1>5, <1>7, <1>9, <1>10, <1>11, <1>a DEF head, data, s, from
<1>13. ThreadOk(t)'
  BY <1>1, <1>2, <1>3, <1>5, <1>9, <1>11, <1>12 DEF ThreadOk, Ready, n
<1>14. QED
  BY <1>2, <1>8, <1>13

\* The calls of the others and the fields of this one.
TakesEffect(t, effect) ==
  /\ calls' \in [Threads -> Calls] /\ \A u \in Threads : u # t => calls'[u] = calls[u]
  /\ calls'[t] # NoCall /\ calls'[t].kind = calls[t].kind /\ calls'[t].effect = effect
  /\ Offset(t)' = Offset(t) /\ Count(t)' = Count(t) /\ From(t)' = From(t) /\ To(t)' = To(t)
  /\ HeadOf(t)' = HeadOf(t) /\ Span(t)' = Span(t)
  /\ \A a : ReadSoFar(t, a)' = ReadSoFar(t, a)
  /\ calls[t].kind = "write" => /\ calls'[t].data = calls[t].data
                                /\ \A n : WrittenSoFar(t, n)' = WrittenSoFar(t, n)

LEMMA EffectIs ==
  ASSUME SourceTypes, NEW t \in Threads, calls[t] # NoCall, NEW effect \in Seq(Bytes),
         calls' = [calls EXCEPT ![t].effect = effect], source' = source
  PROVE  TakesEffect(t, effect)
<1>. DEFINE call == [calls[t] EXCEPT !.effect = effect]
<1>1. calls' = [calls EXCEPT ![t] = call]
  BY DEF SourceTypes
<1>2. /\ call \in Calls /\ call # NoCall /\ call.kind = calls[t].kind /\ call.offset = calls[t].offset
      /\ call.effect = effect
      /\ (calls[t].kind = "read" => call.len = calls[t].len)
      /\ (calls[t].kind = "write" => call.data = calls[t].data)
  <2>1. CASE calls[t].kind = "read"
    <3>1. calls[t] \in [kind : {"read"}, offset : Nat, len : Nat \ {0}, effect : Seq(Bytes)]
      BY <2>1, CallKinds
    <3>2. call \in [kind : {"read"}, offset : Nat, len : Nat \ {0}, effect : Seq(Bytes)]
      BY <2>1, <3>1
    <3>3. call.kind = calls[t].kind /\ call.offset = calls[t].offset /\ call.effect = effect /\ call.len = calls[t].len
      BY <3>1
    <3>. HIDE DEF call
    <3>4. call # NoCall
      BY <2>1, <3>2 DEF NoCall
    <3>5. QED
      BY <2>1, <3>2, <3>3, <3>4 DEF Calls
  <2>2. CASE calls[t].kind = "write"
    <3>1. calls[t] \in [kind : {"write"}, offset : Nat, data : Seq(Bytes) \ {<<>>}, effect : Seq(Bytes)]
      BY <2>2, CallKinds
    <3>2. call \in [kind : {"write"}, offset : Nat, data : Seq(Bytes) \ {<<>>}, effect : Seq(Bytes)]
      BY <2>2, <3>1
    <3>3. call.kind = calls[t].kind /\ call.offset = calls[t].offset /\ call.effect = effect /\ call.data = calls[t].data
      BY <3>1
    <3>. HIDE DEF call
    <3>4. call # NoCall
      BY <2>2, <3>2 DEF NoCall
    <3>5. QED
      BY <2>2, <3>2, <3>3, <3>4 DEF Calls
  <2>3. QED
    BY <2>1, <2>2, CallKinds
<1>. HIDE DEF call
<1>3. /\ calls' \in [Threads -> Calls] /\ calls'[t] = call
      /\ \A u \in Threads : u # t => calls'[u] = calls[u]
  BY <1>1, <1>2 DEF SourceTypes
<1>4. calls[t].kind \in {"read", "write"}
  BY CallKinds
<1>5. Offset(t)' = Offset(t) /\ Count(t)' = Count(t)
  BY <1>2, <1>3, <1>4 DEF Offset, Count
<1>6. From(t)' = From(t) /\ HeadOf(t)' = HeadOf(t) /\ To(t)' = To(t)
  BY <1>2, <1>3, <1>5 DEF From, HeadOf, To
<1>7. Span(t)' = Span(t)
  BY <1>6 DEF Span
<1>8. \A n : Own(t, n)' = Own(t, n)
  BY <1>5, <1>6 DEF Own
<1>9. \A a : ReadSoFar(t, a)' = ReadSoFar(t, a)
  BY <1>6, <1>8 DEF ReadSoFar
<1>10. calls[t].kind = "write" => \A n : WrittenSoFar(t, n)' = WrittenSoFar(t, n)
  BY <1>2, <1>3, <1>8 DEF WrittenSoFar
<1>11. QED
  BY <1>2, <1>3, <1>5, <1>6, <1>7, <1>9, <1>10 DEF TakesEffect

\* An effect that adds nothing.
LEMMA NoMoreEffect ==
  ASSUME SourceTypes, NEW t \in Threads, calls[t] # NoCall,
         calls' = [calls EXCEPT ![t].effect = calls[t].effect]
  PROVE  calls' = calls
<1>. DEFINE call == [calls[t] EXCEPT !.effect = calls[t].effect]
<1>1. calls' = [calls EXCEPT ![t] = call]
  BY DEF SourceTypes
<1>2. call = calls[t]
  <2>1. CASE calls[t].kind = "read"
    <3>1. calls[t] \in [kind : {"read"}, offset : Nat, len : Nat \ {0}, effect : Seq(Bytes)]
      BY <2>1, CallKinds
    <3>2. QED
      BY <3>1
  <2>2. CASE calls[t].kind = "write"
    <3>1. calls[t] \in [kind : {"write"}, offset : Nat, data : Seq(Bytes) \ {<<>>}, effect : Seq(Bytes)]
      BY <2>2, CallKinds
    <3>2. QED
      BY <3>1
  <2>3. QED
    BY <2>1, <2>2, CallKinds
<1>. HIDE DEF call
<1>3. QED
  BY <1>1, <1>2 DEF SourceTypes

\* How many of the caller's bytes n more aligned ones bring.
LEMMA OwnMore ==
  ASSUME SourceTypes, NEW t \in Threads, calls[t] # NoCall, NEW m \in Nat, NEW n \in Nat
  PROVE  /\ Own(t, m) \in 0 .. Count(t) /\ Own(t, m + n) \in Own(t, m) .. Count(t)
         /\ Own(t, m) > 0 => HeadOf(t) + Own(t, m) <= m
         /\ Own(t, m) < Count(t) => m <= HeadOf(t) + Own(t, m)
         /\ Own(t, m + n) > 0 => HeadOf(t) + Own(t, m + n) <= m + n
         /\ Own(t, m + n) < Count(t) => m + n <= HeadOf(t) + Own(t, m + n)
<1>. DEFINE h == HeadOf(t)
            c == Count(t)
            q == m + n
<1>1. h \in Nat /\ c \in Nat /\ q \in Nat
  BY RangeIs, CountIs
<1>2. \A i \in Nat : Own(t, i) = Upto(i, h, c)
  BY DEF Own, Upto
<1>. HIDE DEF h, c
<1>3. Upto(q, h, c) \in Upto(m, h, c) .. c
  BY <1>1, UptoMore
<1>. HIDE DEF q
<1>4. /\ Upto(m, h, c) \in 0 .. c
      /\ Upto(m, h, c) > 0 => h + Upto(m, h, c) <= m
      /\ Upto(m, h, c) < c => m <= h + Upto(m, h, c)
  BY <1>1, UptoIs
<1>5. /\ Upto(q, h, c) > 0 => h + Upto(q, h, c) <= q
      /\ Upto(q, h, c) < c => q <= h + Upto(q, h, c)
  BY <1>1, UptoIs
<1>6. QED
  BY <1>1, <1>2, <1>3, <1>4, <1>5 DEF h, c, q

\* More of the aligned bytes are read, by the thread or by the daemon for it.
LEMMA TakeMore ==
  ASSUME HInv, NEW t \in Threads, step[t].at = "reading", NEW a, Reads(t, a), NEW n \in Nat \ {0},
         NEW at, at = From(t) + Len(a), at + n <= Len(disk[Device]), Len(a) + n <= Span(t),
         NEW b, b = a \o Slice(disk[Device], at, at + n),
         calls' = IF calls[t].kind = "write" THEN calls ELSE [calls EXCEPT ![t].effect = ReadSoFar(t, b)],
         source' = source, answers' = answers, disk' = disk
  PROVE  PlainStep /\ Reads(t, b)' /\ TakesEffect(t, calls'[t].effect)
<1>. DEFINE s == disk[Device]
            from == From(t)
            head == HeadOf(t)
            cnt == Count(t)
            l == Len(a)
            o == Own(t, l)
            p == Own(t, l + n)
<1>1. /\ calls[t] # NoCall /\ ThreadOk(t) /\ source.size = Len(s) /\ s \in Seq(Bytes)
      /\ from \in Nat /\ head \in Nat /\ from + head = Offset(t) /\ cnt \in Nat \ {0} /\ SourceTypes
      /\ Offset(t) + Count(t) <= Len(s)
  BY CheckedIs DEF HInv, SourceOk
<1>2. a \in Seq(Bytes) /\ l \in Nat /\ at = from + l /\ at \in Nat
  BY <1>1 DEF Reads
<1>3. /\ b \in Seq(Bytes) /\ Len(b) = l + n
      /\ \A i \in 1 .. l + n : b[i] = IF i <= l THEN a[i] ELSE s[at + (i - l)]
  <2>1. /\ b = a \o Slice(s, at, at + n) /\ at + n <= Len(s)
        /\ a \in Seq(Bytes) /\ s \in Seq(Bytes) /\ at \in Nat /\ n \in Nat
    BY <1>1, <1>2
  <2>. HIDE DEF s
  <2>2. Joined(b, a, s, at, n)
    BY ONLY <2>1, JoinedAre, Zenon
  <2>3. QED
    BY <2>2 DEF Joined
<1>4. from + Len(b) <= source.size /\ Len(b) <= Span(t)
  BY <1>1, <1>2, <1>3
<1>5. CASE calls[t].kind = "write"
  <2>1. UNCHANGED <<calls, answers>> /\ disk'[Device] = disk[Device]
    BY <1>5
  <2>2. Fresh(t) /\ a = Slice(s, from, from + l)
    BY <1>5 DEF Reads
  <2>3. b = Slice(s, from, from + (l + n))
    <3>1. /\ from + l + n <= Len(s) /\ b = Slice(s, from, from + l) \o Slice(s, from + l, from + l + n)
          /\ s \in Seq(Bytes) /\ from \in Nat /\ l \in Nat /\ n \in Nat
      BY <1>1, <1>2, <2>2
    <3>. HIDE DEF s, from, l
    <3>2. Slice(s, from, from + l) \o Slice(s, from + l, from + l + n) = Slice(s, from, from + (l + n))
      BY ONLY <3>1, SlicesMeet, Zenon
    <3>3. QED
      BY <3>1, <3>2
  <2>4. b = Slice(s, from, from + Len(b))
    BY <1>3, <2>3
  <2>5. Reads(t, b)
    BY <1>3, <1>4, <1>5, <2>2, <2>4 DEF Reads
  <2>6. Reads(t, b)'
    BY <2>1, <2>5, SameReads
  <2>7. TakesEffect(t, calls'[t].effect)
    BY <1>1, <2>1, SameCall DEF TakesEffect, SourceTypes
  <2>8. QED
    BY <2>1, <2>6, <2>7, PlainStutter
<1>6. CASE calls[t].kind = "read"
  <2>. DEFINE effect == ReadSoFar(t, b)
  <2>1. calls' = [calls EXCEPT ![t].effect = effect] /\ effect \in Seq(Bytes)
    BY <1>1, <1>3, <1>6, ReadSoFarIs
  <2>2. TakesEffect(t, effect)
    BY <1>1, <2>1, EffectIs
  <2>3. Reads(t, b)'
    BY <1>3, <1>4, <1>6, <2>2 DEF Reads, TakesEffect
  <2>4. TakesEffect(t, calls'[t].effect)
    BY <2>2 DEF TakesEffect
  <2>5. /\ o \in 0 .. cnt /\ p \in o .. cnt
        /\ o > 0 => head + o <= l
        /\ o < cnt => l <= head + o
        /\ p > 0 => head + p <= l + n
    <3>. HIDE DEF l
    <3>1. QED
      BY <1>1, <1>2, OwnMore
  <2>6. /\ calls[t].effect = SubSeq(a, head + 1, head + o) /\ effect = SubSeq(b, head + 1, head + p)
    BY <1>3, <1>6 DEF Reads, ReadSoFar, Inside, Slice
  <2>. DEFINE q == from + head + o
              more == SubSeq(s, q + 1, q + (p - o))
  <2>7. /\ calls[t].effect \in Seq(Bytes) /\ Len(calls[t].effect) = o
        /\ effect = calls[t].effect \o more
    <3>1. from + l + n <= Len(s) /\ l = Len(a) /\ at = from + l
      BY <1>2
    <3>. HIDE DEF s, from, head, cnt, l, o, p, effect
    <3>2. /\ SubSeq(a, head + 1, head + o) \in Seq(Bytes) /\ Len(SubSeq(a, head + 1, head + o)) = o
          /\ SubSeq(b, head + 1, head + p)
               = SubSeq(a, head + 1, head + o)
                   \o SubSeq(s, (from + head + o) + 1, (from + head + o) + (p - o))
      <4>1. /\ Joined(b, a, s, from + l, n)
            /\ a \in Seq(Bytes) /\ s \in Seq(Bytes) /\ from \in Nat /\ head \in Nat /\ cnt \in Nat /\ l \in Nat
            /\ l = Len(a) /\ n \in Nat /\ from + l + n <= Len(s)
            /\ o \in 0 .. cnt /\ p \in o .. cnt
            /\ (o > 0 => head + o <= l) /\ (p > 0 => head + p <= l + n) /\ (o < cnt => l <= head + o)
        BY <1>1, <1>2, <1>3, <2>5, <3>1 DEF Joined
      <4>2. Follow(a, b, s, from, head, o, p)
        BY ONLY <4>1, TakenMore, ZenonT(60)
      <4>3. QED
        BY <4>2 DEF Follow
    <3>3. QED
      BY <2>6, <3>2
  <2>8. CASE p = o
    <3>1. effect = calls[t].effect
      <4>0. o \in Int /\ q \in Int
        <5>. HIDE DEF o, from, head, cnt
        <5>1. o \in Int /\ from \in Nat /\ head \in Nat
          BY <1>1, <2>5
        <5>2. QED
          BY <5>1
      <4>1. q \in Int /\ q + (p - o) = q /\ q < q + 1
        <5>. HIDE DEF o, p, q
        <5>1. QED
          BY <2>8, <4>0
      <4>2. more = <<>>
        <5>. HIDE DEF s, q, p, o
        <5>1. QED
          BY <4>1
      <4>. HIDE DEF more, effect
      <4>3. calls[t].effect \o <<>> = calls[t].effect
        <5>. DEFINE e == calls[t].effect
        <5>1. e \in Seq(Bytes)
          BY <2>7
        <5>. HIDE DEF e
        <5>2. e \o <<>> = e
          BY <5>1
        <5>3. QED
          BY <5>2 DEF e
      <4>4. QED
        BY <2>7, <4>2, <4>3
    <3>2. calls' = calls
      BY <1>1, <2>1, <3>1, NoMoreEffect
    <3>3. QED
      BY <2>3, <2>4, <3>2, PlainStutter
  <2>9. CASE p # o
    <3>1. p - o \in 1 .. calls[t].len - Len(calls[t].effect)
      <4>1. cnt = calls[t].len /\ cnt \in Nat
        BY <1>1, <1>6, CountIs
      <4>. HIDE DEF o, p, cnt
      <4>2. p - o \in 1 .. cnt - o
        BY <2>5, <2>9, <4>1
      <4>3. QED
        BY <2>7, <4>1, <4>2
    <3>2. calls[t].offset + Len(calls[t].effect) = q /\ q + (p - o) <= Len(s)
      <4>1. calls[t].offset = from + head
        BY <1>1 DEF Offset
      <4>2. from + head + cnt <= Len(s)
        BY <1>1
      <4>. HIDE DEF s, from, head, cnt, l, o, p
      <4>3. QED
        BY <1>1, <2>5, <2>7, <4>1, <4>2
    <3>3. Plain!Take(t)
      <4>. DEFINE k == p - o
      <4>1. /\ k \in 1 .. calls[t].len - Len(calls[t].effect)
            /\ calls[t].offset + Len(calls[t].effect) + k <= Len(disk[Device])
            /\ calls' = [calls EXCEPT ![t].effect =
                           @ \o SubSeq(disk[Device], calls[t].offset + Len(calls[t].effect) + 1,
                                       calls[t].offset + Len(calls[t].effect) + k)]
        <5>1. calls' = [calls EXCEPT ![t].effect = calls[t].effect \o more]
          BY <2>1, <2>7
        <5>. HIDE DEF more
        <5>2. calls' = [calls EXCEPT ![t].effect = @ \o more]
          BY <1>1, <5>1 DEF SourceTypes
        <5>3. more = SubSeq(disk[Device], calls[t].offset + Len(calls[t].effect) + 1,
                            calls[t].offset + Len(calls[t].effect) + k)
          BY <3>2 DEF more
        <5>4. QED
          BY <3>1, <3>2, <5>2, <5>3
      <4>. HIDE DEF k
      <4>2. QED
        BY <1>6, <4>1 DEF Plain!Take
    <3>4. PlainStep
      BY <3>3 DEF PlainStep, Plain!Next
    <3>5. QED
      BY <2>3, <2>4, <3>4
  <2>10. QED
    BY <2>8, <2>9
<1>7. QED
  BY <1>1, <1>5, <1>6, CallKinds

\* More of the aligned bytes of a write arrive.
LEMMA PutMore ==
  ASSUME HInv, NEW t \in Threads, step[t].at = "writing", NEW m, Writes(t, m), NEW n \in Nat \ {0},
         NEW block, block = step[t].block, m + n <= Len(block), NEW at, at = From(t) + m,
         disk' = [disk EXCEPT ![Device] = Patched(disk[Device], at, Slice(block, m, m + n))],
         calls' = [calls EXCEPT ![t].effect = WrittenSoFar(t, m + n)],
         step'[t].block = step[t].block, source' = source, answers' = answers
  PROVE  /\ PlainStep /\ Writes(t, m + n)' /\ TakesEffect(t, WrittenSoFar(t, m + n))
         /\ disk' \in [Devices -> Seq(Bytes)] /\ Len(disk'[Device]) = Len(disk[Device])
<1>. DEFINE s == disk[Device]
            u == Patched(s, at, Slice(block, m, m + n))
            from == From(t)
            head == HeadOf(t)
            data == calls[t].data
            off == from + head
            q == m + n
            o == Own(t, m)
            p == Own(t, q)
            effect == WrittenSoFar(t, q)
<1>1. /\ calls[t] # NoCall /\ ThreadOk(t) /\ source.size = Len(s) /\ s \in Seq(Bytes)
      /\ from \in Nat /\ head \in Nat /\ off = Offset(t) /\ from + Span(t) = To(t) /\ SourceTypes
      /\ disk \in [Devices -> Seq(Bytes)]
  BY CheckedIs DEF HInv, SourceOk, Sound, DaemonTypes
<1>2. /\ calls[t].kind = "write" /\ To(t) <= Len(s) /\ Len(block) = Span(t) /\ block \in Seq(Bytes)
  BY <1>1 DEF ThreadOk, SourceTypes, Steps
<1>3. /\ m \in Nat /\ q \in Nat /\ q <= Len(block) /\ from + Len(block) <= Len(s)
      /\ calls[t].effect = WrittenSoFar(t, m)
      /\ Around(block, data, head, s, from)
  BY <1>1, <1>2 DEF Writes, Around
<1>4. data \in Seq(Bytes) /\ Count(t) = Len(data)
  BY <1>1, <1>2, CountIs
<1>5. /\ o \in 0 .. Len(data) /\ p \in o .. Len(data)
      /\ (o > 0 => head + o <= m) /\ (o < Len(data) => m <= head + o)
      /\ (p > 0 => head + p <= m + n) /\ (p < Len(data) => m + n <= head + p)
  <2>. HIDE DEF data, head
  <2>1. m \in Nat /\ n \in Nat
    BY <1>3
  <2>2. QED
    BY <1>1, <1>4, <2>1, OwnMore DEF head
<1>6. effect \in Seq(Bytes) /\ calls[t].effect \in Seq(Bytes) /\ Len(calls[t].effect) = o
  BY <1>1, <1>2, <1>3, WrittenSoFarIs
<1>7. calls' = [calls EXCEPT ![t].effect = effect] /\ disk'[Device] = u /\ disk' = [disk EXCEPT ![Device] = u]
  BY <1>1, SourceAssumption
<1>8. TakesEffect(t, effect)
  <2>. HIDE DEF effect
  <2>1. QED
    BY <1>1, <1>6, <1>7, EffectIs
<1>9. Overlaid(u, s, data, off, o, p) /\ Around(block, data, head, u, from)
  <2>1. /\ s \in Seq(Bytes) /\ block \in Seq(Bytes) /\ data \in Seq(Bytes)
        /\ from \in Nat /\ head \in Nat /\ m \in Nat /\ n \in Nat /\ m + n <= Len(block)
        /\ from + Len(block) <= Len(s) /\ Around(block, data, head, s, from)
        /\ o \in 0 .. Len(data) /\ p \in o .. Len(data)
        /\ (o > 0 => head + o <= m) /\ (o < Len(data) => m <= head + o)
        /\ (p > 0 => head + p <= m + n) /\ (p < Len(data) => m + n <= head + p)
        /\ at = from + m /\ off = from + head /\ u = Patched(s, at, Slice(block, m, m + n))
    BY <1>1, <1>2, <1>3, <1>4, <1>5
  <2>. HIDE DEF s, u, from, head, data, off, o, p
  <2>2. QED
    BY ONLY <2>1, WrittenMore, ZenonT(60)
<1>10. u \in Seq(Bytes) /\ Len(u) = Len(s)
       /\ u = [i \in 1 .. Len(s) |-> IF i > off + o /\ i <= off + p THEN data[i - off] ELSE s[i]]
  BY <1>9 DEF Overlaid
<1>11. disk' \in [Devices -> Seq(Bytes)] /\ Len(disk'[Device]) = Len(s)
  BY <1>1, <1>7, <1>10
<1>12. Writes(t, q)'
  <2>1. /\ calls'[t].effect = WrittenSoFar(t, q)' /\ HeadOf(t)' = head /\ From(t)' = from /\ calls'[t].data = data
    BY <1>2, <1>8 DEF TakesEffect
  <2>2. q \in 0 .. Len(step'[t].block) /\ step'[t].block = block
    BY <1>3
  <2>3. \A i \in 1 .. Len(block) : block[i] = IF i > head /\ i <= head + Len(data) THEN data[i - head] ELSE u[from + i]
    BY <1>9 DEF Around
  <2>. HIDE DEF q, u, head, from, data
  <2>4. QED
    BY <1>7, <2>1, <2>2, <2>3 DEF Writes
<1>13. CASE p = o
  <2>1. effect = calls[t].effect
    BY <1>3, <1>13 DEF WrittenSoFar
  <2>2. calls' = calls
    BY <1>1, <1>7, <2>1, NoMoreEffect
  <2>3. u = s
    <3>. HIDE DEF u, s, o, p, off, data
    <3>1. \A i \in 1 .. Len(s) : u[i] = s[i]
      <4>1. o \in Int /\ off \in Int /\ \A i \in 1 .. Len(s) : ~ (i > off + o /\ i <= off + o)
        BY <1>1, <1>5 DEF off
      <4>2. QED
        BY <1>10, <1>13, <4>1
    <3>2. u = [i \in 1 .. Len(s) |-> u[i]] /\ s = [i \in 1 .. Len(s) |-> s[i]]
      BY <1>1, <1>10
    <3>3. QED
      BY <3>1, <3>2, Zenon
  <2>4. PlainStep
    BY <1>7, <2>2, <2>3, PlainStutter
  <2>5. QED
    BY <1>8, <1>11, <1>12, <2>4
<1>14. CASE p # o
  <2>1. p \in o + 1 .. Len(data) /\ off + p <= Len(s)
    <3>1. p \in Int /\ o \in Int /\ Len(data) \in Nat /\ p > o /\ p <= Len(data)
      BY <1>4, <1>5, <1>14
    <3>2. off + Len(data) <= Len(s)
      BY <1>1, <1>4 DEF ThreadOk
    <3>. HIDE DEF p, o, off, s, data
    <3>3. off \in Int
      BY <1>1 DEF off
    <3>4. QED
      BY <1>1, <3>1, <3>2, <3>3
  <2>2. /\ disk'[Device] = [i \in 1 .. Len(disk[Device]) |->
             IF i > calls[t].offset + Len(calls[t].effect) /\ i <= calls[t].offset + p
               THEN calls[t].data[i - calls[t].offset] ELSE disk[Device][i]]
        /\ p \in Len(calls[t].effect) + 1 .. Len(calls[t].data)
        /\ calls[t].offset + p <= Len(disk[Device])
    <3>1. off = calls[t].offset
      BY <1>1 DEF Offset
    <3>2. QED
      BY <1>6, <1>7, <1>10, <2>1, <3>1
  <2>3. calls' = [calls EXCEPT ![t].effect = SubSeq(calls[t].data, 1, p)]
    BY <1>7 DEF WrittenSoFar
  <2>. HIDE DEF p
  <2>4. Plain!Put(t)
    BY <1>2, <2>2, <2>3 DEF Plain!Put
  <2>5. PlainStep
    BY <2>4 DEF PlainStep, Plain!Next
  <2>6. QED
    BY <1>8, <1>11, <1>12, <2>5
<1>15. QED
  BY <1>13, <1>14

\* All of a write has arrived.
LEMMA WriteDone ==
  ASSUME HInv, NEW t \in Threads, step[t].at = "writing", Writes(t, Len(step[t].block))
  PROVE  Earned(t, Success(<<>>)) /\ Success(<<>>) \in Answers
<1>1. /\ calls[t] # NoCall /\ ThreadOk(t) /\ Span(t) \in Nat /\ HeadOf(t) + Count(t) <= Span(t) /\ SourceTypes
  BY CheckedIs DEF HInv, SourceOk
<1>2. calls[t].kind = "write" /\ Len(step[t].block) = Span(t)
  BY <1>1 DEF ThreadOk
<1>3. Own(t, Span(t)) = Count(t) /\ Count(t) = Len(calls[t].data)
  BY <1>1, <1>2, OwnIs, CountIs
<1>4. Len(calls[t].effect) = Len(calls[t].data)
  BY <1>1, <1>2, <1>3, WrittenSoFarIs DEF Writes
<1>5. <<>> \in Seq(Bytes)
  OBVIOUS
<1>6. QED
  BY <1>2, <1>4, <1>5, AnswersMade DEF Earned

\* While one thread writes, no other is in a write.
LEMMA OnlyWriter ==
  ASSUME HInv, NEW t \in Threads, step[t].at = "writing", NEW u \in Threads, u # t
  PROVE  calls[u] = NoCall \/ calls[u].kind = "read"
<1>1. ThreadOk(t) /\ ThreadOk(u) /\ SourceTypes
  BY DEF HInv, SourceOk, ThreadsOk
<1>2. t \in Writers
  BY <1>1 DEF ThreadOk
<1>3. u \notin Writers
  BY <1>2, SourceAssumption
<1>4. QED
  BY <1>1, <1>3, CallKinds DEF ThreadOk

-----------------------------------------------------------------------------
(* DiskSource. *)

\* The threads of a source that opened the node itself hold no lock.
LEMMA NoLock ==
  ASSUME HInv, source.via = "disk", NEW t \in Threads
  PROVE  lock = NoThread /\ lock # t
BY SourceAssumption DEF HInv, SourceOk, ClientOk

\* A system call of a thread.
LEMMA DiskStep ==
  ASSUME HInv, source.via = "disk", NEW t \in Threads,
         UNCHANGED <<daemon, conn, source, lock, answers, granted, asked>>,
         disk' \in [Devices -> Seq(Bytes)], Len(disk'[Device]) = Len(disk[Device]),
         calls' \in [Threads -> Calls], step' \in [Threads -> Steps],
         \A u \in Threads : u # t => calls'[u] = calls[u] /\ step'[u] = step[u],
         disk'[Device] = disk[Device] \/ step[t].at = "writing", ThreadOk(t)'
  PROVE  HInv'
<1>1. Sound'
  BY UnmovedSound DEF HInv
<1>2. ASSUME NEW u \in Threads PROVE ThreadOk(u)'
  <2>1. CASE u = t
    BY <2>1
  <2>2. CASE u # t
    <3>1. ThreadOk(u)
      BY DEF HInv, SourceOk, ThreadsOk
    <3>2. QED
      BY <2>2, <3>1, OtherThread, OnlyWriter
  <2>3. QED
    BY <2>1, <2>2
<1>3. SourceTypes' /\ ThreadsOk'
  BY <1>2 DEF HInv, SourceOk, SourceTypes, ThreadsOk
<1>4. ClientOk'
  <2>1. lock = NoThread /\ Quiet(conn[Client]) /\ source.size = Len(disk[Device])
    BY NoLock DEF HInv, SourceOk, ClientOk, Ready
  <2>2. QED
    BY <2>1 DEF ClientOk
<1>5. QED
  BY <1>1, <1>3, <1>4 DEF HInv, SourceOk

LEMMA FailsStep ==
  ASSUME HInv, NEW t \in Threads, Fails(t), source.via = "disk", step[t].at \in {"reading", "writing"},
         UNCHANGED <<granted, asked>>
  PROVE  HInv' /\ PlainStep
BY CheckedIs, NoLock, AnswersMade, ReturnedOwn DEF Fails, Earned

LEMMA DiskReadStep ==
  ASSUME HInv, NEW t \in Threads, DiskRead(t), UNCHANGED <<granted, asked>>
  PROVE  HInv' /\ PlainStep
<1>. DEFINE a == step[t].block
            at == From(t) + Len(a)
<1>1. source.via = "disk" /\ step[t].at = "reading"
  BY DEF DiskRead
<1>2. CASE Fails(t)
  BY <1>1, <1>2, FailsStep
<1>3. CASE \E n \in Moves(disk[Device], at, To(t) - at) :
             LET aligned == a \o Slice(disk[Device], at, at + n)
             IN  /\ step' = [step EXCEPT ![t].block = aligned]
                 /\ calls' = IF calls[t].kind = "write" THEN calls
                             ELSE [calls EXCEPT ![t].effect = ReadSoFar(t, aligned)]
                 /\ UNCHANGED <<daemon, conn, disk, source, lock, answers, left>>
  <2>1. PICK n \in Moves(disk[Device], at, To(t) - at) :
             LET aligned == a \o Slice(disk[Device], at, at + n)
             IN  /\ step' = [step EXCEPT ![t].block = aligned]
                 /\ calls' = IF calls[t].kind = "write" THEN calls
                             ELSE [calls EXCEPT ![t].effect = ReadSoFar(t, aligned)]
                 /\ UNCHANGED <<daemon, conn, disk, source, lock, answers, left>>
    BY <1>3
  <2>2. /\ calls[t] # NoCall /\ ThreadOk(t) /\ Ready /\ Offset(t) < source.size
        /\ disk[Device] \in Seq(Bytes) /\ From(t) \in Nat
        /\ Span(t) \in Nat \ {0} /\ From(t) + Span(t) = To(t)
        /\ Offset(t) + Count(t) <= source.size
    BY <1>1, CheckedIs
  <2>3. lock # t /\ Reads(t, a) /\ a \in Seq(Bytes)
    BY <1>1, <2>2, NoLock DEF ThreadOk, Reads
  <2>4. n \in Nat \ {0} /\ at \in Nat /\ at + n <= Len(disk[Device]) /\ Len(a) + n <= Span(t)
    <3>1. at \in Nat /\ To(t) - at \in Int
      BY <2>2, <2>3
    <3>2. n \in Nat \ {0} /\ n <= To(t) - at /\ at + n <= Len(disk[Device])
      BY <2>2, <3>1, MovesIs
    <3>. DEFINE l == Len(a)
                from == From(t)
                span == Span(t)
                to == To(t)
    <3>3. l \in Nat /\ from \in Nat /\ span \in Nat /\ from + span = to /\ n \in Nat /\ n <= to - (from + l)
      BY <2>2, <2>3, <3>2
    <3>. HIDE DEF l, from, span, to
    <3>4. l + n <= span
      BY ONLY <3>3
    <3>5. QED
      BY <3>1, <3>2, <3>4 DEF l, span
  <2>5. PICK had, p, b : had = a /\ p = at /\ b = a \o Slice(disk[Device], at, at + n)
    OBVIOUS
  <2>6. /\ step' = [step EXCEPT ![t].block = b]
        /\ calls' = IF calls[t].kind = "write" THEN calls ELSE [calls EXCEPT ![t].effect = ReadSoFar(t, b)]
        /\ UNCHANGED <<daemon, conn, disk, source, lock, answers, left>>
        /\ b = had \o Slice(disk[Device], p, p + n) /\ p = From(t) + Len(had)
        /\ p + n <= Len(disk[Device]) /\ Len(had) + n <= Span(t) /\ Reads(t, had)
    BY <2>1, <2>3, <2>4, <2>5
  <2>. HIDE DEF a, at
  <2>7. PlainStep /\ Reads(t, b)' /\ TakesEffect(t, calls'[t].effect)
    BY <1>1, <2>4, <2>6, TakeMore
  <2>8. b \in Seq(Bytes)
    BY <2>7 DEF Reads
  <2>9. /\ step' \in [Threads -> Steps] /\ \A u \in Threads : u # t => step'[u] = step[u]
        /\ step'[t].at = "reading" /\ step'[t].block = b
    BY <1>1, <2>6, <2>8 DEF HInv, SourceOk, SourceTypes, Steps
  <2>10. /\ calls' \in [Threads -> Calls] /\ \A u \in Threads : u # t => calls'[u] = calls[u]
         /\ calls'[t] # NoCall /\ calls'[t].kind = calls[t].kind
         /\ Offset(t)' = Offset(t) /\ Count(t)' = Count(t)
    BY <2>7 DEF TakesEffect
  <2>11. ThreadOk(t)'
    <3>1. Reads(t, step[t].block)'
      BY <2>7, <2>9 DEF Reads
    <3>2. QED
      BY <1>1, <2>2, <2>6, <2>9, <2>10, <3>1 DEF ThreadOk, Ready
  <2>12. disk' \in [Devices -> Seq(Bytes)] /\ disk'[Device] = disk[Device]
    BY <2>6 DEF HInv, Sound, DaemonTypes
  <2>13. QED
    BY <1>1, <2>6, <2>7, <2>9, <2>10, <2>11, <2>12, DiskStep
<1>4. QED
  BY <1>2, <1>3 DEF DiskRead

LEMMA DiskHasReadStep ==
  ASSUME HInv, NEW t \in Threads, DiskHasRead(t), UNCHANGED <<granted, asked>>
  PROVE  HInv' /\ PlainStep
<1>. DEFINE a == step[t].block
<1>1. /\ source.via = "disk" /\ step[t].at = "reading" /\ Len(a) = Span(t) /\ Continues(t, a)
      /\ UNCHANGED <<daemon, conn, disk, source, lock, left>>
  BY DEF DiskHasRead, Span
<1>2. calls[t] # NoCall /\ ThreadOk(t) /\ calls[t].kind \in {"read", "write"}
  BY <1>1, CheckedIs, CallKinds DEF HInv, SourceOk
<1>3. lock # t /\ Reads(t, a)
  BY <1>1, <1>2, NoLock DEF ThreadOk
<1>. HIDE DEF a
<1>4. CASE calls[t].kind = "read"
  <2>1. PICK answer \in Answers : Returns(t, answer) /\ Earned(t, answer)
    BY <1>1, <1>3, <1>4, ReadDone
  <2>2. QED
    BY <1>1, <1>2, <1>3, <2>1, ReturnedOwn
<1>5. CASE calls[t].kind = "write"
  <2>1. /\ UNCHANGED <<calls, answers>> /\ step' \in [Threads -> Steps]
        /\ \A u \in Threads : u # t => step'[u] = step[u]
        /\ ThreadOk(t)'
    BY <1>1, <1>3, <1>5, WriteContinues
  <2>2. calls' \in [Threads -> Calls] /\ disk' \in [Devices -> Seq(Bytes)]
    BY <1>1, <2>1 DEF HInv, SourceOk, SourceTypes, Sound, DaemonTypes
  <2>3. HInv'
    BY <1>1, <2>1, <2>2, DiskStep
  <2>4. PlainStep
    BY <1>1, <2>1, PlainStutter
  <2>5. QED
    BY <2>3, <2>4
<1>6. QED
  BY <1>2, <1>4, <1>5

LEMMA DiskWriteStep ==
  ASSUME HInv, NEW t \in Threads, DiskWrite(t), UNCHANGED <<granted, asked>>
  PROVE  HInv' /\ PlainStep
<1>. DEFINE block == step[t].block
            m == step[t].done
            at == From(t) + m
<1>1. source.via = "disk" /\ step[t].at = "writing"
  BY DEF DiskWrite
<1>2. CASE Fails(t)
  BY <1>1, <1>2, FailsStep
<1>3. CASE \E n \in Moves(disk[Device], at, Len(block) - m) :
             /\ disk' = [disk EXCEPT ![Device] = Patched(@, at, Slice(block, m, m + n))]
             /\ step' = [step EXCEPT ![t].done = @ + n]
             /\ calls' = [calls EXCEPT ![t].effect = WrittenSoFar(t, m + n)]
             /\ UNCHANGED <<daemon, conn, source, lock, answers, left>>
  <2>1. PICK n \in Moves(disk[Device], at, Len(block) - m) :
             /\ disk' = [disk EXCEPT ![Device] = Patched(@, at, Slice(block, m, m + n))]
             /\ step' = [step EXCEPT ![t].done = @ + n]
             /\ calls' = [calls EXCEPT ![t].effect = WrittenSoFar(t, m + n)]
             /\ UNCHANGED <<daemon, conn, source, lock, answers, left>>
    BY <1>3
  <2>2. /\ calls[t] # NoCall /\ ThreadOk(t) /\ Ready /\ Offset(t) < source.size
        /\ disk[Device] \in Seq(Bytes) /\ From(t) \in Nat /\ Offset(t) + Count(t) <= source.size
        /\ m \in Nat /\ block \in Seq(Bytes)
    BY <1>1, CheckedIs DEF HInv, SourceOk, SourceTypes, Steps
  <2>3. lock # t /\ Writes(t, m)
    BY <1>1, <2>2, NoLock DEF ThreadOk
  <2>4. n \in Nat \ {0} /\ m + n <= Len(block)
    <3>1. at \in Nat /\ Len(block) - m \in Int
      BY <2>2
    <3>2. n \in Nat \ {0} /\ n <= Len(block) - m
      BY <2>2, <3>1, MovesIs
    <3>3. QED
      BY <2>2, <3>2
  <2>5. /\ disk' = [disk EXCEPT ![Device] = Patched(disk[Device], at, Slice(block, m, m + n))]
        /\ step' = [step EXCEPT ![t].done = m + n]
        /\ calls' = [calls EXCEPT ![t].effect = WrittenSoFar(t, m + n)]
        /\ UNCHANGED <<daemon, conn, source, lock, answers, left>>
    BY <2>1 DEF HInv, Sound, DaemonTypes, SourceOk, SourceTypes
  <2>a. PICK had, held, p : had = m /\ held = block /\ p = at
    OBVIOUS
  <2>. HIDE DEF m, block, at
  <2>6. /\ step' \in [Threads -> Steps] /\ \A u \in Threads : u # t => step'[u] = step[u]
        /\ step'[t].at = "writing" /\ step'[t].block = block /\ step'[t].done = m + n
    <3>1. m + n \in Nat
      BY <2>2, <2>4
    <3>2. QED
      BY <1>1, <2>5, <3>1 DEF HInv, SourceOk, SourceTypes, Steps, block
  <2>7. /\ PlainStep /\ Writes(t, had + n)' /\ TakesEffect(t, WrittenSoFar(t, had + n))
        /\ disk' \in [Devices -> Seq(Bytes)] /\ Len(disk'[Device]) = Len(disk[Device])
    <3>1. /\ Writes(t, had) /\ held = step[t].block /\ had + n <= Len(held) /\ p = From(t) + had
          /\ disk' = [disk EXCEPT ![Device] = Patched(disk[Device], p, Slice(held, had, had + n))]
          /\ calls' = [calls EXCEPT ![t].effect = WrittenSoFar(t, had + n)]
          /\ step'[t].block = step[t].block /\ source' = source /\ answers' = answers
      BY <2>3, <2>4, <2>5, <2>6, <2>a DEF m, block, at
    <3>2. QED
      BY <1>1, <2>4, <3>1, PutMore
  <2>8. /\ calls' \in [Threads -> Calls] /\ \A u \in Threads : u # t => calls'[u] = calls[u]
        /\ calls'[t] # NoCall /\ calls'[t].kind = calls[t].kind
        /\ Offset(t)' = Offset(t) /\ Count(t)' = Count(t) /\ To(t)' = To(t) /\ Span(t)' = Span(t)
    BY <2>7 DEF TakesEffect
  <2>9. ThreadOk(t)'
    <3>1. Writes(t, step[t].done)'
      BY <2>6, <2>7, <2>a DEF Writes, WrittenSoFar, Own
    <3>2. QED
      BY <1>1, <2>2, <2>5, <2>6, <2>8, <3>1 DEF ThreadOk, Ready, block
  <2>10. QED
    BY <1>1, <2>5, <2>6, <2>7, <2>8, <2>9, DiskStep
<1>4. QED
  BY <1>2, <1>3 DEF DiskWrite

LEMMA DiskHasWrittenStep ==
  ASSUME HInv, NEW t \in Threads, DiskHasWritten(t), UNCHANGED <<granted, asked>>
  PROVE  HInv' /\ PlainStep
<1>1. /\ source.via = "disk" /\ step[t].at = "writing" /\ step[t].done = Len(step[t].block)
      /\ Returns(t, Success(<<>>)) /\ UNCHANGED <<daemon, conn, disk, source, lock, left>>
  BY DEF DiskHasWritten
<1>2. calls[t] # NoCall /\ ThreadOk(t) /\ lock # t
  BY <1>1, CheckedIs, NoLock
<1>3. Writes(t, Len(step[t].block))
  BY <1>1, <1>2 DEF ThreadOk
<1>4. QED
  BY <1>1, <1>2, <1>3, WriteDone, ReturnedOwn

-----------------------------------------------------------------------------
(* Opening and dropping the source: no thread is in a call. *)

LEMMA SourceMade ==
  ASSUME NEW via \in {"none", "disk", "opening", "helper", "failed"}, NEW handle \in Nat, NEW size \in Nat,
         NEW writable \in BOOLEAN
  PROVE  /\ Source(via, handle, size, writable) \in Sources
         /\ Source(via, handle, size, writable).via = via
         /\ Source(via, handle, size, writable).handle = handle
         /\ Source(via, handle, size, writable).size = size
         /\ Source(via, handle, size, writable).writable = writable
BY DEF Source, Sources

LEMMA UnusableIs == Unusable \in Sources /\ Unusable.via = "failed"
BY DEF Unusable, Source, Sources

LEMMA AllIdle ==
  ASSUME HInv, ~ Ready \/ \A t \in Threads : calls[t] = NoCall
  PROVE  /\ \A t \in Threads : calls[t] = NoCall
         /\ lock = NoThread
<1>1. ASSUME NEW t \in Threads PROVE calls[t] = NoCall
  BY DEF HInv, SourceOk, ThreadsOk, ThreadOk
<1>2. lock = NoThread
  <2>1. SUFFICES ASSUME lock # NoThread PROVE FALSE
    OBVIOUS
  <2>2. lock \in Threads /\ step[lock].at \in {"reading", "writing"}
    BY <2>1 DEF HInv, SourceOk, SourceTypes, ClientOk
  <2>3. calls[lock] = NoCall /\ ThreadOk(lock)
    BY <1>1, <2>2 DEF HInv, SourceOk, ThreadsOk
  <2>4. QED
    BY <2>2, <2>3 DEF ThreadOk
<1>3. QED
  BY <1>1, <1>2

LEMMA IdleOwn ==
  ASSUME HInv, \A t \in Threads : calls[t] = NoCall, source' \in Sources,
         UNCHANGED <<lock, calls, step, answers>>
  PROVE  SourceTypes' /\ ThreadsOk'
<1>1. ASSUME NEW t \in Threads PROVE ThreadOk(t)'
  <2>1. ThreadOk(t) /\ calls[t] = NoCall /\ step[t].at = "idle"
    BY DEF HInv, SourceOk, ThreadsOk, ThreadOk
  <2>2. QED
    BY <2>1 DEF ThreadOk
<1>2. QED
  BY <1>1 DEF HInv, SourceOk, SourceTypes, ThreadsOk

LEMMA OpenDeviceStep ==
  ASSUME HInv, OpenDevice, UNCHANGED <<granted, asked>>
  PROVE  HInv' /\ PlainStep
<1>1. source = Unopened /\ source.via = "none" /\ UNCHANGED <<daemon, disk, lock, calls, step, answers>>
  BY DEF OpenDevice, Unopened, Source
<1>2. PICK writable \in BOOLEAN :
        \/ source' = Source("disk", 0, Len(disk[Device]), writable) /\ UNCHANGED conn
        \/ source' = Unusable /\ UNCHANGED conn
        \/ /\ source' = Source("opening", 0, 0, writable)
           /\ \E allowed \in BOOLEAN :
                conn' = Connected(Client, allowed, OpenRequest(Device, writable))
  BY DEF OpenDevice
<1>3. (\A t \in Threads : calls[t] = NoCall) /\ lock = NoThread /\ Quiet(conn[Client])
  BY <1>1, AllIdle DEF Ready, HInv, SourceOk, ClientOk
<1>4. disk[Device] \in Seq(Bytes) /\ Len(disk[Device]) \in Nat /\ disk' \in [Devices -> Seq(Bytes)]
  BY <1>1 DEF HInv, Sound, DaemonTypes
<1>5. PlainStep
  BY <1>1, PlainStutter
<1>6. CASE source' = Source("disk", 0, Len(disk[Device]), writable) /\ UNCHANGED conn
  <2>1. source' \in Sources /\ source'.via = "disk" /\ source'.size = Len(disk[Device])
    BY <1>4, <1>6, SourceMade
  <2>2. ClientOk'
    BY <1>1, <1>3, <1>6, <2>1 DEF ClientOk, Ready, Quiet
  <2>3. QED
    BY <1>1, <1>3, <1>4, <1>5, <1>6, <2>1, <2>2, IdleOwn, UnmovedSound DEF HInv, SourceOk
<1>7. CASE source' = Unusable /\ UNCHANGED conn
  <2>1. source' \in Sources /\ source'.via = "failed"
    BY <1>7, UnusableIs
  <2>2. ClientOk'
    BY <1>1, <1>3, <1>7, <2>1 DEF ClientOk, Ready, Quiet
  <2>3. QED
    BY <1>1, <1>3, <1>4, <1>5, <1>7, <2>1, <2>2, IdleOwn, UnmovedSound DEF HInv, SourceOk
<1>8. CASE /\ source' = Source("opening", 0, 0, writable)
           /\ \E allowed \in BOOLEAN :
                conn' = Connected(Client, allowed, OpenRequest(Device, writable))
  <2>1. source' \in Sources /\ source'.via = "opening" /\ source'.writable = writable
    BY <1>8, SourceMade
  <2>. DEFINE req == OpenRequest(Device, writable)
  <2>2. req \in Requests
    BY RequestsMade
  <2>3. PICK allowed \in BOOLEAN : conn' = Connected(Client, allowed, req)
    BY <1>8
  <2>. DEFINE k2 == Begun(allowed, req)
  <2>4. conn' = [conn EXCEPT ![Client] = k2]
    BY <2>3 DEF Connected, Begun
  <2>. HIDE DEF req
  <2>5. /\ k2 \in Connections /\ k2.server \in {"accepted", "ended"}
        /\ k2.inbox = <<req>> /\ k2.outbox = <<>>
    BY <2>2, BegunIs
  <2>. HIDE DEF k2
  <2>6. Sound' /\ conn'[Client] = k2
    BY <1>1, <2>4, <2>5, ClientMoved DEF HInv
  <2>7. Asked(k2, req) \/ Lost(k2)
    BY <2>5 DEF Asked, Lost
  <2>8. Opening(conn[Client])'
    BY <2>1, <2>6, <2>7 DEF Opening, req
  <2>9. ClientOk'
    BY <1>1, <1>3, <2>1, <2>8 DEF ClientOk, Ready
  <2>10. QED
    BY <1>1, <1>3, <1>5, <2>1, <2>6, <2>9, IdleOwn DEF HInv, SourceOk
<1>9. QED
  BY <1>2, <1>6, <1>7, <1>8

LEMMA HandshakeStep ==
  ASSUME HInv, Handshake, UNCHANGED <<granted, asked>>
  PROVE  HInv' /\ PlainStep
<1>. DEFINE k == conn[Client]
            reply == Head(k.outbox)
<1>1. source.via = "opening" /\ UNCHANGED <<daemon, disk, lock, calls, step, answers, left>>
  BY DEF Handshake
<1>2. (\A t \in Threads : calls[t] = NoCall) /\ lock = NoThread /\ Opening(k)
  BY <1>1, AllIdle DEF Ready, HInv, SourceOk, ClientOk
<1>3. k \in Connections /\ disk' \in [Devices -> Seq(Bytes)]
  BY <1>1 DEF HInv, Sound, DaemonTypes
<1>4. PlainStep
  BY <1>1, PlainStutter
<1>5. CASE /\ HasReply(Client)
           /\ source' = IF reply.type = "opened"
                          THEN Source("helper", reply.handle, reply.size, source.writable)
                          ELSE Unusable
           /\ conn' = Received(Client)
  <2>1. PICK r \in Replies : Answering(k, r) /\ OpenReply(k, r)
    BY <1>2, <1>5 DEF Opening, Asked, Lost, HasReply
  <2>2. /\ k.outbox = <<r>> /\ (k.server = "ended" \/ (k.server = "serving" /\ k.inbox = <<>>))
    BY <1>5, <2>1 DEF Answering, HasReply
  <2>3. reply = r /\ Tail(k.outbox) = <<>>
    BY <2>2
  <2>. DEFINE k2 == Hearing(k)
  <2>4. conn' = [conn EXCEPT ![Client] = k2]
    BY <1>5 DEF Received, Hearing
  <2>5. /\ k2 \in Connections /\ k2.server = k.server
        /\ k2.inbox = k.inbox /\ k2.outbox = <<>> /\ k2.table = k.table
    BY <1>3, <1>5, <2>3, HearingIs DEF HasReply
  <2>. HIDE DEF k2
  <2>6. Sound' /\ conn'[Client] = k2
    BY <1>1, <2>4, <2>5, ClientMoved DEF HInv
  <2>7. Quiet(conn[Client])' /\ k2.server \notin {"none", "accepted"}
    BY <2>2, <2>5, <2>6 DEF Quiet
  <2>8. CASE r.type = "opened"
    <3>1. r.handle \in Nat /\ r.size \in Nat /\ source.writable \in BOOLEAN
      BY <2>8, ReplyKinds DEF HInv, SourceOk, SourceTypes, Sources
    <3>2. source' = Source("helper", r.handle, r.size, source.writable)
      BY <1>5, <2>3, <2>8
    <3>3. /\ source' \in Sources /\ source'.via = "helper" /\ source'.size = r.size
          /\ source'.handle = r.handle /\ source'.writable = source.writable
      BY <3>1, <3>2, SourceMade
    <3>4. /\ r.size = Len(disk[Device])
          /\ Serves(k) => Names(k.table, r.handle, Handle(Device, source.writable))
      BY <2>1, <2>8 DEF OpenReply
    <3>5. Serves(k2) => Names(k2.table, source'.handle, Handle(Device, source'.writable))
      BY <2>5, <3>3, <3>4 DEF Serves
    <3>6. ClientOk'
      BY <1>1, <1>2, <2>6, <2>7, <3>3, <3>4, <3>5 DEF ClientOk, Ready
    <3>7. QED
      BY <1>1, <1>2, <1>4, <2>6, <3>3, <3>6, IdleOwn DEF HInv, SourceOk
  <2>9. CASE r.type # "opened"
    <3>1. source' \in Sources /\ source'.via = "failed"
      BY <1>5, <2>3, <2>9, UnusableIs
    <3>2. ClientOk'
      BY <1>1, <1>2, <2>7, <3>1 DEF ClientOk, Ready
    <3>3. QED
      BY <1>1, <1>2, <1>4, <2>6, <3>1, <3>2, IdleOwn DEF HInv, SourceOk
  <2>10. QED
    BY <2>8, <2>9
<1>6. CASE AtEnd(Client) /\ source' = Unusable /\ UNCHANGED conn
  <2>1. source' \in Sources /\ source'.via = "failed"
    BY <1>6, UnusableIs
  <2>2. Quiet(conn[Client])'
    BY <1>6 DEF AtEnd, Quiet
  <2>3. ClientOk'
    BY <1>1, <1>2, <2>1, <2>2 DEF ClientOk, Ready
  <2>4. QED
    BY <1>1, <1>2, <1>3, <1>4, <1>6, <2>1, <2>3, IdleOwn, UnmovedSound DEF HInv, SourceOk
<1>7. QED
  BY <1>5, <1>6 DEF Handshake

LEMMA DropStep ==
  ASSUME HInv, Drop, UNCHANGED <<granted, asked>>
  PROVE  HInv' /\ PlainStep
<1>. DEFINE k == conn[Client]
            k2 == Leaving(k)
<1>1. /\ source.via = "helper" /\ (\A t \in Threads : calls[t] = NoCall) /\ source' = Unusable
      /\ UNCHANGED <<daemon, disk, lock, calls, step, answers, left>>
  BY DEF Drop
<1>2. lock = NoThread /\ Quiet(k) /\ k \in Connections
  BY <1>1, AllIdle DEF HInv, SourceOk, ClientOk, Sound, DaemonTypes
<1>3. conn' = [conn EXCEPT ![Client] = k2]
  BY DEF Drop, Leaving
<1>4. k2 \in Connections /\ k2.server = k.server /\ k2.inbox = k.inbox /\ k2.outbox = k.outbox
  BY <1>2, LeavingIs
<1>. HIDE DEF k2
<1>5. Sound' /\ conn'[Client] = k2
  BY <1>1, <1>3, <1>4, ClientMoved DEF HInv
<1>6. source' \in Sources /\ source'.via = "failed"
  BY <1>1, UnusableIs
<1>7. Quiet(conn[Client])'
  BY <1>2, <1>4, <1>5 DEF Quiet
<1>8. ClientOk'
  BY <1>1, <1>2, <1>6, <1>7 DEF ClientOk, Ready
<1>9. PlainStep
  BY <1>1, PlainStutter
<1>10. QED
  BY <1>1, <1>5, <1>6, <1>8, <1>9, IdleOwn DEF HInv, SourceOk

-----------------------------------------------------------------------------
(* HelperSource: the exchange of a request and its reply. *)

LEMMA RequestOfIs ==
  ASSUME HInv, NEW t \in Threads, step[t].at \in {"reading", "writing"}
  PROVE  RequestOf(t) \in Requests
<1>1. From(t) \in Nat /\ To(t) - From(t) \in Int
  BY CheckedIs
<1>2. source.handle \in Nat /\ step[t].block \in Seq(Bytes)
  BY DEF HInv, SourceOk, SourceTypes, Sources, Steps
<1>3. QED
  BY <1>1, <1>2, RequestsMade DEF RequestOf

LEMMA AskStep ==
  ASSUME HInv, NEW t \in Threads, Ask(t), UNCHANGED <<granted, asked>>
  PROVE  HInv' /\ PlainStep
<1>. DEFINE k == conn[Client]
            req == RequestOf(t)
            k2 == Sending(k, req)
<1>1. /\ source.via = "helper" /\ step[t].at \in {"reading", "writing"} /\ lock = NoThread
      /\ UNCHANGED <<daemon, disk, source, left>>
  BY DEF Ask
<1>2. calls[t] # NoCall /\ ThreadOk(t) /\ lock # t
  BY <1>1, CheckedIs, SourceAssumption
<1>3. /\ Quiet(k) /\ k.server \notin {"none", "accepted"} /\ source.size = Len(disk[Device])
      /\ Serves(k) => Names(k.table, source.handle, Handle(Device, source.writable))
      /\ k \in Connections
  BY <1>1 DEF HInv, SourceOk, ClientOk, Ready, Sound, DaemonTypes
<1>4. CASE lock' = t /\ conn' = Sent(Client, req) /\ UNCHANGED <<calls, step, answers>>
  <2>1. conn' = [conn EXCEPT ![Client] = k2]
    BY <1>4 DEF Sent, Sending
  <2>2. req \in Requests
    BY <1>1, RequestOfIs
  <2>. HIDE DEF req
  <2>3. /\ k2 \in Connections /\ k2.server = k.server /\ k2.outbox = k.outbox /\ k2.table = k.table
        /\ k2.inbox = (IF k.server = "ended" THEN k.inbox ELSE Append(k.inbox, req)) /\ k2.part = k.part
    BY <1>3, <2>2, SendingIs
  <2>. HIDE DEF k2
  <2>4. Sound' /\ conn'[Client] = k2
    BY <1>1, <2>1, <2>3, ClientMoved DEF HInv
  <2>5. (Asked(k2, req) /\ k2.part = <<>>) \/ Lost(k2)
    <3>1. CASE k.server = "ended"
      BY <1>3, <2>3, <3>1 DEF Quiet, Lost
    <3>2. CASE k.server # "ended"
      <4>1. k.server = "serving" /\ k.inbox = <<>> /\ k.outbox = <<>>
        BY <1>3, <3>2, ConnectionIs DEF Quiet
      <4>2. Append(k.inbox, req) = <<req>>
        BY <4>1
      <4>3. k.part = <<>>
        BY <1>3, <4>1, ConnectionIs
      <4>4. QED
        BY <2>3, <4>1, <4>2, <4>3 DEF Asked
    <3>3. QED
      BY <3>1, <3>2
  <2>6. RequestOf(t)' = req /\ Moving(t, <<>>)'
    <3>1. RequestOf(t)' = RequestOf(t) /\ Moving(t, <<>>)' = Moving(t, <<>>)
      BY <1>1, <1>4, SameRequest
    <3>2. Moving(t, <<>>)
      BY <1>1, <1>2 DEF ThreadOk, Moving
    <3>3. QED
      BY <3>1, <3>2 DEF req
  <2>7. Asking(conn[Client], t)'
    <3>1. (Asked(k2, req) /\ conn[Client]'.part = <<>>) \/ Lost(k2)
      BY <2>4, <2>5
    <3>2. Lost(k2) => Lost(conn[Client])'
      BY <2>4
    <3>3. (Asked(k2, req) /\ conn[Client]'.part = <<>>) => Asked(conn[Client], RequestOf(t))' /\ Moving(t, conn[Client].part)'
      BY <2>4, <2>6 DEF Moving
    <3>4. QED
      BY <3>1, <3>2, <3>3 DEF Asking
  <2>8. ASSUME NEW u \in Threads PROVE ThreadOk(u)'
    BY <1>1, <1>4, OtherThread DEF HInv, SourceOk, ThreadsOk
  <2>9. SourceTypes' /\ ThreadsOk'
    BY <1>1, <1>4, <2>8 DEF HInv, SourceOk, SourceTypes, ThreadsOk
  <2>10. Serves(k2) => Names(k2.table, source.handle, Handle(Device, source.writable))
    BY <1>3, <2>3 DEF Serves
  <2>11. ClientOk'
    BY <1>1, <1>3, <1>4, <2>3, <2>4, <2>7, <2>10 DEF ClientOk, Ready
  <2>12. PlainStep
    BY <1>1, <1>4, PlainStutter
  <2>13. QED
    BY <2>4, <2>9, <2>11, <2>12 DEF HInv, SourceOk
<1>5. CASE Returns(t, Failure) /\ UNCHANGED <<lock, conn>>
  BY <1>1, <1>2, <1>5, AnswersMade, ReturnedOwn DEF Earned
<1>6. QED
  BY <1>4, <1>5 DEF Ask

\* The holder of the lock goes on, and the lock is free.
LEMMA ReleasedOwn ==
  ASSUME HInv, NEW t \in Threads, lock = t, lock' = NoThread, source' = source,
         disk'[Device] = disk[Device], Quiet(conn[Client])',
         conn'[Client].server = conn[Client].server, conn'[Client].table = conn[Client].table,
         calls' \in [Threads -> Calls], step' \in [Threads -> Steps], answers' \in [Threads -> Answers],
         \A u \in Threads : u # t => calls'[u] = calls[u] /\ step'[u] = step[u],
         ThreadOk(t)'
  PROVE  SourceOk'
<1>1. ASSUME NEW u \in Threads PROVE ThreadOk(u)'
  <2>1. CASE u = t
    BY <2>1
  <2>2. CASE u # t
    BY <2>2, OtherThread DEF HInv, SourceOk, ThreadsOk
  <2>3. QED
    BY <2>1, <2>2
<1>2. SourceTypes' /\ ThreadsOk'
  BY <1>1 DEF HInv, SourceOk, SourceTypes, ThreadsOk, Answers
<1>3. ClientOk'
  <2>1. lock # NoThread /\ source.via = "helper"
    BY DEF HInv, SourceOk, ClientOk
  <2>2. QED
    BY <2>1 DEF HInv, SourceOk, ClientOk, Ready, Serves
<1>4. QED
  BY <1>2, <1>3 DEF SourceOk

LEMMA HearStep ==
  ASSUME HInv, NEW t \in Threads, Hear(t), UNCHANGED <<granted, asked>>
  PROVE  HInv' /\ PlainStep
<1>. DEFINE k == conn[Client]
            reply == Head(k.outbox)
            k2 == Hearing(k)
<1>1. /\ lock = t /\ k.outbox # <<>> /\ conn' = Received(Client) /\ lock' = NoThread
      /\ UNCHANGED <<daemon, disk, source, left>>
      /\ \/ reply.type = "data" /\ step[t].at = "reading" /\ Continues(t, reply.bytes)
         \/ reply.type = "written" /\ step[t].at = "writing" /\ Returns(t, Success(<<>>))
         \/ /\ \/ reply.type = "error"
               \/ reply.type = "data" /\ step[t].at # "reading"
               \/ reply.type = "written" /\ step[t].at # "writing"
            /\ Returns(t, Failure)
  BY DEF Hear, HasReply, Unlocked
<1>2. /\ Asking(k, t) /\ source.via = "helper" /\ step[t].at \in {"reading", "writing"} /\ k \in Connections
  BY <1>1 DEF HInv, SourceOk, ClientOk, Sound, DaemonTypes
<1>3. calls[t] # NoCall /\ ThreadOk(t) /\ calls[t].kind \in {"read", "write"}
  BY <1>2, CheckedIs, CallKinds DEF HInv, SourceOk
<1>4. PICK r \in Replies : Answering(k, r) /\ CallReply(t, r)
  BY <1>1, <1>2 DEF Asking, Asked, Lost
<1>5. k.outbox = <<r>> /\ (k.server = "ended" \/ (k.server = "serving" /\ k.inbox = <<>>))
  BY <1>1, <1>4 DEF Answering
<1>6. reply = r /\ Tail(k.outbox) = <<>>
  BY <1>5
<1>7. conn' = [conn EXCEPT ![Client] = k2]
  BY <1>1 DEF Received, Hearing
<1>8. /\ k2 \in Connections /\ k2.server = k.server
      /\ k2.inbox = k.inbox /\ k2.outbox = <<>> /\ k2.table = k.table
  BY <1>1, <1>2, <1>6, HearingIs
<1>. HIDE DEF k2, reply
<1>9. Sound' /\ conn'[Client] = k2
  <2>1. UNCHANGED <<daemon, disk, granted, asked>>
    BY <1>1
  <2>2. QED
    BY <1>7, <1>8, <2>1, ClientMoved DEF HInv
<1>10. Quiet(conn[Client])'
  BY <1>5, <1>8, <1>9 DEF Quiet
<1>11. ASSUME NEW answer \in Answers, Returns(t, answer), Earned(t, answer)
       PROVE  HInv' /\ PlainStep
  <2>1. /\ calls' \in [Threads -> Calls] /\ step' \in [Threads -> Steps] /\ answers' \in [Threads -> Answers]
        /\ \A u \in Threads : u # t => calls'[u] = calls[u] /\ step'[u] = step[u]
        /\ ThreadOk(t)'
    BY <1>11, ReturnedIs DEF HInv
  <2>2. /\ lock = t /\ lock' = NoThread /\ source' = source /\ disk'[Device] = disk[Device]
        /\ conn'[Client].server = conn[Client].server /\ conn'[Client].table = conn[Client].table
    BY <1>1, <1>8, <1>9
  <2>3. SourceOk'
    BY <1>10, <2>1, <2>2, ReleasedOwn
  <2>4. PlainStep
    BY <1>3, <1>11, <2>2, PlainAnswer
  <2>5. QED
    BY <1>9, <2>3, <2>4 DEF HInv
<1>12. CASE r.type = "error"
  <2>1. Returns(t, Failure) /\ Earned(t, Failure)
    BY <1>1, <1>6, <1>12 DEF Earned
  <2>2. QED
    BY <1>11, <2>1, AnswersMade
<1>13. CASE r.type = "data" /\ step[t].at = "reading" /\ calls[t].kind = "read"
  <2>1. Continues(t, r.bytes) /\ Len(r.bytes) = Span(t) /\ Reads(t, r.bytes)
    BY <1>1, <1>4, <1>6, <1>13 DEF CallReply
  <2>2. PICK answer \in Answers : Returns(t, answer) /\ Earned(t, answer)
    BY <1>13, <2>1, ReadDone
  <2>3. QED
    BY <1>11, <2>2
<1>14. CASE r.type = "data" /\ step[t].at = "reading" /\ calls[t].kind = "write"
  <2>1. Continues(t, r.bytes) /\ Len(r.bytes) = Span(t) /\ Reads(t, r.bytes)
    BY <1>1, <1>4, <1>6, <1>14 DEF CallReply
  <2>2. source' = source /\ disk' = disk
    BY <1>1
  <2>3. /\ UNCHANGED <<calls, answers>> /\ step' \in [Threads -> Steps]
        /\ \A u \in Threads : u # t => step'[u] = step[u]
        /\ ThreadOk(t)'
    BY <1>14, <2>1, <2>2, WriteContinues
  <2>4. calls' \in [Threads -> Calls] /\ answers' \in [Threads -> Answers]
    BY <2>3 DEF HInv, SourceOk, SourceTypes, Answers
  <2>5. /\ lock = t /\ lock' = NoThread /\ disk'[Device] = disk[Device]
        /\ conn'[Client].server = conn[Client].server /\ conn'[Client].table = conn[Client].table
    BY <1>1, <1>8, <1>9
  <2>6. SourceOk'
    BY <1>10, <2>2, <2>3, <2>4, <2>5, ReleasedOwn
  <2>7. PlainStep
    BY <2>2, <2>3, PlainStutter
  <2>8. QED
    BY <1>9, <2>6, <2>7 DEF HInv
<1>15. CASE r.type = "written" /\ step[t].at = "writing"
  <2>1. Returns(t, Success(<<>>)) /\ Writes(t, Len(step[t].block))
    BY <1>1, <1>4, <1>6, <1>15 DEF CallReply
  <2>2. Earned(t, Success(<<>>)) /\ Success(<<>>) \in Answers
    BY <1>15, <2>1, WriteDone
  <2>3. QED
    BY <1>11, <2>1, <2>2
<1>16. QED
  BY <1>3, <1>4, <1>12, <1>13, <1>14, <1>15 DEF CallReply

LEMMA DisconnectedStep ==
  ASSUME HInv, NEW t \in Threads, Disconnected(t), UNCHANGED <<granted, asked>>
  PROVE  HInv' /\ PlainStep
<1>1. /\ lock = t /\ AtEnd(Client) /\ lock' = NoThread /\ Returns(t, Failure)
      /\ UNCHANGED <<daemon, conn, disk, source, left>>
  BY DEF Disconnected
<1>2. step[t].at \in {"reading", "writing"}
  BY <1>1 DEF HInv, SourceOk, ClientOk
<1>3. calls[t] # NoCall
  BY <1>2, CheckedIs
<1>4. Quiet(conn[Client])'
  BY <1>1 DEF AtEnd, Quiet
<1>5. /\ calls' \in [Threads -> Calls] /\ step' \in [Threads -> Steps] /\ answers' \in [Threads -> Answers]
      /\ \A u \in Threads : u # t => calls'[u] = calls[u] /\ step'[u] = step[u]
      /\ ThreadOk(t)'
  BY <1>1, AnswersMade, ReturnedIs DEF HInv
<1>6. SourceOk'
  BY <1>1, <1>4, <1>5, ReleasedOwn
<1>7. Sound'
  BY <1>1, UnmovedSound DEF HInv, Sound, DaemonTypes
<1>8. PlainStep
  BY <1>1, <1>3, PlainAnswer DEF Earned
<1>9. QED
  BY <1>6, <1>7, <1>8 DEF HInv

-----------------------------------------------------------------------------
(* What the daemon does for the source. *)

\* The request at the head of the source's connection is its own.
LEMMA OpeningAsked ==
  ASSUME HInv, source.via = "opening", conn[Client].server = "serving", conn[Client].inbox # <<>>
  PROVE  /\ Asked(conn[Client], OpenRequest(Device, source.writable))
         /\ Head(conn[Client].inbox) = OpenRequest(Device, source.writable)
         /\ (\A t \in Threads : calls[t] = NoCall) /\ lock = NoThread
<1>1. (\A t \in Threads : calls[t] = NoCall) /\ lock = NoThread
  BY AllIdle DEF Ready
<1>2. Opening(conn[Client])
  BY DEF HInv, SourceOk, ClientOk
<1>3. Asked(conn[Client], OpenRequest(Device, source.writable))
  BY <1>2 DEF Opening, Lost, Answering
<1>4. QED
  BY <1>1, <1>3 DEF Asked

LEMMA HolderAsked ==
  ASSUME HInv, source.via = "helper", conn[Client].server = "serving", conn[Client].inbox # <<>>
  PROVE  /\ lock \in Threads /\ step[lock].at \in {"reading", "writing"}
         /\ Asked(conn[Client], RequestOf(lock)) /\ Head(conn[Client].inbox) = RequestOf(lock)
         /\ RequestOf(lock) \in Requests /\ Moving(lock, conn[Client].part)
         /\ Names(conn[Client].table, source.handle, Handle(Device, source.writable))
<1>. DEFINE k == conn[Client]
<1>1. lock # NoThread
  BY DEF HInv, SourceOk, ClientOk, Quiet
<1>2. /\ lock \in Threads /\ step[lock].at \in {"reading", "writing"} /\ Asking(k, lock)
      /\ Names(k.table, source.handle, Handle(Device, source.writable))
  BY <1>1 DEF HInv, SourceOk, SourceTypes, ClientOk, Serves
<1>3. Asked(k, RequestOf(lock)) /\ Moving(lock, k.part)
  BY <1>2 DEF Asking, Lost, Answering
<1>4. Head(k.inbox) = RequestOf(lock)
  BY <1>3 DEF Asked
<1>5. QED
  BY <1>2, <1>3, <1>4, RequestOfIs

LEMMA NotQuiet ==
  ASSUME HInv, conn[Client].server = "serving", conn[Client].inbox # <<>>
  PROVE  source.via \in {"opening", "helper"}
<1>1. ~ Quiet(conn[Client])
  BY DEF Quiet
<1>2. source.via \in {"none", "disk", "opening", "helper", "failed"}
  BY DEF HInv, SourceOk, SourceTypes, Sources
<1>3. QED
  BY <1>1, <1>2 DEF HInv, SourceOk, ClientOk

\* The requests of the source's threads, field by field.
LEMMA ReadRequestIs ==
  ASSUME NEW t, step[t].at = "reading"
  PROVE  /\ RequestOf(t).type = "read" /\ RequestOf(t).handle = source.handle
         /\ RequestOf(t).offset = From(t) /\ RequestOf(t).len = Span(t)
         /\ Need(RequestOf(t)) = Span(t)
<1>1. RequestOf(t) = ReadRequest(source.handle, From(t), Span(t))
  BY DEF RequestOf, Span
<1>2. QED
  BY <1>1 DEF ReadRequest, Need

LEMMA WriteRequestIs ==
  ASSUME NEW t, step[t].at = "writing"
  PROVE  /\ RequestOf(t).type = "write" /\ RequestOf(t).handle = source.handle
         /\ RequestOf(t).offset = From(t) /\ RequestOf(t).data = step[t].block
         /\ Need(RequestOf(t)) = Len(step[t].block)
<1>1. RequestOf(t) = WriteRequest(source.handle, From(t), step[t].block)
  BY DEF RequestOf
<1>2. QED
  BY <1>1 DEF WriteRequest, Need

\* The answers: to the request that opens the device,
LEMMA OpenDispatched ==
  ASSUME HInv, source.via = "opening", conn[Client].server = "serving", conn[Client].inbox # <<>>,
         NEW o \in Outcomes(conn[Client].table, Head(conn[Client].inbox), conn[Client].part),
         conn'[Client] = Doing(conn[Client], o), disk' = disk, source' = source
  PROVE  Opening(conn[Client])'
<1>. DEFINE k == conn[Client]
            req == OpenRequest(Device, source.writable)
            k2 == Doing(k, o)
<1>1. Asked(k, req) /\ Head(k.inbox) = req
  BY OpeningAsked
<1>2. req \in Requests /\ req.type = "open" /\ req.path = Device /\ req.writable = source.writable /\ req # Malformed
  <2>1. source.writable \in BOOLEAN
    BY DEF HInv, SourceOk, SourceTypes, Sources
  <2>2. QED
    BY <2>1, RequestsMade DEF OpenRequest, Malformed
<1>3. k \in Connections /\ disk \in [Devices -> Seq(Bytes)] /\ k.table \in Tables /\ k.part \in Seq(Bytes)
  BY KnownConnection, ConnectionIs DEF HInv, Sound, DaemonTypes
<1>. HIDE DEF req
<1>4. Refused(k.table, o) \/ OpenedBy(k.table, req, o)
  BY <1>1, <1>2, OpenOutcome
<1>5. o.table \in Tables /\ o.reply \in Replies
  BY <1>1, <1>2, <1>3, OutcomeOk
<1>6. /\ k2.server = "replying" /\ k2.inbox = Tail(k.inbox) /\ k2.outbox = k.outbox
      /\ k2.table = o.table /\ k2.reply = o.reply
  BY <1>3, <1>5, DoingIs
<1>7. k.outbox = <<>> /\ Tail(k.inbox) = <<>>
  BY <1>1 DEF Asked
<1>8. conn'[Client] = k2
  OBVIOUS
<1>. HIDE DEF k2
<1>9. Answering(conn[Client], o.reply)'
  BY <1>6, <1>7, <1>8 DEF Answering
<1>10. OpenReply(conn[Client], o.reply)'
  <2>1. CASE Refused(k.table, o)
    BY <2>1 DEF Refused, OpenReply
  <2>2. CASE OpenedBy(k.table, req, o)
    <3>1. GivesOut(k.table, req, o)
      BY <1>2, <1>3, <2>2, GivenOut
    <3>2. o.reply.size = Len(disk[Device]) /\ Names(o.table, o.reply.handle, Handle(Device, source.writable))
      BY <1>2, <3>1 DEF GivesOut
    <3>3. QED
      BY <1>6, <1>8, <3>2 DEF OpenReply
  <2>3. QED
    BY <1>4, <2>1, <2>2
<1>11. QED
  BY <1>5, <1>9, <1>10 DEF Opening

\* and to the request of the lock's holder.
LEMMA CallDispatched ==
  ASSUME HInv, source.via = "helper", conn[Client].server = "serving", conn[Client].inbox # <<>>,
         NEW o \in Outcomes(conn[Client].table, Head(conn[Client].inbox), conn[Client].part),
         conn'[Client] = Doing(conn[Client], o), disk' = disk, UNCHANGED <<source, lock, calls, step>>
  PROVE  Asking(conn[Client], lock)'
<1>1. PICK t \in Threads : t = lock
  BY HolderAsked
<1>. DEFINE k == conn[Client]
            req == RequestOf(t)
            k2 == Doing(k, o)
<1>2. /\ step[t].at \in {"reading", "writing"} /\ Asked(k, req) /\ Head(k.inbox) = req
      /\ req \in Requests /\ Moving(t, k.part)
  BY <1>1, HolderAsked
<1>3. k \in Connections /\ disk \in [Devices -> Seq(Bytes)] /\ k.table \in Tables /\ k.part \in Seq(Bytes)
  BY KnownConnection, ConnectionIs DEF HInv, Sound, DaemonTypes
<1>4. o \in Outcomes(k.table, req, k.part)
  BY <1>2
<1>5. o.table = k.table /\ o.reply \in Replies /\ CallReply(t, o.reply)
  <2>1. CASE Refused(k.table, o)
    BY <2>1 DEF Refused, CallReply
  <2>2. CASE step[t].at = "reading" /\ ~ Refused(k.table, o)
    <3>1. req.type = "read" /\ req.len = Span(t)
      BY <2>2, ReadRequestIs
    <3>. HIDE DEF req
    <3>2. Answered(k.table, req, k.part, o)
      BY <1>2, <1>3, <1>4, <2>2, <3>1, ReadOutcome
    <3>3. o.table = k.table /\ o.reply = Data(k.part) /\ Span(t) <= Len(k.part)
      BY <3>1, <3>2 DEF Answered
    <3>4. Reads(t, k.part) /\ Span(t) \in Nat
      BY <1>2, <2>2, CheckedIs DEF Moving
    <3>5. Len(k.part) = Span(t)
      BY <1>3, <3>3, <3>4 DEF Reads
    <3>6. Data(k.part).type = "data" /\ Data(k.part).bytes = k.part /\ Data(k.part) \in Replies
      BY <1>3, RepliesMade DEF Data
    <3>7. QED
      BY <2>2, <3>3, <3>4, <3>5, <3>6 DEF CallReply
  <2>3. CASE step[t].at = "writing" /\ ~ Refused(k.table, o)
    <3>1. req.type = "write" /\ req.data = step[t].block
      BY <2>3, WriteRequestIs
    <3>. HIDE DEF req
    <3>2. WrittenBy(k.table, req, k.part, o)
      BY <1>2, <1>3, <1>4, <2>3, <3>1, WriteOutcome
    <3>3. o.table = k.table /\ o.reply = Written /\ Len(step[t].block) <= Len(k.part)
      BY <3>1, <3>2 DEF WrittenBy
    <3>4. Writes(t, Len(k.part)) /\ step[t].block \in Seq(Bytes)
      BY <1>2, <2>3 DEF Moving, HInv, SourceOk, SourceTypes, Steps
    <3>5. Len(k.part) = Len(step[t].block)
      <4>1. Len(k.part) \in 0 .. Len(step[t].block) /\ Len(step[t].block) \in Nat
        BY <3>4 DEF Writes
      <4>2. QED
        BY <3>3, <4>1
    <3>6. Written.type = "written" /\ Written \in Replies
      BY RepliesMade DEF Written
    <3>7. QED
      BY <2>3, <3>3, <3>4, <3>5, <3>6 DEF CallReply
  <2>4. QED
    BY <1>2, <2>1, <2>2, <2>3
<1>6. CallReply(t, o.reply)'
  <2>1. PICK r \in Replies : r = o.reply
    BY <1>5
  <2>2. CallReply(t, r)' = CallReply(t, r)
    BY SameRequest
  <2>3. CallReply(t, r)'
    BY <1>5, <2>1, <2>2
  <2>4. QED
    BY <2>1, <2>3
<1>7. /\ k2.server = "replying" /\ k2.inbox = Tail(k.inbox) /\ k2.outbox = k.outbox
      /\ k2.reply = o.reply
  BY <1>3, <1>5, DoingIs
<1>8. k.outbox = <<>> /\ Tail(k.inbox) = <<>> /\ conn'[Client] = k2
  BY <1>2 DEF Asked
<1>. HIDE DEF k2
<1>9. Answering(conn[Client], o.reply)'
  BY <1>7, <1>8 DEF Answering
<1>10. Asking(conn[Client], t)'
  BY <1>5, <1>6, <1>9 DEF Asking
<1>11. QED
  BY <1>1, <1>10

\* A dispatched request has no further effect.
LEMMA DispatchedStep ==
  ASSUME HInv, Dispatch(Client), Untouched, UNCHANGED <<granted, asked>>
  PROVE  HInv' /\ PlainStep
<1>. DEFINE k == conn[Client]
<1>1. UNCHANGED <<source, lock, calls, step, answers>> /\ Sound
  BY DEF Untouched, HInv
<1>2. /\ Sound' /\ disk' = disk /\ k.server = "serving" /\ k.inbox # <<>> /\ Head(k.inbox) # Malformed
      /\ \E o \in Outcomes(k.table, Head(k.inbox), k.part) : conn'[Client] = Doing(k, o)
  BY <1>1, DispatchSound
<1>3. PICK o \in Outcomes(k.table, Head(k.inbox), k.part) : conn'[Client] = Doing(k, o)
  BY <1>2
<1>4. SourceTypes' /\ ThreadsOk'
  BY <1>1, <1>2, ThreadsKept DEF HInv, SourceOk, SourceTypes
<1>5. source.via \in {"opening", "helper"}
  BY <1>2, NotQuiet
<1>6. CASE source.via = "opening"
  <2>1. Opening(conn[Client])' /\ lock = NoThread
    BY <1>1, <1>2, <1>3, <1>6, OpenDispatched, OpeningAsked
  <2>2. ClientOk'
    BY <1>1, <1>6, <2>1 DEF ClientOk, Ready
  <2>3. QED
    BY <1>1, <1>2, <1>4, <2>2, PlainStutter DEF HInv, SourceOk
<1>7. CASE source.via = "helper"
  <2>1. Asking(conn[Client], lock)'
    BY <1>1, <1>2, <1>3, <1>7, CallDispatched
  <2>2. /\ lock \in Threads /\ step[lock].at \in {"reading", "writing"}
        /\ Names(k.table, source.handle, Handle(Device, source.writable))
        /\ Head(k.inbox) = RequestOf(lock) /\ RequestOf(lock) \in Requests
    BY <1>2, <1>7, HolderAsked
  <2>3. conn'[Client].server = "replying" /\ conn'[Client].table = k.table
    <3>1. RequestOf(lock).type \in {"read", "write"}
      BY <2>2, ReadRequestIs, WriteRequestIs
    <3>2. k \in Connections /\ k.part \in Seq(Bytes) /\ k.table \in Tables /\ disk \in [Devices -> Seq(Bytes)]
      BY <1>1, KnownConnection, ConnectionIs DEF Sound, DaemonTypes
    <3>3. o.table = k.table
      BY <1>3, <2>2, <3>1, <3>2, ReadOutcome, WriteOutcome DEF Refused, Answered, WrittenBy
    <3>4. o.table \in Tables /\ o.reply \in Replies
      BY <1>2, <1>3, <2>2, <3>2, OutcomeOk
    <3>5. QED
      BY <1>2, <1>3, <3>2, <3>3, <3>4, DoingIs
  <2>4. source.size = Len(disk[Device])
    BY <1>7 DEF HInv, SourceOk, ClientOk, Ready
  <2>5. ClientOk'
    BY <1>1, <1>2, <1>7, <2>1, <2>2, <2>3, <2>4 DEF ClientOk, Ready
  <2>6. QED
    BY <1>1, <1>2, <1>4, <2>5, PlainStutter DEF HInv, SourceOk
<1>8. QED
  BY <1>5, <1>6, <1>7

\* The holder of the lock, while the daemon moves bytes for it.
LEMMA ServedOwn ==
  ASSUME HInv, NEW t \in Threads, lock = t, source.via = "helper", UNCHANGED <<source, lock, step, answers>>,
         step[t].at \in {"reading", "writing"}, NEW effect, TakesEffect(t, effect),
         Len(disk'[Device]) = Len(disk[Device]),
         disk'[Device] = disk[Device] \/ step[t].at = "writing",
         Asked(conn[Client], RequestOf(t))', Moving(t, conn[Client].part)',
         conn'[Client].server = "serving", conn'[Client].table = conn[Client].table,
         conn[Client].server = "serving"
  PROVE  SourceOk'
<1>1. /\ calls' \in [Threads -> Calls] /\ \A u \in Threads : u # t => calls'[u] = calls[u]
      /\ calls'[t] # NoCall /\ calls'[t].kind = calls[t].kind
      /\ Offset(t)' = Offset(t) /\ Count(t)' = Count(t) /\ To(t)' = To(t) /\ Span(t)' = Span(t)
  BY DEF TakesEffect
<1>2. ThreadOk(t) /\ Ready /\ calls[t] # NoCall
  BY CheckedIs
<1>3. ThreadOk(t)'
  BY <1>1, <1>2 DEF ThreadOk, Ready
<1>4. ASSUME NEW u \in Threads PROVE ThreadOk(u)'
  <2>1. CASE u = t
    BY <1>3, <2>1
  <2>2. CASE u # t
    <3>1. ThreadOk(u) /\ calls'[u] = calls[u] /\ step'[u] = step[u] /\ lock # u
      BY <1>1, <2>2 DEF HInv, SourceOk, ThreadsOk
    <3>2. disk'[Device] = disk[Device] \/ calls[u] = NoCall \/ calls[u].kind = "read"
      BY <2>2, OnlyWriter
    <3>3. QED
      BY <3>1, <3>2, OtherThread
  <2>3. QED
    BY <2>1, <2>2
<1>5. SourceTypes' /\ ThreadsOk'
  BY <1>1, <1>4 DEF HInv, SourceOk, SourceTypes, ThreadsOk
<1>6. Asking(conn[Client], t)'
  BY DEF Asking
<1>7. /\ source.size = Len(disk[Device])
      /\ Names(conn[Client].table, source.handle, Handle(Device, source.writable))
  BY DEF HInv, SourceOk, ClientOk, Ready, Serves
<1>8. ClientOk'
  BY <1>6, <1>7 DEF ClientOk, Ready
<1>9. QED
  BY <1>5, <1>8 DEF SourceOk

\* One system call for the lock's holder.
LEMMA ServeStep ==
  ASSUME HInv, Serve, UNCHANGED <<granted, asked>>
  PROVE  HInv' /\ PlainStep
<1>. DEFINE k == conn[Client]
            head == Head(k.inbox)
<1>1. Transfer(Client) /\ UNCHANGED <<source, lock, step, answers>> /\ Sound
  BY DEF Serve, HInv
<1>2. /\ k.server = "serving" /\ k.inbox # <<>> /\ daemon' = daemon /\ k \in Connections
      /\ head \in Requests /\ Admitted(k.table, head) /\ \E n : TransferBy(Client, n)
  BY <1>1, TransferIs
<1>3. Sound'
  BY <1>1, TransferSound
<1>4. source.via = "helper"
  <2>1. CASE source.via = "opening"
    <3>1. head = OpenRequest(Device, source.writable)
      BY <1>2, <2>1, OpeningAsked
    <3>2. head.type = "open"
      BY <3>1 DEF OpenRequest
    <3>3. QED
      BY <1>2, <3>2 DEF Admitted
  <2>2. QED
    BY <1>2, <2>1, NotQuiet
<1>5. PICK t \in Threads : t = lock
  BY <1>2, <1>4, HolderAsked
<1>6. /\ step[t].at \in {"reading", "writing"} /\ Asked(k, RequestOf(t)) /\ head = RequestOf(t)
      /\ Moving(t, k.part) /\ Names(k.table, source.handle, Handle(Device, source.writable))
  BY <1>2, <1>4, <1>5, HolderAsked
<1>7. k.table[head.handle + 1].device = Device
  <2>1. head.handle = source.handle
    BY <1>6, ReadRequestIs, WriteRequestIs
  <2>2. QED
    BY <1>6, <2>1 DEF Names, Handle
<1>8. k.part \in Seq(Bytes) /\ disk[Device] \in Seq(Bytes)
  BY <1>2, ConnectionIs DEF HInv, Sound, DaemonTypes
<1>9. PICK n : TransferBy(Client, n)
  BY <1>2
<1>10. PICK had, at, b : /\ had = Len(k.part) /\ at = head.offset + Len(k.part)
                         /\ b = Moved(disk[Device], head, k.part, n)
  OBVIOUS
<1>11. /\ n \in Moves(disk[Device], at, Need(head) - had)
       /\ conn' = [conn EXCEPT ![Client] = Holding(k, b)]
       /\ disk' = IF head.type = "read" THEN disk
                  ELSE [disk EXCEPT ![Device] = Patched(disk[Device], at, Slice(head.data, had, had + n))]
  BY <1>7, <1>9, <1>10 DEF TransferBy
<1>12. /\ Need(head) \in Int /\ head.offset \in Nat /\ head.type \in {"read", "write"}
       /\ head.type = "write" => head.data \in Seq(Bytes) /\ Need(head) = Len(head.data)
  BY <1>2, ConnectionIs, AdmittedIs
<1>13. n \in Nat \ {0} /\ had + n <= Need(head) /\ at + n <= Len(disk[Device]) /\ at \in Nat /\ had \in Nat
  <2>1. at \in Nat /\ had \in Nat /\ Need(head) - had \in Int
    BY <1>8, <1>10, <1>12
  <2>2. n \in Nat \ {0} /\ n <= Need(head) - had /\ at + n <= Len(disk[Device])
    BY <1>8, <1>11, <2>1, MovesIs
  <2>3. QED
    BY <1>12, <2>1, <2>2
<1>14. b \in Seq(Bytes) /\ Len(b) = had + n
  <2>1. n \in Nat /\ n <= Need(head) - Len(k.part) /\ head.offset + Len(k.part) + n <= Len(disk[Device])
    BY <1>10, <1>12, <1>13
  <2>2. PICK s, req, part : s = disk[Device] /\ req = head /\ part = k.part
    OBVIOUS
  <2>. HIDE DEF head, k
  <2>3. /\ s \in Seq(Bytes) /\ req.type \in {"read", "write"} /\ part \in Seq(Bytes)
        /\ (req.type = "read" => req.offset \in Nat)
        /\ (req.type = "write" => req.data \in Seq(Bytes) /\ Need(req) = Len(req.data))
        /\ Need(req) \in Int /\ n \in Nat /\ n <= Need(req) - Len(part)
        /\ (req.type = "read" => req.offset + Len(part) + n <= Len(s))
    BY <1>8, <1>12, <2>1, <2>2
  <2>4. Moved(s, req, part, n) \in Seq(Bytes) /\ Len(Moved(s, req, part, n)) = Len(part) + n
    BY <2>3, MovedIs
  <2>5. QED
    BY <1>10, <2>2, <2>4
<1>15. /\ conn'[Client].part = b /\ conn'[Client].server = "serving" /\ conn'[Client].table = k.table
       /\ conn'[Client].inbox = k.inbox /\ conn'[Client].outbox = k.outbox
  <2>1. conn'[Client] = Holding(k, b)
    BY <1>11 DEF HInv, Sound, DaemonTypes
  <2>2. QED
    BY <1>2, <1>14, <2>1, HoldingIs
<1>16. lock = t /\ lock # NoThread
  BY <1>5
<1>17. calls' = IF step[t].at = "writing" THEN [calls EXCEPT ![t].effect = WrittenSoFar(t, Len(b))]
                ELSE IF calls[t].kind = "read" THEN [calls EXCEPT ![t].effect = ReadSoFar(t, b)]
                ELSE calls
  BY <1>15, <1>16 DEF Serve, EffectOf
<1>18. ASSUME NEW effect, TakesEffect(t, effect), Len(disk'[Device]) = Len(disk[Device]),
              disk'[Device] = disk[Device] \/ step[t].at = "writing", Moving(t, conn[Client].part)', PlainStep
       PROVE  HInv' /\ PlainStep
  <2>1. From(t)' = From(t) /\ To(t)' = To(t)
    BY <1>18 DEF TakesEffect
  <2>2. RequestOf(t)' = RequestOf(t)
    BY <1>1, <2>1 DEF RequestOf
  <2>3. Asked(conn[Client], RequestOf(t))'
    BY <1>6, <1>15, <2>2 DEF Asked
  <2>4. SourceOk'
    BY <1>1, <1>2, <1>4, <1>6, <1>15, <1>16, <1>18, <2>3, ServedOwn
  <2>5. QED
    BY <1>3, <1>18, <2>4 DEF HInv
<1>19. CASE step[t].at = "reading"
  <2>1. PICK a : a = k.part
    OBVIOUS
  <2>2. head.type = "read" /\ head.offset = From(t) /\ Need(head) = Span(t)
    BY <1>6, <1>19, ReadRequestIs
  <2>3. /\ Reads(t, a) /\ at = From(t) + Len(a) /\ Len(a) + n <= Span(t) /\ at + n <= Len(disk[Device])
        /\ disk' = disk /\ source' = source /\ answers' = answers
    BY <1>1, <1>6, <1>10, <1>11, <1>13, <1>19, <2>1, <2>2 DEF Moving
  <2>4. b = a \o Slice(disk[Device], at, at + n)
    BY <1>10, <2>1, <2>2 DEF Moved
  <2>5. calls' = IF calls[t].kind = "write" THEN calls ELSE [calls EXCEPT ![t].effect = ReadSoFar(t, b)]
    <3>1. calls[t].kind \in {"read", "write"}
      BY <1>19, CheckedIs, CallKinds DEF HInv, SourceOk
    <3>2. QED
      BY <1>17, <1>19, <3>1
  <2>. HIDE DEF k, head
  <2>6. PlainStep /\ Reads(t, b)' /\ TakesEffect(t, calls'[t].effect)
    BY <1>13, <1>19, <2>3, <2>4, <2>5, TakeMore
  <2>7. Moving(t, conn[Client].part)'
    <3>1. step'[t].at = "reading" /\ conn'[Client].part = b
      BY <1>1, <1>15, <1>19
    <3>2. QED
      BY <2>6, <3>1 DEF Moving, Reads
  <2>8. QED
    BY <1>18, <2>3, <2>6, <2>7
<1>20. CASE step[t].at = "writing"
  <2>1. PICK block : block = step[t].block
    OBVIOUS
  <2>2. head.type = "write" /\ head.offset = From(t) /\ head.data = block /\ Need(head) = Len(block)
    BY <1>6, <1>20, <2>1, WriteRequestIs
  <2>3. /\ Writes(t, had) /\ block = step[t].block /\ had + n <= Len(block) /\ at = From(t) + had
        /\ disk' = [disk EXCEPT ![Device] = Patched(disk[Device], at, Slice(block, had, had + n))]
        /\ calls' = [calls EXCEPT ![t].effect = WrittenSoFar(t, had + n)]
        /\ step'[t].block = step[t].block /\ source' = source /\ answers' = answers
    BY <1>1, <1>6, <1>10, <1>11, <1>13, <1>14, <1>17, <1>20, <2>1, <2>2 DEF Moving
  <2>. HIDE DEF k, head
  <2>4. /\ PlainStep /\ Writes(t, had + n)' /\ TakesEffect(t, WrittenSoFar(t, had + n))
        /\ Len(disk'[Device]) = Len(disk[Device])
    BY <1>13, <1>20, <2>3, PutMore
  <2>5. Moving(t, conn[Client].part)'
    <3>1. step'[t].at = "writing" /\ Len(conn'[Client].part) = had + n
      BY <1>1, <1>14, <1>15, <1>20
    <3>2. QED
      BY <2>4, <3>1 DEF Moving, Writes, WrittenSoFar, Own
  <2>6. QED
    BY <1>18, <1>20, <2>4, <2>5
<1>21. QED
  BY <1>6, <1>19, <1>20

-----------------------------------------------------------------------------
(* The daemon's other work and its other clients. *)

LEMMA OwnUntouched ==
  ASSUME HInv, Sound', Follows(conn'[Client], conn[Client]), disk'[Device] = disk[Device], Untouched
  PROVE  HInv' /\ PlainStep
<1>1. UNCHANGED <<source, lock, calls, step, answers>>
  BY DEF Untouched
<1>2. conn[Client] \in Connections
  BY DEF HInv, Sound, DaemonTypes
<1>3. SourceOk'
  BY <1>1, <1>2, OwnKept DEF HInv
<1>4. PlainStep
  BY <1>1, PlainStutter
<1>5. QED
  BY <1>3, <1>4 DEF HInv

LEMMA ServesOthersStep ==
  ASSUME HInv, NEW c \in Conns, ServesOthers(c)
  PROVE  HInv' /\ PlainStep
<1>1. Untouched /\ UNCHANGED <<granted, asked>> /\ Sound
  BY DEF ServesOthers, HInv
<1>2. CASE Dispatch(c)
  <2>1. CASE c = Client
    BY <1>1, <1>2, <2>1, DispatchedStep
  <2>2. CASE c # Client
    <3>1. Sound' /\ conn'[Client] = conn[Client] /\ disk'[Device] = disk[Device]
      BY <1>1, <1>2, <2>2, DispatchSound
    <3>2. QED
      BY <1>1, <3>1, OwnUntouched DEF Follows
  <2>3. QED
    BY <2>1, <2>2
<1>3. CASE Accept(c)
  <2>1. /\ Sound' /\ \A d \in Conns : d # c => conn'[d] = conn[d]
        /\ conn[c].server = "accepted" /\ conn'[c] \in {Serving(conn[c]), Ended(conn[c])}
        /\ disk' = disk
    BY <1>1, <1>3, AcceptSound
  <2>2. Follows(conn'[Client], conn[Client])
    BY <2>1 DEF Follows
  <2>3. QED
    BY <1>1, <2>1, <2>2, OwnUntouched
<1>4. CASE Hangup(c)
  <2>1. /\ Sound' /\ \A d \in Conns : d # c => conn'[d] = conn[d]
        /\ conn'[c] = Ended(conn[c]) /\ disk' = disk
    BY <1>1, <1>4, HangupSound
  <2>2. Follows(conn'[Client], conn[Client])
    BY <2>1 DEF Follows
  <2>3. QED
    BY <1>1, <2>1, <2>2, OwnUntouched
<1>5. CASE Reply(c)
  <2>1. /\ Sound' /\ \A d \in Conns : d # c => conn'[d] = conn[d]
        /\ conn[c].server = "replying" /\ conn'[c] \in {Replied(conn[c]), Ended(conn[c])}
        /\ disk' = disk
    BY <1>1, <1>5, ReplySound
  <2>2. Follows(conn'[Client], conn[Client])
    BY <2>1 DEF Follows
  <2>3. QED
    BY <1>1, <2>1, <2>2, OwnUntouched
<1>6. CASE c \in Others /\ Transfer(c)
  <2>1. Sound' /\ conn'[Client] = conn[Client] /\ disk'[Device] = disk[Device]
    BY <1>1, <1>6, TransferSound DEF Others
  <2>2. QED
    BY <1>1, <2>1, OwnUntouched DEF Follows
<1>7. QED
  BY <1>2, <1>3, <1>4, <1>5, <1>6 DEF ServesOthers

LEMMA OtherClientStep ==
  ASSUME HInv, NEW c \in Others, OtherSends(c) \/ OtherHears(c) \/ OtherLeaves(c)
  PROVE  HInv' /\ PlainStep
<1>1. Untouched /\ Sound /\ c # Client
  BY DEF OtherSends, OtherHears, OtherLeaves, HInv, Others
<1>2. Sound' /\ (\A d \in Conns : d # c => conn'[d] = conn[d]) /\ disk' = disk
  BY <1>1, OtherSendsSound, OtherHearsSound, OtherLeavesSound
<1>3. Follows(conn'[Client], conn[Client])
  BY <1>1, <1>2 DEF Follows
<1>4. QED
  BY <1>1, <1>2, <1>3, OwnUntouched

LEMMA DaemonDiesStep ==
  ASSUME HInv, DaemonDies
  PROVE  HInv' /\ PlainStep
<1>1. Die /\ Untouched /\ UNCHANGED <<granted, asked>> /\ Sound
  BY DEF DaemonDies, HInv
<1>2. Sound' /\ conn'[Client] \in {conn[Client], Ended(conn[Client])} /\ disk' = disk
  BY <1>1, DieSound
<1>3. QED
  BY <1>1, <1>2, OwnUntouched DEF Follows

-----------------------------------------------------------------------------
(* The theorems. *)

LEMMA InitSound ==
  ASSUME HInit
  PROVE  HInv /\ Plain!Init
<1>1. /\ conn = [c \in Conns |-> NewConn] /\ granted = [c \in Others |-> <<>>]
      /\ asked = [c \in Others |-> <<>>] /\ daemon = "up" /\ SInit
      /\ disk \in [Devices -> Seq(Bytes)]
  BY OthersAssumption DEF HInit
<1>2. DaemonTypes
  BY <1>1, NewConnIs DEF DaemonTypes
<1>3. HistoryTypes
  <2>1. <<>> \in Seq(Requests) /\ DOMAIN <<>> \subseteq Nat
    OBVIOUS
  <2>2. QED
    BY <1>1, <2>1 DEF HistoryTypes
<1>4. OthersOk
  <2>1. OtherOk(NewConn, <<>>, <<>>)
    BY NewConnIs, OtherNew
  <2>2. QED
    BY <1>1, <2>1 DEF OthersOk, Others
<1>5. /\ source = Unopened /\ lock = NoThread /\ calls = [t \in Threads |-> NoCall]
      /\ step = [t \in Threads |-> Step("idle")] /\ answers = [t \in Threads |-> Failure]
  BY <1>1 DEF SInit
<1>6. Unopened \in Sources /\ Unopened.via = "none"
  BY DEF Unopened, Source, Sources
<1>7. SourceTypes
  BY <1>5, <1>6, SteppedTypes, AnswersMade DEF SourceTypes, Calls, Answers
<1>8. ThreadsOk
  BY <1>5 DEF ThreadsOk, ThreadOk, Step
<1>9. ClientOk
  <2>1. conn[Client] = NewConn
    BY <1>1
  <2>2. Quiet(conn[Client])
    BY <2>1, NewConnIs DEF Quiet
  <2>3. QED
    BY <1>5, <1>6, <2>2 DEF ClientOk, Ready
<1>10. Plain!Init
  BY <1>1, <1>5 DEF Plain!Init, Plain!NoCall, NoCall, Plain!Failure, Failure
<1>11. QED
  BY <1>2, <1>3, <1>4, <1>7, <1>8, <1>9, <1>10 DEF HInv, Sound, SourceOk

LEMMA NextSound ==
  ASSUME HInv, [HNext]_hvars
  PROVE  HInv' /\ PlainStep
<1>1. CASE UNCHANGED hvars
  <2>1. UNCHANGED <<daemon, conn, disk, source, lock, calls, step, answers, left, granted, asked>>
    BY <1>1 DEF hvars, daemonvars, sourcevars
  <2>2. Sound'
    BY <2>1, UnmovedSound DEF HInv, Sound, DaemonTypes
  <2>3. QED
    BY <2>1, <2>2, OwnUntouched DEF Follows, Untouched
<1>2. CASE SNext /\ UNCHANGED <<granted, asked>>
  <2>1. CASE OpenDevice \/ Handshake \/ Drop \/ Serve
    BY <1>2, <2>1, OpenDeviceStep, HandshakeStep, DropStep, ServeStep
  <2>2. CASE \E t \in Threads : Call(t) \/ Works(t)
    <3>1. PICK t \in Threads : Call(t) \/ Works(t)
      BY <2>2
    <3>2. CASE Call(t) \/ Check(t)
      BY <1>2, <3>2, CallStep, CheckStep
    <3>3. CASE DiskRead(t) \/ DiskHasRead(t) \/ DiskWrite(t) \/ DiskHasWritten(t)
      BY <1>2, <3>3, DiskReadStep, DiskHasReadStep, DiskWriteStep, DiskHasWrittenStep
    <3>4. CASE Ask(t) \/ Hear(t) \/ Disconnected(t)
      BY <1>2, <3>4, AskStep, HearStep, DisconnectedStep
    <3>5. QED
      BY <3>1, <3>2, <3>3, <3>4 DEF Works
  <2>3. QED
    BY <1>2, <2>1, <2>2 DEF SNext
<1>3. CASE \E c \in Conns : ServesOthers(c)
  BY <1>3, ServesOthersStep
<1>4. CASE \E c \in Others : OtherSends(c) \/ OtherHears(c) \/ OtherLeaves(c)
  BY <1>4, OtherClientStep
<1>5. CASE DaemonDies
  BY <1>5, DaemonDiesStep
<1>6. QED
  BY <1>1, <1>2, <1>3, <1>4, <1>5 DEF HNext

\* In every state that the daemon (helper/src/main.rs), its clients and the
\* source (core/src/source/align.rs, helper.rs) can reach, the invariant holds:
\* each client is owed exactly the handles and replies it waits for, the lock
\* pairs the one request on the source's connection with its reply, and each
\* thread's effect so far is what the daemon or the disk did for it.
THEOREM HelperInvariant == HSpec => []HInv
<1>1. HInit => HInv
  BY InitSound
<1>2. HInv /\ [HNext]_hvars => HInv'
  BY NextSound
<1>3. QED
  BY <1>1, <1>2, PTL DEF HSpec

\* A handle is the device its client opened it for as long as the connection is
\* served, closed slots are given out again without disturbing the others, and a
\* table stays within MAX_HANDLES (helper/src/main.rs:146-155).
THEOREM HandlesHold == HSpec => []HandlesNameTheirDevice
<1>1. HInv => HandlesNameTheirDevice
  <2>1. SUFFICES ASSUME HInv PROVE HandlesNameTheirDevice
    OBVIOUS
  <2>2. ASSUME NEW c \in Conns PROVE Len(conn[c].table) <= MaxHandles
    <3>1. conn[c] \in Connections
      BY <2>1 DEF HInv, Sound, DaemonTypes
    <3>2. QED
      BY <3>1, ConnectionIs
  <2>3. ASSUME NEW c \in Others, conn[c].server \in {"serving", "replying"}, NEW h \in DOMAIN granted[c]
        PROVE  h < Len(conn[c].table) /\ conn[c].table[h + 1] = granted[c][h]
    <3>1. Held(conn[c].table, granted[c])
      BY <2>1, <2>3 DEF HInv, Sound, OthersOk, OtherOk, Promised
    <3>2. QED
      BY <3>1 DEF Held, Names
  <2>4. ASSUME source.via = "helper", conn[Client].server \in {"serving", "replying"}
        PROVE  conn[Client].table[source.handle + 1] = Handle(Device, source.writable)
    BY <2>1, <2>4 DEF HInv, SourceOk, ClientOk, Serves, Names
  <2>5. QED
    BY <2>2, <2>3, <2>4 DEF HandlesNameTheirDevice
<1>2. QED
  BY <1>1, HelperInvariant, PTL

\* Under the source, whole sectors are read, patched and written back by system
\* calls that may move less than they were asked for, with those of other threads
\* in between; requests and replies cross a socket, other clients come and go and
\* the daemon may die.  Its threads see a plain device (source/mod.rs:34-50): every
\* step is a step of PlainDevice or changes nothing of it.
THEOREM DeviceImplemented == HSpec => BehavesAsADevice
<1>1. HInit => Plain!Init
  BY InitSound
<1>2. HInv /\ [HNext]_hvars => [Plain!Next]_<<disk[Device], calls, answers>>
  BY NextSound DEF PlainStep
<1>3. QED
  BY <1>1, <1>2, HelperInvariant, PTL DEF HSpec, BehavesAsADevice, Plain!Spec
=============================================================================
