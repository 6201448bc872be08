---------------------------- MODULE HelperHistory ----------------------------
(***************************************************************************)
(* The source, the daemon and other clients of the daemon: programs of the *)
(* same user that speak the protocol themselves, several requests at a     *)
(* time, and some that send garbage or leave.                              *)
(***************************************************************************)
EXTENDS DeviceSource

CONSTANTS
  OwnDevices,   \* the nodes the other clients open
  Scenes        \* bound: what the devices hold at first, and what is left to do

\* The device is not shared with other programs that write it.
ASSUME OthersAssumption ==
  /\ OwnDevices \subseteq Devices \ {Device} /\ Strays \cap Devices = {}
  /\ \A scene \in Scenes : scene.disk \in [Devices -> Seq(Bytes)]

VARIABLES
  granted,      \* history: handle -> what it was opened for, as each client knows
  asked         \* history: the requests each of them waits for, in their order
hvars == <<daemonvars, sourcevars, granted, asked>>

Others == Conns \ {Client}

HInit ==
  /\ daemon = "up"
  /\ conn = [c \in Conns |-> NewConn]
  /\ \E scene \in Scenes : disk = scene.disk /\ left = scene.left
  /\ SInit
  /\ granted = [c \in Others |-> <<>>]
  /\ asked = [c \in Others |-> <<>>]

OtherRequests(c) ==
  {OpenRequest(path, writable) : path \in OwnDevices \cup Strays, writable \in BOOLEAN}
    \cup {ReadRequest(0, 0, n) : n \in {1, MaxChunk + 1}}
    \cup {WriteRequest(h, 0, <<NewByte>>) : h \in 0 .. MaxHandles}
    \cup {CloseRequest(h) : h \in DOMAIN granted[c]}
    \cup {Malformed}

Untouched == UNCHANGED <<source, lock, calls, step, answers>>

\* Requests are sent without waiting for the replies of those before.
OtherSends(c) ==
  /\ Spend("requests")
  /\ \E req \in OtherRequests(c) :
       /\ asked' = [asked EXCEPT ![c] = Append(@, req)]
       /\ granted' = IF req.type # "close" THEN granted
                     ELSE [granted EXCEPT ![c] = [h \in DOMAIN @ \ {req.handle} |-> @[h]]]
       /\ \/ /\ conn[c].client = "none"
             /\ \E allowed \in BOOLEAN : conn' = Connected(c, allowed, req)
          \/ conn[c].client = "here" /\ conn' = Sent(c, req)
  /\ UNCHANGED <<daemon, disk>> /\ Untouched

\* Replies come in the order of the requests.
OtherHears(c) ==
  /\ conn[c].client = "here" /\ HasReply(c)
  /\ LET reply == Head(conn[c].outbox)
         req == Head(asked[c])
     IN  granted' = IF reply.type # "opened" THEN granted
                    ELSE [granted EXCEPT ![c] =
                            [h \in DOMAIN @ \cup {reply.handle} |->
                               IF h = reply.handle THEN Handle(req.path, req.writable) ELSE @[h]]]
  /\ asked' = [asked EXCEPT ![c] = Tail(@)]
  /\ conn' = Received(c)
  /\ UNCHANGED <<daemon, disk, left>> /\ Untouched

OtherLeaves(c) ==
  /\ conn[c].client = "here"
  /\ conn' = [conn EXCEPT ![c].client = "gone"]
  /\ UNCHANGED <<daemon, disk, left, granted, asked>> /\ Untouched

DaemonDies == Die /\ Spend("deaths") /\ Untouched /\ UNCHANGED <<granted, asked>>

\* The bytes moved for the source's requests have an effect on its threads'
\* calls (Serve); the rest of the daemon has none.
ServesOthers(c) ==
  /\ Accept(c) \/ Hangup(c) \/ Dispatch(c) \/ Reply(c) \/ (c \in Others /\ Transfer(c))
  /\ Untouched /\ UNCHANGED <<left, granted, asked>>

HNext ==
  \/ SNext /\ UNCHANGED <<granted, asked>>
  \/ \E c \in Conns : ServesOthers(c)
  \/ \E c \in Others : OtherSends(c) \/ OtherHears(c) \/ OtherLeaves(c)
  \/ DaemonDies

HSpec == HInit /\ [][HNext]_hvars

\* Every thread goes on running, those of the daemon too.
FairHSpec ==
  /\ HSpec
  /\ WF_hvars(Handshake /\ UNCHANGED <<granted, asked>>)
  /\ \A c \in Conns :
       WF_hvars(ServesOthers(c) \/ (c = Client /\ Serve /\ UNCHANGED <<granted, asked>>))
  /\ \A t \in Threads : WF_hvars(Works(t) /\ UNCHANGED <<granted, asked>>)

-----------------------------------------------------------------------------
\* As long as a connection is served, each handle its client holds stands for
\* what the client opened it for, no two clients share one, and the table never
\* grows past its cap, however handles are closed and given out again
\* (helper/src/main.rs:146-155).
HandlesNameTheirDevice ==
  /\ \A c \in Conns : Len(conn[c].table) <= MaxHandles
  /\ \A c \in Others : conn[c].server \in {"serving", "replying"} =>
       \A h \in DOMAIN granted[c] : h < Len(conn[c].table) /\ conn[c].table[h + 1] = granted[c][h]
  /\ source.via = "helper" /\ conn[Client].server \in {"serving", "replying"} =>
       conn[Client].table[source.handle + 1] = Handle(Device, source.writable)

\* Seen by its threads a source is a plain device, whether it opens the node or
\* asks the daemon: whole sectors, short reads and writes with those of others in
\* between, requests, replies and the death of the daemon do not show, and a write
\* that fails anywhere has changed none but its own bytes (source/mod.rs:34-50,
\* align.rs:41-66).
Plain == INSTANCE PlainDevice WITH content <- disk[Device]
BehavesAsADevice == Plain!Spec

\* Every call returns, with an error at worst, and so does opening: no request
\* is left without a reply on a connection that stays (helper.rs:66-70).
CallsReturn ==
  /\ \A t \in Threads : calls[t] # NoCall ~> calls[t] = NoCall
  /\ source.via = "opening" ~> source.via # "opening"
=============================================================================
