------------------------------- MODULE Capture -------------------------------
(***************************************************************************)
(* Frames captured by a helper application and shown in the game: the      *)
(* helper's threads (tools/capture-helper, CaptureService.java) write      *)
(* headers and pixels to a socket, a session thread of the capture service *)
(* (android/CaptureService.cpp) reads them, acknowledges each frame and    *)
(* gives it to the sink (HudRenderer::onFrameUpdated); an accept thread    *)
(* starts sessions and joins them when the service stops.                  *)
(*                                                                         *)
(* The sockets block: a write waits for room, a read for something to      *)
(* read, and both end when the other side has closed. Icons, which nothing *)
(* sends, are read as frames are. The units of the stream, the promises of *)
(* helpers and what is shown are in CaptureFrames.                         *)
(***************************************************************************)
EXTENDS CaptureFrames, SequencesExt

CONSTANTS
  Capacity,    \* units in flight to the service
  AckCapacity, \* acknowledgements in flight to a helper
  Worlds       \* the sets of promises to consider

ASSUME CaptureAssumption ==
  /\ {Capacity, AckCapacity} \subseteq Nat \ {0}
  /\ Worlds \subseteq SUBSET Promises

VARIABLES
  running,    \* running_
  sink,       \* frameSink_ is set
  accepter,   \* acceptThread_: where it is
  stopper,    \* the thread that enables and disables: where it is
  session,    \* sessions_: where each is, and the pixels it has read
  streaming,  \* helper: streaming
  drawer,     \* helper: where its frame thread is, and the units left to write
  closer,     \* helper: where its connection is in its life
  toMod,      \* units in flight to the service
  acks,       \* acknowledgements in flight to the helper
  texture     \* gTextures: the helper whose frame it last took, or "none"

helperSide == <<streaming, drawer, closer, framesMade>>
service == <<running, sink, accepter, stopper>>
picture == <<shown, texture>>
vars == <<promises, service, session, helperSide, toMod, acks, picture>>

----------------------------------------------------------------------------
(* State.                                                                  *)

Sessions == [pc : {"none", "check", "header", "pixels", "ackHello", "ack",
                   "sink", "closed"}, got : Seq(Unit)]

Closers == {"off", "asked", "consented", "connecting", "hello", "open", "stopping", "said", "closed"}

Connected(h) == closer[h] \in {"hello", "open", "stopping", "said"}

Init ==
  /\ promises \in Worlds
  /\ running = FALSE /\ sink = FALSE
  /\ accepter = "off" /\ stopper = "off"
  /\ session = [h \in Helpers |-> [pc |-> "none", got |-> <<>>]]
  /\ streaming = [h \in Helpers |-> FALSE]
  /\ drawer = [h \in Helpers |-> <<>>]
  /\ closer = [h \in Helpers |-> "off"]
  /\ framesMade = [h \in Helpers |-> 0]
  /\ toMod = [h \in Helpers |-> <<>>]
  /\ acks = [h \in Helpers |-> 0]
  /\ shown = [h \in Helpers |-> <<>>]
  /\ texture = "none"

----------------------------------------------------------------------------
(* The helper.                                                             *)

Becomes(h, place) ==
  /\ closer' = [closer EXCEPT ![h] = place]
  /\ UNCHANGED <<promises, service, session, streaming, drawer, framesMade, toMod,
                 acks, picture>>

\* ConsentActivity: the user is asked before anything else...
AskConsent(h) == closer[h] = "off" /\ Becomes(h, "asked")

\* ... and the service is started when the answer is yes.
StartWithConsent(h) == Becomes(h, "consented")
Answer(h) == closer[h] = "asked" /\ (StartWithConsent(h) \/ Becomes(h, "closed"))

\* The thread onStartCommand starts connects, or finds nobody listening.
Connect(h) ==
  /\ closer[h] = "consented"
  /\ Becomes(h, IF accepter = "accept" THEN "connecting" ELSE "closed")

\* A write waits for room. Whether the other end has closed is known only
\* after some writes: here, at once.
MayWrite(h) == session[h].pc # "closed" /\ Len(toMod[h]) < Capacity
Write(h, unit) == toMod' = [toMod EXCEPT ![h] = Append(@, unit)]

\* connectAndStream: the display is started before streaming is set.
SendHello(h) ==
  /\ closer[h] = "hello" /\ MayWrite(h)
  /\ Write(h, Header("hello"))
  /\ closer' = [closer EXCEPT ![h] = "open"]
  /\ streaming' = [streaming EXCEPT ![h] = TRUE]
  /\ UNCHANGED <<promises, service, session, drawer, framesMade, acks, picture>>

\* The image listener looks at streaming once a frame.
BeginFrame(h) ==
  /\ streaming[h] /\ drawer[h] = <<>>
  /\ framesMade[h] < MaxFrames
  /\ framesMade' = [framesMade EXCEPT ![h] = @ + 1]
  /\ drawer' = [drawer EXCEPT ![h] =
                  <<Header("frame")>> \o Pixels(framesMade[h] + 1)]
  /\ UNCHANGED <<promises, service, session, streaming, closer, toMod, acks, picture>>

SendUnit(h) ==
  /\ Connected(h) /\ drawer[h] # <<>> /\ MayWrite(h)
  /\ Write(h, Head(drawer[h]))
  /\ drawer' = [drawer EXCEPT ![h] = Tail(@)]
  /\ UNCHANGED <<promises, service, session, streaming, closer, framesMade, acks, picture>>

\* IOException.
SendFails(h) ==
  /\ closer[h] = "closed" \/ session[h].pc = "closed"
  /\ drawer[h] # <<>>
  /\ drawer' = [drawer EXCEPT ![h] = <<>>]
  /\ streaming' = [streaming EXCEPT ![h] = FALSE]
  /\ UNCHANGED <<promises, service, session, closer, framesMade, toMod, acks, picture>>

\* stopStreaming runs on a thread of its own and waits for nobody.
StopStreaming(h) ==
  /\ closer[h] = "open"
  /\ Promised("quietStop") => drawer[h] = <<>>
  /\ closer' = [closer EXCEPT ![h] = "stopping"]
  /\ streaming' = [streaming EXCEPT ![h] = FALSE]
  /\ UNCHANGED <<promises, service, session, drawer, framesMade, toMod, acks, picture>>

SayBye(h) ==
  /\ closer[h] = "stopping"
  /\ \/ MayWrite(h) /\ Write(h, Header("bye"))
     \/ session[h].pc = "closed" /\ UNCHANGED toMod
  /\ closer' = [closer EXCEPT ![h] = "said"]
  /\ UNCHANGED <<promises, service, session, streaming, drawer, framesMade, acks, picture>>

\* A close with unread acknowledgements resets the connection: what is in
\* flight may be lost.
CloseSocket(h) ==
  /\ closer[h] = "said"
  /\ closer' = [closer EXCEPT ![h] = "closed"]
  /\ \/ UNCHANGED toMod
     \/ acks[h] > 0 /\ toMod' = [toMod EXCEPT ![h] = <<>>]
  /\ UNCHANGED <<promises, service, session, streaming, drawer, framesMade, acks, picture>>

\* The process ends, in the middle of a header or elsewhere.
Die(h) ==
  /\ Connected(h)
  /\ \/ UNCHANGED toMod
     \/ ~Promised("wholeHeaders") /\ MayWrite(h) /\ Write(h, Header("torn"))
  /\ closer' = [closer EXCEPT ![h] = "closed"]
  /\ streaming' = [streaming EXCEPT ![h] = FALSE]
  /\ drawer' = [drawer EXCEPT ![h] = <<>>]
  /\ UNCHANGED <<promises, service, session, framesMade, acks, picture>>

\* A helper may read what it is sent; that of the repository never does.
ReadAck(h) ==
  /\ Connected(h) /\ acks[h] > 0
  /\ acks' = [acks EXCEPT ![h] = @ - 1]
  /\ UNCHANGED <<promises, service, session, helperSide, toMod, picture>>

----------------------------------------------------------------------------
(* The service.                                                            *)

Start ==
  /\ stopper = "off"
  /\ running' = TRUE /\ accepter' = "accept" /\ stopper' = "started"
  /\ UNCHANGED <<promises, sink, session, helperSide, toMod, acks, picture>>

\* After start: sessions may have begun. The android mod never sets one.
SetFrameSink ==
  /\ stopper = "started" /\ ~sink
  /\ sink' = TRUE
  /\ UNCHANGED <<promises, running, accepter, stopper, session, helperSide, toMod,
                 acks, picture>>

\* Close does not wake the accept that waits on the descriptor.
BeginStop ==
  /\ stopper = "started"
  /\ running' = FALSE /\ stopper' = "joining"
  /\ UNCHANGED <<promises, sink, accepter, session, helperSide, toMod, acks, picture>>

EndStop ==
  /\ stopper = "joining" /\ accepter = "ended"
  /\ stopper' = "stopped"
  /\ UNCHANGED <<promises, running, sink, accepter, session, helperSide, toMod, acks,
                 picture>>

\* Running_ is looked at between two accepts.
Accept(h) ==
  /\ accepter = "accept" /\ closer[h] = "connecting"
  /\ closer' = [closer EXCEPT ![h] = "hello"]
  /\ session' = [session EXCEPT ![h].pc = "check"]
  /\ accepter' = IF running THEN "accept" ELSE "joining"
  /\ UNCHANGED <<promises, running, sink, stopper, streaming, drawer, framesMade, toMod,
                 acks, picture>>

\* Some process connects after stop: its session sees running_ unset.
Knock ==
  /\ accepter = "accept" /\ ~running
  /\ accepter' = "joining"
  /\ UNCHANGED <<promises, running, sink, stopper, session, helperSide, toMod, acks,
                 picture>>

\* Who still waited to be accepted is refused.
JoinSessions ==
  /\ accepter = "joining"
  /\ \A h \in Helpers : session[h].pc \in {"none", "closed"}
  /\ accepter' = "ended"
  /\ closer' = [h \in Helpers |-> IF closer[h] = "connecting" THEN "closed"
                                  ELSE closer[h]]
  /\ UNCHANGED <<promises, running, sink, stopper, session, streaming, drawer,
                 framesMade, toMod, acks, picture>>

At(h, place) == session[h].pc = place
Goto(h, place) == session' = [session EXCEPT ![h].pc = place]

CheckRunning(h) ==
  /\ At(h, "check")
  /\ Goto(h, IF running THEN "header" ELSE "closed")
  /\ UNCHANGED <<promises, service, helperSide, toMod, acks, picture>>

Take(h) == toMod' = [toMod EXCEPT ![h] = Tail(@)]

\* Where a header leads. What is not one has another magic, and so has one in
\* the other byte order. Of a torn one the fields that came are believed:
\* a frame without pixels, a hello, a bye, or no magic.
Leads(unit) ==
  CASE ~Promised("networkOrder") -> {"closed"}
    [] unit = Header("hello") -> {"ackHello"}
    [] unit = Header("frame") -> {"pixels"}
    [] unit = Header("torn") -> {"ack", "ackHello", "check", "closed"}
    [] OTHER -> {"closed"}

ReadHeader(h) ==
  /\ At(h, "header") /\ toMod[h] # <<>>
  /\ \E place \in Leads(Head(toMod[h])) :
       session' = [session EXCEPT ![h] = [pc |-> place, got |-> <<>>]]
  /\ Take(h)
  /\ UNCHANGED <<promises, service, helperSide, acks, picture>>

\* Wrong variant: what one read gives is taken for the whole.
ReadPixelsOnce(h) ==
  /\ At(h, "pixels") /\ toMod[h] # <<>>
  /\ session' = [session EXCEPT ![h] =
                   [pc |-> "ack", got |-> Append(@.got, Head(toMod[h]))]]
  /\ Take(h)
  /\ UNCHANGED <<promises, service, helperSide, acks, picture>>

ReadPixels(h) ==
  /\ At(h, "pixels") /\ toMod[h] # <<>>
  /\ LET got == Append(session[h].got, Head(toMod[h]))
     IN  session' = [session EXCEPT ![h] =
                       [pc |-> IF Len(got) = PixelUnits THEN "ack" ELSE "pixels",
                        got |-> got]]
  /\ Take(h)
  /\ UNCHANGED <<promises, service, helperSide, acks, picture>>

\* Wrong variant: the end of the stream among pixels is taken for a pause.
ReadFailsBetween(h) ==
  /\ At(h, "header")
  /\ toMod[h] = <<>> /\ closer[h] = "closed"
  /\ Goto(h, "closed")
  /\ UNCHANGED <<promises, service, helperSide, toMod, acks, picture>>

\* Nothing left to read and the helper has closed.
ReadFails(h) ==
  /\ session[h].pc \in {"header", "pixels"}
  /\ toMod[h] = <<>> /\ closer[h] = "closed"
  /\ Goto(h, "closed")
  /\ UNCHANGED <<promises, service, helperSide, toMod, acks, picture>>

\* sendOk waits for room; whether it succeeds is not looked at.
SendOk(h) ==
  /\ session[h].pc \in {"ackHello", "ack"}
  /\ \/ acks[h] < AckCapacity /\ acks' = [acks EXCEPT ![h] = @ + 1]
     \/ closer[h] = "closed" /\ UNCHANGED acks
  /\ Goto(h, IF At(h, "ack") THEN "sink" ELSE "check")
  /\ UNCHANGED <<promises, service, helperSide, toMod, picture>>

\* uploadRgba keeps a texture per payload id, and every helper's frames have
\* the same. It drops the pixels themselves: shown is what it was given.
UploadRgba(h) == texture' = h

\* The mutex lets one session at a time in.
OnFrameUpdated(h) ==
  /\ shown' = [shown EXCEPT ![h] = Append(@, session[h].got)]
  /\ UploadRgba(h)

\* Without a sink the acknowledged frame is dropped.
GiveToSink(h) ==
  /\ At(h, "sink")
  /\ IF sink THEN OnFrameUpdated(h) ELSE UNCHANGED picture
  /\ Goto(h, "check")
  /\ UNCHANGED <<promises, service, helperSide, toMod, acks>>

----------------------------------------------------------------------------
HelperWrites(h) == SendHello(h) \/ SendUnit(h) \/ SendFails(h)
                   \/ SayBye(h) \/ CloseSocket(h)

SessionStep(h) ==
  \/ CheckRunning(h) \/ ReadHeader(h) \/ ReadPixels(h) \/ ReadFails(h)
  \/ SendOk(h) \/ GiveToSink(h)

AcceptStep == JoinSessions \/ \E h \in Helpers : Accept(h)

Next ==
  \/ Start \/ SetFrameSink \/ BeginStop \/ EndStop \/ AcceptStep \/ Knock
  \/ \E h \in Helpers : \/ AskConsent(h) \/ Answer(h) \/ Connect(h)
                        \/ BeginFrame(h) \/ StopStreaming(h) \/ Die(h)
                        \/ HelperWrites(h) \/ ReadAck(h) \/ SessionStep(h)

(***************************************************************************)
(* Threads go on with what does not wait for the other side; no helper has *)
(* to connect, draw, read or end, and nobody to connect after stop().      *)
(***************************************************************************)
Fairness ==
  /\ WF_vars(AcceptStep) /\ WF_vars(EndStop)
  /\ \A h \in Helpers : WF_vars(SessionStep(h)) /\ WF_vars(HelperWrites(h))

Spec == Init /\ [][Next]_vars /\ Fairness

----------------------------------------------------------------------------
(* Properties.                                                             *)

TypeOK ==
  /\ promises \in Worlds
  /\ running \in BOOLEAN /\ sink \in BOOLEAN
  /\ accepter \in {"off", "accept", "joining", "ended"}
  /\ stopper \in {"off", "started", "joining", "stopped"}
  /\ session \in [Helpers -> Sessions]
  /\ streaming \in [Helpers -> BOOLEAN]
  /\ drawer \in [Helpers -> Seq(Unit)]
  /\ closer \in [Helpers -> Closers]
  /\ framesMade \in [Helpers -> 0..MaxFrames]
  /\ toMod \in [Helpers -> Seq(Unit)]
  /\ \A h \in Helpers : Len(toMod[h]) <= Capacity
  /\ acks \in [Helpers -> 0..AckCapacity]
  /\ shown \in [Helpers -> Seq(Seq(Unit))]
  /\ texture \in Helpers \cup {"none"}

(***************************************************************************)
(* The session of a helper that has closed its end, or died, ends: whatever*)
(* it waited for, in a header, among pixels or for room for an answer, and *)
(* whatever was lost on the way. A session that stays is one the accept    *)
(* thread joins, and so stop(), for ever.                                  *)
(***************************************************************************)
SessionsEnd ==
  \A h \in Helpers : closer[h] = "closed" ~> session[h].pc \in {"none", "closed"}

(***************************************************************************)
(* What Mod.cpp:9 says of disable(), "reverse everything cleanly", says of *)
(* the stop() it calls that it returns.                                    *)
(***************************************************************************)
StopReturns == stopper = "joining" ~> stopper = "stopped"
=============================================================================
