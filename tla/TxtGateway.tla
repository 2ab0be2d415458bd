----------------------------- MODULE TxtGateway ------------------------------
(***************************************************************************)
(* The gateway program: its main loop, the camera, the motion detection,   *)
(* the environment sensor and the receive thread of the MQTT library, over *)
(* one client with a lock.  A publication waits for the broker with the    *)
(* lock held; the acknowledgement comes through the receive thread, which  *)
(* also runs the callbacks: subscribing after a connection, and the        *)
(* commands to the NFC reader, whose outcome the main loop publishes.  A   *)
(* publication that is not acknowledged in time ends the whole program.    *)
(***************************************************************************)
EXTENDS Integers, FiniteSets

CONSTANTS Cmds,         \* commands to the reader
          Clients,      \* who commands the reader: through the cloud and locally
          MaxCmds, MaxLosses, MaxSwitches   \* bounds: commands, lost links, camera switches

None == "none"
Remote == "remote"
Threads == {"main", "cam", "motion", "env"}
Outcomes == {"NFC_NONE", "NFC_ERROR", "NFC_READ_UID", "NFC_READ", "NFC_DELETE", "NFC_WRITE", "NFC_WRITE_ERROR"}
AllCmds == {"read_uid", "read", "write", "delete"}
ASSUME GatewayConstants == Cmds \subseteq AllCmds /\ Clients \subseteq {Remote, "local"}
Contents == {"blank", "old", "new", "torn"}   \* torn: only some of the pages written

VARIABLES pc,           \* where each thread is
          lock,         \* who holds the lock of the client
          camLock,      \* who holds the lock of the camera
          leaked,       \* who will hold it for ever
          token,        \* the publication under the lock: out, acknowledged or failed
          link, subscribed, firstSubscribe,
          rx, job,      \* receive thread: idle, in connected, or at the reader with a command
                        \* it has not begun (nfc) or has (reading)
          doGrab, camOnSeen,
          opened, lastCmd, nfcData, nfcRemote,   \* reader: device open, lastCmd, nfcData, topic of answers
          tag,          \* contents of the tag at the reader
          asked,        \* history: the answer to the last command, while it may still come
          cmds, losses, switches
locks == <<lock, camLock, leaked, token>>
net == <<link, subscribed, firstSubscribe, job>>
camera == <<doGrab, camOnSeen>>
reader == <<opened, lastCmd, nfcData, nfcRemote, tag, asked>>
bounds == <<cmds, losses, switches>>
gatewayVars == <<pc, locks, net, rx, camera, reader, bounds>>

Waits == {"broadcast_wait", "ldr_wait", "nfc_wait", "cam_wait", "alert_wait", "env_wait"}
Places == Waits \cup {"connect", "open", "await", "subscribe", "idle", "broadcast", "ldr", "nfc",
                      "cam", "encode", "alert", "env", "end"}
Commands == [client : Clients, cmd : Cmds]
NoJob == [client |-> None, cmd |-> None]
Answers == [client : Clients, says : Contents \cup {None}]
NoAnswer == [client |-> None, says |-> None]
GatewayTypeOK ==
  /\ pc \in [Threads -> Places]
  /\ lock \in Threads \cup {None} /\ camLock \in {"cam", None} /\ leaked \in {"cam", "motion", None}
  /\ token \in {None, "out", "acked", "failed"} /\ link \in {"down", "up"}
  /\ rx \in {"idle", "connected", "nfc", "reading", "end"} /\ job \in Commands \cup {NoJob}
  /\ lastCmd \in Outcomes /\ nfcData \in Contents \cup {None}
  /\ asked \in Answers \cup {NoAnswer}

GatewayInit ==
  /\ pc = [t \in Threads |-> CASE t = "main" -> "connect" [] t = "env" -> "env" [] OTHER -> "idle"]
  /\ lock = None /\ camLock = None /\ leaked = None /\ token = None
  /\ link = "down" /\ subscribed = FALSE /\ firstSubscribe = FALSE
  /\ rx = "idle" /\ job = NoJob
  /\ doGrab = FALSE /\ camOnSeen = FALSE
  /\ opened = FALSE /\ lastCmd = "NFC_NONE" /\ nfcData = None /\ nfcRemote = TRUE
  /\ tag = "old" /\ asked = NoAnswer
  /\ cmds = 0 /\ losses = 0 /\ switches = 0

-----------------------------------------------------------------------------
(* The client: publishing, and what the broker and the link do.            *)

Goto(t, p) == pc' = [pc EXCEPT ![t] = p]
\* A publisher takes the lock and waits; without a link the library throws.
Publish(t, at, wait, next) ==
  /\ pc[t] = at /\ lock = None
  /\ IF link = "up" THEN lock' = t /\ token' = "out" /\ Goto(t, wait)
     ELSE UNCHANGED <<lock, token>> /\ Goto(t, next)
\* The wait is over: the publication is acknowledged, or it failed and the
\* library throws.  Either way the publisher gives the lock back.
Published(t, wait, next) ==
  /\ pc[t] = wait /\ lock = t /\ token \in {"acked", "failed"}
  /\ lock' = None /\ token' = None /\ Goto(t, next)

\* The end of the program, with all its threads and its connection.
Exit ==
  /\ pc' = [t \in Threads |-> "end"] /\ rx' = "end" /\ link' = "down"
  /\ lock' = None /\ camLock' = None /\ leaked' = None /\ token' = None
  /\ UNCHANGED <<subscribed, firstSubscribe, job, camera, reader, losses, switches>>
\* FORCE_EXIT_ON_TIMEOUT: a publication not acknowledged in time ends the
\* program.  A slip would be to go on waiting.
WaitsOn == FALSE /\ Exit /\ UNCHANGED cmds
Timeout == token = "out" /\ Exit /\ UNCHANGED cmds

\* A picture goes out with QoS 0: it needs no acknowledgement.
Acknowledge ==
  /\ token = "out" /\ link = "up" /\ (rx = "idle" \/ lock = "cam")
  /\ token' = "acked"
  /\ UNCHANGED <<pc, lock, camLock, leaked, net, rx, camera, reader, bounds>>
\* The library connects, and reconnects, by itself; connected runs in the receive thread.
Connect ==
  /\ link = "down" /\ rx = "idle" /\ link' = "up" /\ rx' = "connected"
  /\ UNCHANGED <<pc, locks, subscribed, firstSubscribe, job, camera, reader, bounds>>
Lose ==
  /\ link = "up" /\ losses < MaxLosses /\ losses' = losses + 1
  /\ link' = "down" /\ subscribed' = FALSE
  /\ token' \in {token} \cup (IF token = "out" THEN {"failed"} ELSE {})
  /\ UNCHANGED <<pc, lock, camLock, leaked, firstSubscribe, job, rx, camera, reader, cmds, switches>>
\* start_consume: the lock first; without a link the library throws.
StartConsume ==
  /\ rx = "connected" /\ lock = None
  /\ subscribed' = (link = "up") /\ firstSubscribe' = TRUE /\ rx' = "idle"
  /\ UNCHANGED <<pc, locks, link, job, camera, reader, bounds>>

-----------------------------------------------------------------------------
(* The main loop.                                                          *)

\* Without a connection main returns; then it opens the reader and spins
\* until it has seen the link up and the topics subscribed.
Start ==
  \/ pc["main"] = "connect" /\ link = "down" /\ Exit /\ UNCHANGED cmds
  \/ /\ \/ pc["main"] = "connect" /\ link = "up" /\ Goto("main", "open") /\ UNCHANGED opened
        \/ pc["main"] = "open" /\ Goto("main", "await") /\ opened' \in BOOLEAN
        \/ pc["main"] = "await" /\ link = "up" /\ Goto("main", "subscribe") /\ UNCHANGED opened
        \/ pc["main"] = "subscribe" /\ firstSubscribe /\ Goto("main", "broadcast") /\ UNCHANGED opened
     /\ UNCHANGED <<locks, net, rx, camera, lastCmd, nfcData, nfcRemote, tag, asked, bounds>>
Attached == pc["main"] \notin {"connect", "open", "await", "subscribe", "end"}

Quiet == UNCHANGED <<camLock, leaked, net, rx, camera, bounds>>
Broadcast ==
  /\ \/ ~camOnSeen /\ Publish("main", "broadcast", "broadcast_wait", "ldr")
     \/ Published("main", "broadcast_wait", "ldr")
     \/ pc["main"] = "broadcast" /\ camOnSeen /\ Goto("main", "ldr") /\ UNCHANGED <<lock, token>>
  /\ Quiet /\ UNCHANGED reader
\* The brightness, when its period is over.
Ldr ==
  /\ \/ Publish("main", "ldr", "ldr_wait", "nfc")
     \/ Published("main", "ldr_wait", "nfc")
     \/ pc["main"] = "ldr" /\ Goto("main", "nfc") /\ UNCHANGED <<lock, token>>
  /\ Quiet /\ UNCHANGED reader

\* The answer: what nfcData holds and the topic of the last command, both as
\* they are now; clients take turns, so that neither changes while it waits
\* for the lock.  Without a link it is lost.
Answer == [client |-> IF nfcRemote THEN Remote ELSE "local", says |-> nfcData]
\* The outcomes the loop looks for; a slip would be to forget one.
ToldButWriting == Outcomes \ {"NFC_NONE", "NFC_WRITE_ERROR"}
Told == Outcomes \ {"NFC_NONE"}
Nfc ==
  /\ \/ /\ lastCmd \in Told /\ Publish("main", "nfc", "nfc_wait", "broadcast")
        /\ asked' = NoAnswer
        /\ lastCmd' = IF link = "up" THEN lastCmd ELSE "NFC_NONE"
     \/ \* Only now it is cleared, and lost if the reader has written it meanwhile.
        Published("main", "nfc_wait", "broadcast") /\ lastCmd' = "NFC_NONE" /\ asked' = NoAnswer
     \/ /\ pc["main"] = "nfc" /\ lastCmd \notin Told /\ Goto("main", "broadcast")
        /\ UNCHANGED <<lock, token, lastCmd, asked>>
  /\ Quiet /\ UNCHANGED <<opened, nfcData, nfcRemote, tag>>
Main == Start \/ Broadcast \/ Ldr \/ Nfc

-----------------------------------------------------------------------------
(* The other threads.  Their observers are attached before the main loop.  *)

Others == UNCHANGED <<net, rx, camera, reader, bounds>>
CameraFree(t) == camLock = None /\ leaked \in {None, t}
\* Taking a picture as text; an exception in the encoder leaves the lock of
\* the camera, which is recursive, with the thread.
Encode(t, ok) == leaked' = IF ok THEN leaked ELSE t
\* The camera keeps its own lock while it publishes.
\* When the library throws it gives that up, too; a slip would be to keep it.
CamKept == UNCHANGED camLock
GiveUp == camLock' = IF link = "up" THEN camLock ELSE None
Cam ==
  /\ \/ /\ pc["cam"] = "idle" /\ doGrab /\ Attached /\ CameraFree("cam")
        /\ \E ok \in BOOLEAN : /\ Encode("cam", ok)
                               /\ camLock' = IF ok THEN "cam" ELSE None
                               /\ Goto("cam", IF ok THEN "cam" ELSE "idle")
        /\ UNCHANGED <<lock, token>>
     \/ /\ Publish("cam", "cam", "cam_wait", "idle") /\ UNCHANGED leaked
        /\ GiveUp
     \/ Published("cam", "cam_wait", "idle") /\ camLock' = None /\ UNCHANGED leaked
  /\ Others
\* The motion detection takes a frame, and on a motion the picture once more.
Motion ==
  /\ \/ /\ pc["motion"] = "idle" /\ Attached /\ CameraFree("motion")
        /\ Goto("motion", "encode") /\ UNCHANGED <<lock, token, leaked>>
     \/ /\ pc["motion"] = "encode" /\ CameraFree("motion")
        /\ \E ok \in BOOLEAN : Encode("motion", ok) /\ Goto("motion", IF ok THEN "alert" ELSE "idle")
        /\ UNCHANGED <<lock, token>>
     \/ Publish("motion", "alert", "alert_wait", "idle") /\ UNCHANGED leaked
     \/ Published("motion", "alert_wait", "idle") /\ UNCHANGED leaked
  /\ UNCHANGED camLock /\ Others
\* The environment sensor publishes its values when the period is over, and an
\* alert when it is too cold or too wet: none, or one after the other.
Env ==
  /\ \/ Attached /\ Publish("env", "env", "env_wait", "env")
     \/ Published("env", "env_wait", "env")
  /\ UNCHANGED <<camLock, leaked>> /\ Others

-----------------------------------------------------------------------------
(* The callback for messages.                                              *)

Receiving == rx = "idle" /\ link = "up" /\ subscribed
\* c/cam: the camera is switched on or off.
SwitchCamera ==
  /\ Receiving /\ switches < MaxSwitches /\ switches' = switches + 1
  /\ \E on \in BOOLEAN : doGrab' = on /\ camOnSeen' = (camOnSeen \/ on)
  /\ UNCHANGED <<pc, locks, net, rx, reader, cmds, losses>>

\* Clients take turns: a command comes when the answer to the one before has
\* been published, or is not coming any more.
Brought == asked = NoAnswer
\* A command for the reader: the topic of the answers changes even if the
\* command is out of date or unknown.  A slip would be never to go back to
\* the local topic.
TopicOnce(client) == nfcRemote' = (nfcRemote \/ client = Remote)
Topic(client) == nfcRemote' = (client = Remote)
NfcCommand ==
  /\ Receiving /\ Brought /\ cmds < MaxCmds /\ cmds' = cmds + 1
  /\ \E c \in Commands, fresh \in BOOLEAN :
       IF fresh /\ pc["main"] \in {"connect", "open"}
       THEN Exit   \* through pNfc, which is still NULL
       ELSE /\ Topic(c.client)
            /\ IF fresh THEN rx' = "nfc" /\ job' = c ELSE UNCHANGED <<rx, job>>
            /\ UNCHANGED <<pc, locks, link, subscribed, firstSubscribe, camera, opened, lastCmd,
                          nfcData, tag, asked, losses, switches>>
\* The reader begins: it deletes the data of the last command.
NfcBegin ==
  /\ rx = "nfc" /\ rx' = "reading" /\ nfcData' = None
  /\ UNCHANGED <<pc, locks, net, camera, opened, lastCmd, nfcRemote, tag, asked, bounds>>

\* What a command may come to, with tag t at the reader: it fails when the
\* reader does not see the tag, or cannot read it or write its first page;
\* when it cannot write a later page it takes that for a success.  Reading
\* the UID does not read the rest.
Result(outcome, data, t) == [outcome |-> outcome, data |-> data, tag |-> t]
Failed(cmd) == IF cmd = "write" THEN "NFC_WRITE_ERROR" ELSE "NFC_ERROR"
Results(cmd, t) ==
  {Result(Failed(cmd), None, t)} \cup
  CASE cmd = "read_uid" -> {Result("NFC_READ_UID", "blank", t)}
    [] cmd = "read" -> {Result("NFC_READ", t, t)}
    [] cmd = "write" -> {Result("NFC_WRITE", "new", x) : x \in {"new", "torn"}}
    [] OTHER -> {Result("NFC_DELETE", "blank", x) : x \in {"blank", "torn"}}
\* The reader is done.  One that cannot be opened leaves no outcome.
NfcDone ==
  /\ rx = "reading" /\ rx' = "idle" /\ job' = NoJob
  /\ \/ /\ opened' = TRUE
        /\ \E r \in Results(job.cmd, tag) :
             /\ nfcData' = r.data /\ lastCmd' = r.outcome /\ tag' = r.tag
             /\ asked' = [client |-> job.client, says |-> r.data]
     \/ ~opened /\ UNCHANGED <<opened, nfcData, lastCmd, tag, asked>>
  /\ UNCHANGED <<pc, locks, link, subscribed, firstSubscribe, camera, nfcRemote, bounds>>

-----------------------------------------------------------------------------
Callback == StartConsume \/ NfcBegin \/ NfcDone
GatewayNext == \/ Acknowledge \/ Timeout \/ Connect \/ Lose \/ Main \/ Cam \/ Motion \/ Env
               \/ Callback \/ SwitchCamera \/ NfcCommand
\* Threads sleep between two publications, so that each one that waits for
\* the lock gets it in the end; every wait has its timeout.
GatewaySpec == /\ GatewayInit /\ [][GatewayNext]_gatewayVars
               /\ SF_gatewayVars(Main) /\ SF_gatewayVars(Cam) /\ SF_gatewayVars(Motion)
               /\ SF_gatewayVars(StartConsume) /\ WF_gatewayVars(NfcBegin \/ NfcDone)
               /\ WF_gatewayVars(Env) /\ WF_gatewayVars(Connect) /\ WF_gatewayVars(Timeout)

-----------------------------------------------------------------------------
(* An answer says what the reader reported of the command and goes to the  *)
(* client that gave it, although it is put together later, by another      *)
(* thread, from the data and the topic as they are then, and although the  *)
(* next command may be at the reader before the outcome is cleared.        *)
AnswersRight == [][(pc["main"] = "nfc" /\ pc'["main"] = "nfc_wait") => Answer = asked]_gatewayVars

(* Every outcome that the loop does not clear (main.cpp 752) in the answer *)
(* before is published, unless the link is lost or the program ends: the   *)
(* loop publishes other things first, and each of them can end it.         *)
OutcomesAnswered ==
  (lastCmd # "NFC_NONE" /\ pc["main"] # "nfc_wait") ~> (pc["main"] = "nfc_wait" \/ link = "down")

(* After every connection the topics are subscribed, or the program ends:  *)
(* a publication that a reconnect interrupts keeps the lock that           *)
(* subscribing needs, while the thread that would take its acknowledgement *)
(* waits for that lock, and only the timeout ends that.                    *)
Resubscribes == rx = "connected" ~> (subscribed \/ link = "down")

(* The motion detection gets its frames and pictures while the program     *)
(* runs, although the camera keeps its lock while it waits for the broker, *)
(* unless the camera has left its lock locked in a failed encoding.        *)
MotionServed == \A p \in {"idle", "encode"} : (Attached /\ pc["motion"] = p) ~> (pc["motion"] # p \/ leaked = "cam")
=============================================================================
