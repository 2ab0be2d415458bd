---------------------------- MODULE GatewayProofs ----------------------------
(***************************************************************************)
(* The gateway, for any commands, clients and bounds: the main loop knows  *)
(* every outcome the reader leaves, and what the reader tells is published *)
(* as it was told, to the client that asked.                               *)
(***************************************************************************)
EXTENDS TxtGateway, TLAPS

\* The threads are always where the program has a place for them.
PlacesOK == pc \in [Threads -> Places]

\* How a publisher moves.
LEMMA PublisherMoves ==
  ASSUME NEW t, NEW at, NEW wait, NEW next, Publish(t, at, wait, next) \/ Published(t, wait, next)
  PROVE  Goto(t, wait) \/ Goto(t, next)
BY DEF Publish, Published

LEMMA GotoKeeps ==
  ASSUME PlacesOK, NEW t \in Threads, NEW p \in Places, Goto(t, p)
  PROVE  PlacesOK'
BY DEF PlacesOK, Goto

\* Another thread does not move the main loop.
LEMMA OthersElsewhere ==
  ASSUME PlacesOK, NEW t \in Threads \ {"main"}, NEW p, Goto(t, p)
  PROVE  pc'["main"] = pc["main"]
BY DEF PlacesOK, Goto, Threads

\* What the threads other than the main loop do to its place and the reader's data.
LEMMA OthersLeave ==
  ASSUME PlacesOK, Cam \/ Motion \/ Env
  PROVE  /\ PlacesOK' /\ pc'["main"] = pc["main"]
         /\ UNCHANGED <<rx, job, lastCmd, nfcData, nfcRemote, tag, asked>>
<1>1. UNCHANGED <<rx, job, lastCmd, nfcData, nfcRemote, tag, asked>>
  BY DEF Cam, Motion, Env, Others, net, reader
<1>2. \E t \in Threads \ {"main"} : \E p \in Places : Goto(t, p)
  <2>1. /\ {"cam", "motion", "env"} \subseteq Threads \ {"main"}
        /\ {"cam", "idle", "cam_wait", "encode", "alert", "alert_wait", "env", "env_wait"} \subseteq Places
    BY DEF Threads, Places, Waits
  <2>2. CASE Cam
    BY <2>1, <2>2, PublisherMoves DEF Cam
  <2>3. CASE Motion
    BY <2>1, <2>3, PublisherMoves DEF Motion
  <2>4. CASE Env
    BY <2>1, <2>4, PublisherMoves DEF Env
  <2> QED BY <2>2, <2>3, <2>4
<1> QED BY <1>1, <1>2, GotoKeeps, OthersElsewhere

\* The main loop, where it does not publish an outcome.
LEMMA LoopLeaves ==
  ASSUME PlacesOK, Start \/ Broadcast \/ Ldr
  PROVE  /\ PlacesOK' /\ UNCHANGED <<job, lastCmd, nfcData, nfcRemote, tag, asked>>
         /\ pc["main"] # "nfc_wait" /\ pc'["main"] # "nfc_wait" /\ pc["main"] # "end"
         /\ rx' = rx \/ rx' = "end"
<1>m. "main" \in Threads /\ pc \in [Threads -> Places]
  BY DEF PlacesOK, Threads
<1>p. {"open", "await", "subscribe", "broadcast", "broadcast_wait", "ldr", "ldr_wait", "nfc", "end"} \subseteq Places
  BY DEF Places, Waits
<1>1. CASE Start
  <2>1. CASE pc["main"] = "connect" /\ link = "down" /\ Exit /\ UNCHANGED cmds
    <3>1. pc' = [t \in Threads |-> "end"] /\ rx' = "end" /\ UNCHANGED <<job, lastCmd, nfcData, nfcRemote, tag, asked>>
      BY <2>1 DEF Exit, reader
    <3> QED BY <2>1, <3>1, <1>m, <1>p DEF PlacesOK
  <2>2. CASE /\ \/ pc["main"] = "connect" /\ link = "up" /\ Goto("main", "open") /\ UNCHANGED opened
                \/ pc["main"] = "open" /\ Goto("main", "await") /\ opened' \in BOOLEAN
                \/ pc["main"] = "await" /\ link = "up" /\ Goto("main", "subscribe") /\ UNCHANGED opened
                \/ pc["main"] = "subscribe" /\ firstSubscribe /\ Goto("main", "broadcast") /\ UNCHANGED opened
             /\ UNCHANGED <<locks, net, rx, camera, lastCmd, nfcData, nfcRemote, tag, asked, bounds>>
    <3>1. PlacesOK'
      BY <2>2, <1>m, <1>p, GotoKeeps
    <3> QED BY <2>2, <3>1, <1>m DEF Goto, net
  <2> QED BY <1>1, <2>1, <2>2 DEF Start
<1>2. CASE Broadcast \/ Ldr
  <2>1. UNCHANGED <<rx, job, lastCmd, nfcData, nfcRemote, tag, asked>>
    BY <1>2 DEF Broadcast, Ldr, Quiet, net, reader
  <2>2. \E p \in {"broadcast_wait", "ldr", "ldr_wait", "nfc"} : Goto("main", p)
    BY <1>2, PublisherMoves DEF Broadcast, Ldr
  <2>3. pc["main"] \in {"broadcast", "broadcast_wait", "ldr", "ldr_wait"}
    BY <1>2 DEF Broadcast, Ldr, Publish, Published
  <2> QED BY <2>1, <2>2, <2>3, <1>m, <1>p, GotoKeeps DEF Goto
<1> QED BY <1>1, <1>2

\* The end of the program leaves what the reader has left.
LEMMA ExitLeaves ==
  ASSUME Exit
  PROVE  /\ PlacesOK' /\ pc'["main"] = "end" /\ rx' = "end"
         /\ UNCHANGED <<job, lastCmd, nfcData, nfcRemote, tag, asked>>
BY DEF Exit, reader, PlacesOK, Places, Threads

-----------------------------------------------------------------------------
\* The reader: outcomes and contents stay what they are meant to be.
ReaderOK ==
  /\ lastCmd \in Outcomes /\ nfcData \in Contents \cup {None} /\ tag \in Contents
  /\ rx \in {"idle", "connected", "nfc", "reading", "end"} /\ job \in Commands \cup {NoJob}
  /\ rx \in {"nfc", "reading"} => job \in Commands
  /\ asked \in Answers \cup {NoAnswer}

\* What the reader reports, and leaves on the tag.
LEMMA ResultsKnown ==
  ASSUME NEW cmd, NEW t \in Contents, NEW r \in Results(cmd, t)
  PROVE  r.outcome \in Outcomes /\ r.data \in Contents \cup {None} /\ r.tag \in Contents
BY DEF Results, Result, Failed, Outcomes, Contents

LEMMA ReaderStepKeeps == PlacesOK /\ ReaderOK /\ [GatewayNext]_gatewayVars => PlacesOK' /\ ReaderOK'
<1> SUFFICES ASSUME PlacesOK, ReaderOK, [GatewayNext]_gatewayVars PROVE PlacesOK' /\ ReaderOK'
  OBVIOUS
<1>1. CASE Start \/ Broadcast \/ Ldr
  BY <1>1, LoopLeaves DEF ReaderOK
<1>2. CASE Nfc
  <2>1. UNCHANGED <<rx, job, nfcData, tag>>
    BY <1>2 DEF Nfc, Quiet, net
  <2>2. lastCmd' \in {lastCmd, "NFC_NONE"} /\ asked' \in {asked, NoAnswer}
    BY <1>2 DEF Nfc
  <2>3. \E p \in {"nfc_wait", "broadcast"} : Goto("main", p)
    BY <1>2, PublisherMoves DEF Nfc
  <2>4. PlacesOK'
    BY <2>3, GotoKeeps DEF Places, Waits, Threads
  <2> QED BY <2>1, <2>2, <2>4 DEF ReaderOK, Outcomes
<1>3. CASE Cam \/ Motion \/ Env
  BY <1>3, OthersLeave DEF ReaderOK
<1>4. CASE Timeout
  BY <1>4, ExitLeaves DEF Timeout, ReaderOK
<1>5. CASE Connect \/ StartConsume
  BY <1>5 DEF Connect, StartConsume, reader, ReaderOK, PlacesOK
<1>6. CASE Acknowledge \/ Lose \/ SwitchCamera
  BY <1>6 DEF Acknowledge, Lose, SwitchCamera, net, reader, ReaderOK, PlacesOK
<1>7. CASE NfcCommand
  <2>1. CASE Exit
    BY <2>1, ExitLeaves DEF ReaderOK
  <2>2. CASE ~Exit
    BY <1>7, <2>2 DEF NfcCommand, Receiving, ReaderOK, PlacesOK
  <2> QED BY <2>1, <2>2
<1>8. CASE NfcBegin
  BY <1>8 DEF NfcBegin, net, ReaderOK, PlacesOK
<1>9. CASE NfcDone
  <2>1. job \in Commands /\ PlacesOK' /\ rx' = "idle" /\ job' = NoJob
    BY <1>9 DEF NfcDone, ReaderOK, PlacesOK
  <2>2. CASE UNCHANGED <<nfcData, lastCmd, tag, asked>>
    BY <2>1, <2>2 DEF ReaderOK
  <2>3. CASE \E r \in Results(job.cmd, tag) : /\ nfcData' = r.data /\ lastCmd' = r.outcome /\ tag' = r.tag
                                              /\ asked' = [client |-> job.client, says |-> r.data]
    <3>1. PICK r \in Results(job.cmd, tag) :
                 /\ nfcData' = r.data /\ lastCmd' = r.outcome /\ tag' = r.tag
                 /\ asked' = [client |-> job.client, says |-> r.data]
      BY <2>3
    <3>2. r.outcome \in Outcomes /\ r.data \in Contents \cup {None} /\ r.tag \in Contents
      BY ResultsKnown DEF ReaderOK
    <3>3. asked' \in Answers
      BY <2>1, <3>1, <3>2 DEF Commands, Answers
    <3> QED BY <2>1, <3>1, <3>2, <3>3 DEF ReaderOK
  <2> QED BY <1>9, <2>2, <2>3 DEF NfcDone
<1>10. CASE UNCHANGED gatewayVars
  BY <1>10 DEF gatewayVars, net, reader, ReaderOK, PlacesOK
<1> QED
  BY <1>1, <1>2, <1>3, <1>4, <1>5, <1>6, <1>7, <1>8, <1>9, <1>10 DEF GatewayNext, Main, Callback

LEMMA ReaderStarts == GatewayInit => PlacesOK /\ ReaderOK
<1> SUFFICES ASSUME GatewayInit PROVE PlacesOK /\ ReaderOK
  OBVIOUS
<1>1. pc \in [Threads -> {"connect", "env", "idle"}]
  BY DEF GatewayInit
<1>2. PlacesOK
  BY <1>1 DEF PlacesOK, Places
<1>3. ReaderOK
  BY DEF GatewayInit, ReaderOK, Outcomes, Contents, NoJob, None
<1> QED BY <1>2, <1>3

\* What the reader leaves for the main loop is always an outcome that the main
\* loop's switch over lastCmd knows, and every open command belongs to a client.
THEOREM OutcomesKnown == GatewaySpec => []ReaderOK
BY ReaderStarts, ReaderStepKeeps, PTL DEF GatewaySpec

-----------------------------------------------------------------------------
\* While a command is at the reader the topic is its client's and no other
\* answer is still to come; an outcome that waits for the main loop is the one
\* answer that is owed, put together as it would be now.
TopicStands == rx \in {"nfc", "reading"} => asked = NoAnswer /\ (nfcRemote <=> job.client = Remote)
AnswerStands == lastCmd # "NFC_NONE" /\ pc["main"] \notin {"nfc_wait", "end"} => asked = Answer
AnswerInv == TopicStands /\ AnswerStands

LEMMA AnswerStarts == GatewayInit => AnswerInv
BY DEF GatewayInit, AnswerInv, TopicStands, AnswerStands

\* Steps that leave the reader's data alone and keep the main loop where it is
\* or in the part of the loop that does not publish an outcome.
LEMMA AnswerLeft ==
  ASSUME AnswerInv, UNCHANGED <<job, lastCmd, nfcData, nfcRemote, asked>>,
         rx' = rx \/ rx' \in {"idle", "connected", "end"},
         \/ pc'["main"] = pc["main"]
         \/ pc["main"] \notin {"nfc_wait", "end"}
         \/ pc'["main"] = "end"
  PROVE  AnswerInv'
BY DEF AnswerInv, TopicStands, AnswerStands, Answer

LEMMA AnswerKept ==
  ASSUME PlacesOK, ReaderOK, AnswerInv, [GatewayNext]_gatewayVars
  PROVE  AnswerInv'
<1>m. "main" \in Threads /\ pc \in [Threads -> Places]
  BY DEF PlacesOK, Threads
<1>1. CASE Start \/ Broadcast \/ Ldr
  BY <1>1, LoopLeaves, AnswerLeft
<1>2. CASE Nfc
  <2>1. UNCHANGED <<rx, job, nfcData, nfcRemote>>
    BY <1>2 DEF Nfc, Quiet, net
  <2>2. CASE /\ Publish("main", "nfc", "nfc_wait", "broadcast") /\ asked' = NoAnswer
             /\ lastCmd' = IF link = "up" THEN lastCmd ELSE "NFC_NONE"
    <3>1. link = "up" => pc'["main"] = "nfc_wait"
      BY <2>2, <1>m DEF Publish, Goto
    <3>2. link # "up" => lastCmd' = "NFC_NONE"
      BY <2>2
    <3> QED BY <2>1, <2>2, <3>1, <3>2 DEF AnswerInv, TopicStands, AnswerStands
  <2>3. CASE lastCmd' = "NFC_NONE" /\ asked' = NoAnswer
    BY <2>1, <2>3 DEF AnswerInv, TopicStands, AnswerStands
  <2>4. CASE pc["main"] = "nfc" /\ Goto("main", "broadcast") /\ UNCHANGED <<lastCmd, asked>>
    BY <2>1, <2>4, AnswerLeft
  <2> QED BY <1>2, <2>2, <2>3, <2>4 DEF Nfc
<1>3. CASE Cam \/ Motion \/ Env
  BY <1>3, OthersLeave, AnswerLeft
<1>4. CASE Timeout
  BY <1>4, ExitLeaves, AnswerLeft DEF Timeout
<1>5. CASE Connect \/ StartConsume
  BY <1>5, AnswerLeft DEF Connect, StartConsume, reader
<1>6. CASE Acknowledge \/ Lose \/ SwitchCamera
  BY <1>6, AnswerLeft DEF Acknowledge, Lose, SwitchCamera, net, reader
<1>7. CASE NfcCommand
  <2>1. CASE Exit
    BY <2>1, ExitLeaves, AnswerLeft
  <2>2. CASE ~Exit
    <3>1. asked = NoAnswer /\ asked' = NoAnswer /\ lastCmd' = lastCmd /\ pc' = pc /\ rx = "idle"
      BY <1>7, <2>2 DEF NfcCommand, Brought, Receiving
    <3>2. Answer # NoAnswer
      BY DEF Answer, NoAnswer, Remote, None
    <3>3. lastCmd = "NFC_NONE" \/ pc["main"] \in {"nfc_wait", "end"}
      BY <3>1, <3>2 DEF AnswerInv, AnswerStands
    <3>4. rx' \in {"nfc", "reading"} => (nfcRemote' <=> job'.client = Remote)
      BY <1>7, <2>2, <3>1 DEF NfcCommand, Topic
    <3> QED BY <3>1, <3>3, <3>4 DEF AnswerInv, TopicStands, AnswerStands
  <2> QED BY <2>1, <2>2
<1>8. CASE NfcBegin
  <2>1. asked = NoAnswer /\ rx' = "reading" /\ UNCHANGED <<pc, job, lastCmd, nfcRemote, asked>>
    BY <1>8 DEF NfcBegin, net, AnswerInv, TopicStands
  <2>2. Answer # NoAnswer
    BY DEF Answer, NoAnswer, Remote, None
  <2>3. lastCmd = "NFC_NONE" \/ pc["main"] \in {"nfc_wait", "end"}
    BY <2>1, <2>2 DEF AnswerInv, AnswerStands
  <2> QED BY <1>8, <2>1, <2>3 DEF NfcBegin, AnswerInv, TopicStands, AnswerStands
<1>9. CASE NfcDone
  <2>1. pc' = pc /\ rx' = "idle" /\ nfcRemote' = nfcRemote /\ (nfcRemote <=> job.client = Remote)
    BY <1>9 DEF NfcDone, AnswerInv, TopicStands
  <2>2. CASE UNCHANGED <<nfcData, lastCmd, asked>>
    BY <2>1, <2>2 DEF AnswerInv, TopicStands, AnswerStands, Answer
  <2>3. CASE \E r \in Results(job.cmd, tag) :
               nfcData' = r.data /\ asked' = [client |-> job.client, says |-> r.data]
    <3>1. job.client \in {Remote, "local"}
      BY <1>9, GatewayConstants DEF NfcDone, ReaderOK, Commands
    <3>2. asked' = Answer'
      BY <2>1, <2>3, <3>1 DEF Answer
    <3> QED BY <2>1, <3>2 DEF AnswerInv, TopicStands, AnswerStands
  <2> QED BY <1>9, <2>2, <2>3 DEF NfcDone
<1>10. CASE UNCHANGED gatewayVars
  BY <1>10, AnswerLeft DEF gatewayVars, net, reader
<1> QED
  BY <1>1, <1>2, <1>3, <1>4, <1>5, <1>6, <1>7, <1>8, <1>9, <1>10 DEF GatewayNext, Main, Callback

\* When the main loop publishes an outcome, its answer is the one that is owed.
LEMMA PublishesOwed ==
  ASSUME PlacesOK, AnswerInv, [GatewayNext]_gatewayVars, pc["main"] = "nfc", pc'["main"] = "nfc_wait"
  PROVE  Answer = asked
<1>m. "main" \in Threads /\ pc \in [Threads -> Places]
  BY DEF PlacesOK, Threads
<1>1. CASE Start \/ Broadcast \/ Ldr
  BY <1>1, LoopLeaves
<1>2. CASE Nfc
  <2>1. lastCmd # "NFC_NONE"
    BY <1>2, <1>m DEF Nfc, Told, Published, Goto
  <2> QED BY <2>1 DEF AnswerInv, AnswerStands
<1>3. CASE Cam \/ Motion \/ Env
  BY <1>3, OthersLeave
<1>4. CASE Exit
  BY <1>4, ExitLeaves
<1>5. CASE pc' = pc
  BY <1>5
<1> QED
  BY <1>1, <1>2, <1>3, <1>4, <1>5 DEF GatewayNext, Main, Callback, Acknowledge, Timeout, Connect, Lose,
     StartConsume, NfcBegin, NfcDone, SwitchCamera, NfcCommand, gatewayVars

\* For any clients and any bounds: the answer the main loop puts together from
\* the reader's data and topic says what the reader reported of the command and
\* goes to the client that gave it, also when the next command is carried out
\* before the loop clears the outcome before it (main.cpp 752).
THEOREM AnswersAreOwed == GatewaySpec => AnswersRight
<1> DEFINE Inv == PlacesOK /\ ReaderOK /\ AnswerInv
<1>1. GatewayInit => Inv
  BY ReaderStarts, AnswerStarts
<1>2. Inv /\ [GatewayNext]_gatewayVars => Inv'
  BY ReaderStepKeeps, AnswerKept
<1>3. Inv /\ [GatewayNext]_gatewayVars
      => [(pc["main"] = "nfc" /\ pc'["main"] = "nfc_wait") => Answer = asked]_gatewayVars
  BY PublishesOwed
<1> QED BY <1>1, <1>2, <1>3, PTL DEF GatewaySpec, AnswersRight
=============================================================================
