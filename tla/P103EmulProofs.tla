--------------------------- MODULE P103EmulProofs ---------------------------
(* Proofs about P103Emul for every queue limit, socket capacity, set of    *)
(* commands and combination of faults.                                     *)
EXTENDS P103Emul, TLAPS

(* The queue and its size agree; a handler that posts has seen a size that *)
(* is at least the present one, because it alone adds and the cmd thread   *)
(* only removes.  That bounds the queue although the size is stale.        *)
QueueInv ==
    /\ cmd_list \in Seq(Cmds) /\ dev_cmd \in Cmds
    /\ dev_size \in Nat
    /\ SizeMatches
    /\ cmd_pc \in {"sending", "sent"} => cmd_list # <<>>
    /\ dev_pc = "queue" => Len(cmd_list) <= dev_size /\ dev_size <= QueueLimit + 1
    /\ dev_pc = "check" => Len(cmd_list) <= dev_size + 1 /\ dev_size <= QueueLimit + 1
    /\ dev_pc # "check" => Len(cmd_list) <= QueueLimit + 1

LEMMA QueueInvBound == QueueInv => QueueBound
  BY P103Assumption DEF QueueInv, QueueBound

LEMMA InitQueueInv == Init => QueueInv
  BY P103Assumption DEF Init, QueueInv, SizeMatches

LEMMA QueueInvStep == QueueInv /\ [Next]_vars => QueueInv'
  <1> SUFFICES ASSUME QueueInv, [Next]_vars PROVE QueueInv'
    OBVIOUS
  <1>0. QueueLimit \in Nat
    BY P103Assumption
  <1> USE <1>0 DEF QueueInv, SizeMatches, cmdVars, devVars
  <1>1. ASSUME NEW c \in Cmds, event_post(c) PROVE QueueInv'
    BY <1>1 DEF event_post
  <1>2. CASE machine_reset
    BY <1>2 DEF machine_reset
  <1>3. CASE event_queue_add
    <2>1. UNCHANGED <<dev_cmd, dev_size>> /\ dev_pc = "queue" /\ cmd_pc # "sending"
          /\ cmd_pc # "sent"
      BY <1>3 DEF event_queue_add, cmd_mutex_free
    <2>2. CASE UNCHANGED <<cmdVars, cmd_pc, posted, dev_pc>>
      BY <2>1, <2>2
    <2>3. CASE /\ cmd_list' = Append(cmd_list, dev_cmd)
               /\ cmd_list_size' = cmd_list_size + 1
               /\ cmd_pc' = cmd_signalled /\ dev_pc' = "check"
      <3>1. Len(cmd_list') = Len(cmd_list) + 1 /\ cmd_list' \in Seq(Cmds)
        BY <2>3
      <3>2. cmd_pc' \notin {"sending", "sent"}
        BY <2>1, <2>3, Zenon DEF cmd_signalled
      <3> QED
        BY <2>1, <2>3, <3>1, <3>2
    <2> QED
      BY <1>3, <2>2, <2>3 DEF event_queue_add
  <1>4. CASE post_check
    BY <1>4 DEF post_check
  <1>5. CASE event_wait_ack
    BY <1>5 DEF event_wait_ack
  <1>6. CASE CmdThread
    <2>1. CASE cmd_connect
      BY <1>6, <2>1 DEF CmdThread, cmd_connect
    <2>2. CASE cmd_wait
      BY <1>6, <2>2 DEF CmdThread, cmd_wait
    <2>3. CASE cmd_drain
      BY <1>6, <2>3 DEF CmdThread, cmd_drain
    <2>4. CASE cmd_write
      BY <1>6, <2>4 DEF CmdThread, cmd_write
    <2>5. CASE cmd_remove
      BY <1>6, <2>5 DEF CmdThread, cmd_remove
    <2>6. CASE cmd_free
      BY <1>6, <2>6 DEF CmdThread, cmd_free
    <2> QED
      BY <1>6, <2>1, <2>2, <2>3, <2>4, <2>5, <2>6 DEF CmdThread
  <1>7. CASE EvtThread
    BY <1>7 DEF EvtThread, evt_connect, evt_eof, evt_read, evt_message,
                dev_signalled
  <1>8. CASE Monitor
    BY <1>8 DEF Monitor, MonitorRead
  <1>9. CASE UNCHANGED vars
    BY <1>9 DEF vars
  <1> QED
    BY <1>1, <1>2, <1>3, <1>4, <1>5, <1>6, <1>7, <1>8, <1>9
       DEF Next, Handler

LEMMA QueueInvariant == Spec => []QueueInv
  BY InitQueueInv, QueueInvStep, PTL DEF Spec

(* cmd_list_size is the length of cmd_list in every reachable state.       *)
THEOREM EmulSizeMatches == Spec => []SizeMatches
  BY QueueInvariant, PTL DEF QueueInv

(* The queue never holds more than QueueLimit + 2 commands, whatever fails *)
(* and however the threads interleave.                                     *)
THEOREM EmulQueueBound == Spec => []QueueBound
  BY QueueInvariant, QueueInvBound, PTL
-----------------------------------------------------------------------------
(* Type correctness of the remaining variables                             *)

PcTyped ==
    /\ cmd_pc \in {"start", "wait", "waiting", "woken", "drain", "sending",
                   "sent", "free", "failed", "ended"}
    /\ dev_pc \in {"run", "queue", "check", "ack", "waiting", "woken"}
    /\ evt_pc \in {"start", "read", "ended"}
    /\ halted \in {"no", "exit", "crash"}

LEMMA PcStep == PcTyped /\ [Next]_vars => PcTyped'
  <1> SUFFICES ASSUME PcTyped, [Next]_vars PROVE PcTyped'
    OBVIOUS
  <1> USE DEF PcTyped, devVars, evtVars
  <1>1. CASE \E c \in Cmds : event_post(c)
    BY <1>1 DEF event_post
  <1>2. CASE machine_reset \/ Handler
    BY <1>2 DEF machine_reset, Handler, event_queue_add, cmd_signalled, post_check,
                event_wait_ack
  <1>3. CASE CmdThread
    BY <1>3 DEF CmdThread, cmd_connect, cmd_wait, cmd_drain, cmd_write, cmd_remove,
                cmd_free
  <1>4. CASE EvtThread
    BY <1>4 DEF EvtThread, evt_connect, evt_eof, evt_read, evt_message,
                dev_signalled
  <1>5. CASE Monitor
    BY <1>5 DEF Monitor, MonitorRead, monitor_read, monitor_send, monitor_close
  <1>6. CASE UNCHANGED vars
    BY <1>6 DEF vars
  <1> QED
    BY <1>1, <1>2, <1>3, <1>4, <1>5, <1>6 DEF Next

SockTyped ==
    /\ sent \in Seq(Frames) /\ got \in Nat /\ posted \in Nat
    /\ open \in BOOLEAN

LEMMA SockStep == QueueInv /\ SockTyped /\ [Next]_vars => SockTyped'
  <1> SUFFICES ASSUME QueueInv, SockTyped, [Next]_vars PROVE SockTyped'
    OBVIOUS
  <1> USE DEF SockTyped, sockVars, devVars
  <1>1. CASE \E c \in Cmds : event_post(c)
    BY <1>1 DEF event_post
  <1>2. CASE machine_reset \/ Handler
    BY <1>2 DEF machine_reset, Handler, event_queue_add, post_check, event_wait_ack
  <1>3. CASE CmdThread
    <2>1. CASE cmd_write
      <3>1. Head(cmd_list) \in Cmds
        BY <2>1 DEF QueueInv, cmd_write
      <3>2. frame(Head(cmd_list)) \in Frames
        BY <3>1 DEF Frames
      <3> QED
        BY <1>3, <2>1, <3>2 DEF CmdThread, cmd_write
    <2> QED
      BY <1>3, <2>1 DEF CmdThread, cmd_connect, cmd_wait, cmd_drain, cmd_remove,
                        cmd_free
  <1>4. CASE EvtThread
    BY <1>4 DEF EvtThread
  <1>5. CASE Monitor
    <2>1. sent' = sent /\ posted' = posted /\ got' \in Nat
      BY <1>5 DEF Monitor, MonitorRead, monitor_read, monitor_send, monitor_close
    <2>2. open' \in BOOLEAN
      BY <1>5, Zenon DEF Monitor, MonitorRead, monitor_read, monitor_send,
                         monitor_close
    <2> QED
      BY <2>1, <2>2
  <1>6. CASE UNCHANGED vars
    BY <1>6 DEF vars
  <1> QED
    BY <1>1, <1>2, <1>3, <1>4, <1>5, <1>6 DEF Next

EvtTyped ==
    /\ evt_in \in Seq(Byte)
    /\ btn_level \in [0..3 -> {0, 1}] /\ btn_sent \in [0..3 -> {0, 1}]
    /\ msgs \in Nat

LEMMA EvtStep == EvtTyped /\ [Next]_vars => EvtTyped'
  <1> SUFFICES ASSUME EvtTyped, [Next]_vars PROVE EvtTyped'
    OBVIOUS
  <1> USE DEF EvtTyped, evtVars
  <1>1. CASE \E c \in Cmds : event_post(c)
    BY <1>1 DEF event_post
  <1>2. CASE machine_reset \/ Handler
    BY <1>2 DEF machine_reset, Handler, event_queue_add, post_check, event_wait_ack
  <1>3. CASE CmdThread
    BY <1>3 DEF CmdThread
  <1>4. CASE EvtThread
    <2>1. ASSUME NEW n \in ReadSizes, evt_read(n)
          PROVE EvtTyped'
      <3>1. n \in 1..4
        BY P103Assumption
      <3>2. SubSeq(evt_in, n + 1, Len(evt_in)) \in Seq(Byte)
        BY <3>1
      <3>3. \A b, v : set_digital_in(b, v) \in [0..3 -> {0, 1}]
        BY DEF set_digital_in
      <3> QED
        BY <2>1, <3>2, <3>3 DEF evt_read, evt_message
    <2> QED
      BY <1>4, <2>1 DEF EvtThread, evt_connect, evt_eof
  <1>5. CASE Monitor
    <2>1. CASE MonitorRead
      <3>1. evt_in \o AckMsg \in Seq(Byte)
        BY DEF AckMsg, SCALA_ACK_EVT, Byte
      <3> QED
        BY <2>1, <3>1 DEF MonitorRead, monitor_read
    <2>2. CASE monitor_close
      BY <2>2 DEF monitor_close
    <2>3. ASSUME NEW m \in MonitorMsgs, monitor_send(m)
          PROVE EvtTyped'
      <3>1. PICK a \in Byte, b \in Byte, c \in Byte, d \in Byte : m = <<a, b, c, d>>
        BY P103Assumption
      <3>2. evt_in \o m \in Seq(Byte)
        BY <3>1
      <3>3. [btn_sent EXCEPT ![m[3]] = IF m[4] = 0 THEN 0 ELSE 1]
              \in [0..3 -> {0, 1}]
        BY Zenon
      <3> QED
        BY <2>3, <3>2, <3>3 DEF monitor_send
    <2> QED
      BY <1>5, <2>1, <2>2, <2>3 DEF Monitor
  <1>6. CASE UNCHANGED vars
    BY <1>6 DEF vars
  <1> QED
    BY <1>1, <1>2, <1>3, <1>4, <1>5, <1>6 DEF Next

(* Every variable of the gateway keeps its type, under every fault.        *)
THEOREM EmulTypeCorrect == Spec => []TypeOK
  <1>1. Init => PcTyped /\ SockTyped /\ EvtTyped
    BY DEF Init, PcTyped, SockTyped, EvtTyped
  <1>2. QueueInv /\ PcTyped /\ SockTyped /\ EvtTyped => TypeOK
    BY DEF QueueInv, SizeMatches, PcTyped, SockTyped, EvtTyped, TypeOK
  <1> QED
    BY <1>1, <1>2, QueueInvariant, PcStep, SockStep, EvtStep, PTL DEF Spec

-----------------------------------------------------------------------------
(* The gateway implements FifoChannel                                      *)

LEMMA FramesAppend ==
    ASSUME NEW s \in Seq(Cmds), NEW c \in Cmds
    PROVE frames(Append(s, c)) = Append(frames(s), frame(c))
  BY DEF frames

LEMMA FramesHeadTail ==
    ASSUME NEW s \in Seq(Cmds), s # <<>>
    PROVE /\ frames(s) # <<>>
          /\ Head(frames(s)) = frame(Head(s))
          /\ Tail(frames(s)) = frames(Tail(s))
  BY DEF frames

LEMMA GatewayStep ==
    QueueInv /\ [Next]_vars => [Gateway!Next]_(Gateway!channelVars)
  <1> SUFFICES ASSUME QueueInv, [Next]_vars
               PROVE Gateway!Next \/ UNCHANGED Gateway!channelVars
    OBVIOUS
  <1>0. ASSUME cmd_list' = cmd_list, sent' = sent,
               cmd_pc = "sent" <=> cmd_pc' = "sent"
        PROVE UNCHANGED Gateway!channelVars
    BY <1>0 DEF Gateway!channelVars, unsent, frames
  <1> USE DEF cmdVars, sockVars
  <1>1. CASE \E c \in Cmds : event_post(c)
    BY <1>0, <1>1 DEF event_post
  <1>2. CASE machine_reset \/ post_check \/ event_wait_ack
    BY <1>0, <1>2 DEF machine_reset, post_check, event_wait_ack
  <1>3. CASE event_queue_add
    <2>1. CASE halted' = "crash" /\ UNCHANGED <<cmdVars, cmd_pc, posted, dev_pc>>
      BY <1>0, <1>3, <2>1 DEF event_queue_add
    <2>2. CASE cmd_list' = Append(cmd_list, dev_cmd) /\ cmd_pc' = cmd_signalled
      <3>1. cmd_pc # "sent" /\ cmd_pc' # "sent"
        BY <1>3, <2>2 DEF event_queue_add, cmd_mutex_free, cmd_signalled
      <3>2. unsent = frames(cmd_list) /\ unsent' = frames(cmd_list')
        BY <3>1 DEF unsent, frames
      <3>3. unsent' = Append(unsent, frame(dev_cmd))
        BY <2>2, <3>2, FramesAppend DEF QueueInv
      <3>4. Len(unsent) < QueueLimit + 2
        BY <1>3, <3>2, P103Assumption DEF QueueInv, frames, event_queue_add
      <3>5. frame(dev_cmd) \in Frames
        BY DEF QueueInv, Frames
      <3>6. Gateway!Put(frame(dev_cmd))
        BY <1>3, <3>3, <3>4 DEF Gateway!Put, event_queue_add
      <3> QED
        BY <3>5, <3>6 DEF Gateway!Next
    <2> QED
      BY <1>3, <2>1, <2>2 DEF event_queue_add
  <1>4. CASE CmdThread
    <2>1. CASE cmd_connect \/ cmd_wait \/ cmd_drain \/ cmd_free
      BY <1>0, <2>1 DEF cmd_connect, cmd_wait, cmd_drain, cmd_free
    <2>2. CASE cmd_write
      <3>1. CASE cmd_pc' = "free" /\ UNCHANGED sent
        BY <1>0, <2>2, <3>1 DEF cmd_write
      <3>2. CASE sent' = Append(sent, frame(Head(cmd_list))) /\ cmd_pc' = "sent"
        <4>1. cmd_list' = cmd_list /\ cmd_pc = "sending"
          BY <2>2 DEF cmd_write
        <4>2. unsent = frames(cmd_list) /\ unsent' = frames(Tail(cmd_list))
          BY <4>1, <3>2 DEF unsent, frames
        <4>3. /\ unsent # <<>>
              /\ Head(unsent) = frame(Head(cmd_list))
              /\ Tail(unsent) = unsent'
          BY <4>1, <4>2, FramesHeadTail DEF QueueInv
        <4>4. Gateway!Transmit
          BY <3>2, <4>3 DEF Gateway!Transmit
        <4> QED
          BY <4>4 DEF Gateway!Next
      <3> QED
        BY <2>2, <3>1, <3>2 DEF cmd_write
    <2>3. CASE cmd_remove
      BY <2>3 DEF cmd_remove, Gateway!channelVars, unsent, frames
    <2> QED
      BY <1>4, <2>1, <2>2, <2>3 DEF CmdThread
  <1>5. CASE EvtThread
    BY <1>0, <1>5 DEF EvtThread
  <1>6. CASE Monitor
    BY <1>0, <1>6 DEF Monitor, MonitorRead, monitor_read, monitor_send, monitor_close
  <1>7. CASE UNCHANGED vars
    BY <1>0, <1>7 DEF vars
  <1> QED
    BY <1>1, <1>2, <1>3, <1>4, <1>5, <1>6, <1>7 DEF Next, Handler

(* For every queue limit and under every fault, what reaches the socket is *)
(* what was posted, in order, without gaps or repetitions.                 *)
THEOREM EmulGatewayIsFifo == Spec => GatewayIsFifo
  <1>1. Init => Gateway!Init
    BY DEF Init, Gateway!Init, unsent, frames
  <1> QED
    BY <1>1, GatewayStep, QueueInvariant, PTL DEF Spec, GatewayIsFifo, Gateway!Spec
-----------------------------------------------------------------------------
(* The stream of messages to the evt thread, read in whole messages        *)

(* Message k of the stream s starts after 4 * k bytes.                     *)
holds(s, k) == k \in Nat /\ 4 * k + 4 <= Len(s)

WholeReads4 == ReadSizes \subseteq {4}

Whole == evt_in \in Seq(Byte) /\ \E K \in Nat : Len(evt_in) = 4 * K

(* How a step may change the stream.                                       *)
Taken == /\ Len(evt_in) >= 4
         /\ evt_in' = SubSeq(evt_in, 5, Len(evt_in))

Added(m) == evt_in' = evt_in \o m

(* Reading a message renumbers the others.                                 *)
LEMMA TakenShifts ==
    ASSUME Whole, Taken
    PROVE  /\ evt_in' \in Seq(Byte) /\ Len(evt_in') = Len(evt_in) - 4
           /\ \A k \in Nat : 4 * k + 4 <= Len(evt_in') =>
                /\ 4 * (k + 1) + 4 <= Len(evt_in)
                /\ \A i \in 1..4 : evt_in'[4 * k + i] = evt_in[4 * (k + 1) + i]
  BY DEF Whole, Taken

(* A message that is sent becomes the last one.                            *)
Message(m) == m \in Seq(Byte) /\ Len(m) = 4

(* Lengths and elements of a concatenation.                                *)
LEMMA Concat ==
    ASSUME NEW s \in Seq(Byte), NEW m \in Seq(Byte)
    PROVE  /\ s \o m \in Seq(Byte) /\ Len(s \o m) = Len(s) + Len(m)
           /\ \A i \in 1..Len(s) : (s \o m)[i] = s[i]
           /\ \A i \in 1..Len(m) : (s \o m)[Len(s) + i] = m[i]
  OBVIOUS

(* The messages before it keep their places.                               *)
LEMMA AddedLast ==
    ASSUME Whole, NEW m, Message(m), Added(m), NEW K \in Nat, Len(evt_in) = 4 * K
    PROVE  /\ evt_in' \in Seq(Byte) /\ Len(evt_in') = 4 * (K + 1)
           /\ \A k \in Nat : k < K => \A i \in 1..4 :
                                        evt_in'[4 * k + i] = evt_in[4 * k + i]
           /\ \A i \in 1..4 : evt_in'[4 * K + i] = m[i]
  <1>1. evt_in \in Seq(Byte) /\ evt_in' = evt_in \o m /\ m \in Seq(Byte) /\ Len(m) = 4
    BY DEF Whole, Added, Message
  <1>2. /\ evt_in' \in Seq(Byte) /\ Len(evt_in') = Len(evt_in) + Len(m)
        /\ \A i \in 1..Len(evt_in) : evt_in'[i] = evt_in[i]
        /\ \A i \in 1..Len(m) : evt_in'[Len(evt_in) + i] = m[i]
    BY <1>1, Concat, Zenon
  <1>4. evt_in' \in Seq(Byte) /\ Len(evt_in') = 4 * K + 4
    BY <1>1, <1>2
  <1>5. \A i \in 1..(4 * K) : evt_in'[i] = evt_in[i]
    BY <1>2
  <1>6. \A i \in 1..4 : evt_in'[4 * K + i] = m[i]
    BY <1>1, <1>2
  <1>7. \A k \in Nat, i \in 1..4 : k < K => 4 * k + i \in 1..(4 * K)
    OBVIOUS
  <1>8. ASSUME NEW k \in Nat, k < K, NEW i \in 1..4
        PROVE  evt_in'[4 * k + i] = evt_in[4 * k + i]
    <2>1. 4 * k + i \in 1..(4 * K)
      BY <1>7, <1>8
    <2> QED
      BY <1>5, <2>1, Zenon
  <1>9. 4 * K + 4 = 4 * (K + 1)
    OBVIOUS
  <1> QED
    BY <1>4, <1>6, <1>8, <1>9, Zenon

(* What is sent are messages.                                              *)
LEMMA MonitorSendsMessages == \A m \in MonitorMsgs : Message(m)
  <1> SUFFICES ASSUME NEW m \in MonitorMsgs PROVE Message(m)
    OBVIOUS
  <1>1. PICK a \in Byte, b \in Byte, c \in Byte, d \in Byte : m = <<a, b, c, d>>
    BY P103Assumption
  <1> QED
    BY <1>1 DEF Message

(* The monitor acknowledges f.                                             *)
acked(f) == f.msgId = C_EVENT /\ f.value \in AckedEvents

(* The acknowledge of the monitor is a message.                            *)
LEMMA AckIsMessage == Message(AckMsg) /\ AckMsg[1] = 65
  BY DEF Message, AckMsg, SCALA_ACK_EVT, Byte

(* The monitor reads a command and may answer with an acknowledge.         *)
LEMMA MonitorReadEffect ==
    MonitorRead => /\ Added(AckMsg) \/ evt_in' = evt_in
                   /\ UNCHANGED <<btn_level, btn_sent>>
  <1>1. ASSUME MonitorRead
        PROVE  /\ UNCHANGED <<btn_level, btn_sent>>
               /\ evt_in' = IF acked(sent[got + 1]) THEN evt_in \o AckMsg ELSE evt_in
    BY <1>1 DEF MonitorRead, monitor_read, acked
  <1> QED
    BY <1>1, Zenon DEF Added

(* Whole messages stay whole.                                              *)
LEMMA TakenWhole == ASSUME Whole, Taken PROVE Whole'
  <1>1. PICK K \in Nat : Len(evt_in) = 4 * K
    BY DEF Whole
  <1>2. Len(evt_in') = 4 * (K - 1) /\ K - 1 \in Nat /\ evt_in' \in Seq(Byte)
    BY <1>1, TakenShifts DEF Taken
  <1> QED
    BY <1>2 DEF Whole

(* So do those of a stream that grows by a message.                        *)
LEMMA AddedWhole == ASSUME Whole, NEW m, Message(m), Added(m) PROVE Whole'
  <1>1. PICK K \in Nat : Len(evt_in) = 4 * K
    BY DEF Whole
  <1>2. Len(evt_in') = 4 * (K + 1) /\ evt_in' \in Seq(Byte)
    BY <1>1, AddedLast
  <1>3. K + 1 \in Nat
    BY <1>1
  <1> QED
    BY <1>2, <1>3 DEF Whole

(* What reading a message does, in terms of the stream.                    *)
LEMMA ReadEffect ==
    ASSUME WholeReads4, Whole, NEW n \in ReadSizes, evt_read(n)
    PROVE  /\ Taken
           /\ btn_level' = IF evt_in[1] = SCALA_DIGITAL_IN
                           THEN set_digital_in(evt_in[3], evt_in[4]) ELSE btn_level
           /\ dev_pc' = IF evt_in[1] = SCALA_ACK_EVT THEN dev_signalled ELSE dev_pc
           /\ btn_sent' = btn_sent
  <1>1. n = 4 /\ 4 <= Len(evt_in)
    BY DEF WholeReads4, evt_read
  <1>2. evt_message(SubSeq(evt_in, 1, 4)) /\ Taken /\ btn_sent' = btn_sent
    BY <1>1 DEF evt_read, Taken
  <1>3. /\ SubSeq(evt_in, 1, 4)[1] = evt_in[1] /\ SubSeq(evt_in, 1, 4)[3] = evt_in[3]
        /\ SubSeq(evt_in, 1, 4)[4] = evt_in[4]
    BY <1>1 DEF Whole
  <1> QED
    BY <1>2, <1>3 DEF evt_message

(* The stream holds whole messages at all times.                           *)
LEMMA WholeStep ==
    ASSUME WholeReads4, Whole, [Next]_vars PROVE Whole'
  <1>1. CASE evt_in' = evt_in
    BY <1>1 DEF Whole
  <1>2. CASE EvtThread
    <2>1. ASSUME NEW n \in ReadSizes, evt_read(n) PROVE Whole'
      BY <2>1, ReadEffect, TakenWhole
    <2> QED
      BY <1>1, <1>2, <2>1 DEF EvtThread, evt_connect, evt_eof
  <1>3. CASE MonitorRead
    <2>1. CASE Added(AckMsg)
      BY <2>1, AckIsMessage, AddedWhole
    <2>2. Added(AckMsg) \/ evt_in' = evt_in
      BY <1>3, MonitorReadEffect, Zenon
    <2> QED
      BY <1>1, <2>1, <2>2, Zenon
  <1>4. ASSUME NEW m \in MonitorMsgs, monitor_send(m) PROVE Whole'
    <2>1. Added(m) /\ Message(m)
      BY <1>4, MonitorSendsMessages DEF monitor_send, Added
    <2> QED
      BY <2>1, AddedWhole
  <1> QED
    BY <1>1, <1>2, <1>3, <1>4
       DEF Next, vars, evtVars, event_post, machine_reset, Handler, event_queue_add,
           post_check, event_wait_ack, CmdThread, Monitor, monitor_close

(* With whole reads no message is ever cut.                                *)
LEMMA WholeInvariant == ASSUME WholeReads4 PROVE Spec => []Whole
  <1>1. Init => Whole
    <2>1. 0 \in Nat /\ Len(<<>>) = 4 * 0 /\ <<>> \in Seq(Byte)
      OBVIOUS
    <2> QED
      BY <2>1 DEF Init, Whole
  <1>2. Whole /\ [Next]_vars => Whole'
    BY WholeStep
  <1> QED
    BY <1>1, <1>2, PTL DEF Spec
-----------------------------------------------------------------------------
(* The buttons                                                             *)

(* Message k of the stream sets button b, to the level asks.               *)
sets(s, k, b) ==
    holds(s, k) /\ s[4 * k + 1] = SCALA_DIGITAL_IN /\ s[4 * k + 3] = b

asks(s, k) == IF s[4 * k + 4] = 0 THEN 0 ELSE 1

(* The level asked for last is that of the last message that sets the      *)
(* button, or that of the pin if none is on its way.                       *)
ButtonInv ==
    \A b \in 0..3 :
       /\ (\A k \in Nat : ~sets(evt_in, k, b)) => btn_level[b] = btn_sent[b]
       /\ \A k \in Nat :
            sets(evt_in, k, b) /\ (\A j \in Nat : j > k => ~sets(evt_in, j, b))
              => btn_sent[b] = asks(evt_in, k)

(* The message read was the last for its button, or another is on its way. *)
LEMMA ButtonRead ==
    ASSUME WholeReads4, Whole, EvtTyped, ButtonInv, NEW n \in ReadSizes, evt_read(n)
    PROVE  ButtonInv'
  <1> SUFFICES ASSUME NEW b \in 0..3
               PROVE  /\ (\A k \in Nat : ~sets(evt_in', k, b))
                           => btn_level'[b] = btn_sent'[b]
                      /\ \A k \in Nat :
                           sets(evt_in', k, b)
                             /\ (\A j \in Nat : j > k => ~sets(evt_in', j, b))
                           => btn_sent'[b] = asks(evt_in', k)
    BY Zenon DEF ButtonInv, sets, holds, asks
  <1>0. Taken /\ btn_sent' = btn_sent
    BY ReadEffect
  <1>1. \A k \in Nat : /\ k + 1 \in Nat
                       /\ sets(evt_in', k, b) <=> sets(evt_in, k + 1, b)
                       /\ sets(evt_in', k, b) => asks(evt_in', k) = asks(evt_in, k + 1)
    <2>1. /\ Len(evt_in') = Len(evt_in) - 4 /\ Len(evt_in) \in Nat
          /\ \A k \in Nat : 4 * k + 4 <= Len(evt_in') =>
                /\ evt_in'[4 * k + 1] = evt_in[4 * (k + 1) + 1]
                /\ evt_in'[4 * k + 3] = evt_in[4 * (k + 1) + 3]
                /\ evt_in'[4 * k + 4] = evt_in[4 * (k + 1) + 4]
      BY <1>0, TakenShifts DEF Whole
    <2> QED
      BY <2>1 DEF sets, holds, asks
  <1>2. \A k \in Nat : k = 0 \/ \E j \in Nat : k = j + 1
    <2>1. ASSUME NEW k \in Nat, k # 0 PROVE \E j \in Nat : k = j + 1
      <3>1. k - 1 \in Nat /\ k = (k - 1) + 1
        BY <2>1
      <3> QED
        BY <3>1
    <2> QED
      BY <2>1
  <1>3. /\ sets(evt_in, 0, b) <=> evt_in[1] = SCALA_DIGITAL_IN /\ evt_in[3] = b
        /\ asks(evt_in, 0) = IF evt_in[4] = 0 THEN 0 ELSE 1
    BY <1>0 DEF sets, holds, asks, Taken
  <1>4. btn_level'[b] = IF sets(evt_in, 0, b) THEN asks(evt_in, 0) ELSE btn_level[b]
    <2>1. btn_level' = IF evt_in[1] = SCALA_DIGITAL_IN
                       THEN set_digital_in(evt_in[3], evt_in[4]) ELSE btn_level
      BY ReadEffect, Zenon
    <2> QED
      BY <1>3, <2>1 DEF set_digital_in, EvtTyped
  <1>5. ASSUME \A k \in Nat : ~sets(evt_in', k, b)
        PROVE  btn_level'[b] = btn_sent'[b]
    <2>1. \A k \in Nat : sets(evt_in, k, b) => k = 0
      BY <1>1, <1>2, <1>5
    <2>2. CASE sets(evt_in, 0, b)
      <3>1. btn_sent[b] = asks(evt_in, 0)
        BY <2>1, <2>2 DEF ButtonInv
      <3> QED
        BY <1>0, <1>4, <2>2, <3>1
    <2>3. CASE ~sets(evt_in, 0, b)
      BY <1>0, <1>4, <2>1, <2>3 DEF ButtonInv
    <2> QED
      BY <2>2, <2>3
  <1>6. ASSUME NEW k \in Nat, sets(evt_in', k, b),
               \A j \in Nat : j > k => ~sets(evt_in', j, b)
        PROVE  btn_sent'[b] = asks(evt_in', k)
    <2>1. ASSUME NEW j \in Nat, j > k + 1 PROVE ~sets(evt_in, j, b)
      <3>1. PICK i \in Nat : j = i + 1
        BY <1>2, <2>1
      <3>2. i > k
        BY <2>1, <3>1
      <3> QED
        BY <1>1, <1>6, <3>1, <3>2
    <2>2. sets(evt_in, k + 1, b) /\ k + 1 \in Nat /\ asks(evt_in', k) = asks(evt_in, k + 1)
      BY <1>1, <1>6
    <2> QED
      BY <1>0, <2>1, <2>2 DEF ButtonInv
  <1> QED
    BY <1>5, <1>6

(* A message that is sent is the last, for its button if it sets one.      *)
LEMMA ButtonAdded ==
    ASSUME Whole, EvtTyped, ButtonInv, NEW m, Message(m), Added(m),
           btn_level' = btn_level,
           \A b \in 0..3 :
              btn_sent'[b] = IF m[1] = SCALA_DIGITAL_IN /\ m[3] = b
                             THEN (IF m[4] = 0 THEN 0 ELSE 1) ELSE btn_sent[b]
    PROVE  ButtonInv'
  <1> SUFFICES ASSUME NEW b \in 0..3
               PROVE  /\ (\A k \in Nat : ~sets(evt_in', k, b))
                           => btn_level'[b] = btn_sent'[b]
                      /\ \A k \in Nat :
                           sets(evt_in', k, b)
                             /\ (\A j \in Nat : j > k => ~sets(evt_in', j, b))
                           => btn_sent'[b] = asks(evt_in', k)
    BY Zenon DEF ButtonInv, sets, holds, asks
  <1>1. PICK K \in Nat : Len(evt_in) = 4 * K
    BY DEF Whole
  <1>2. /\ Len(evt_in') = 4 * (K + 1)
        /\ \A k \in Nat : k < K =>
             /\ evt_in'[4 * k + 1] = evt_in[4 * k + 1]
             /\ evt_in'[4 * k + 3] = evt_in[4 * k + 3]
             /\ evt_in'[4 * k + 4] = evt_in[4 * k + 4]
        /\ evt_in'[4 * K + 1] = m[1] /\ evt_in'[4 * K + 3] = m[3]
        /\ evt_in'[4 * K + 4] = m[4]
    <2>1. /\ Len(evt_in') = 4 * (K + 1)
          /\ \A k \in Nat : k < K => \A i \in 1..4 :
                                        evt_in'[4 * k + i] = evt_in[4 * k + i]
          /\ \A i \in 1..4 : evt_in'[4 * K + i] = m[i]
      BY <1>1, AddedLast, Zenon
    <2> QED
      BY <2>1
  <1>3. /\ \A k \in Nat : k < K => /\ sets(evt_in', k, b) <=> sets(evt_in, k, b)
                                   /\ asks(evt_in', k) = asks(evt_in, k)
        /\ \A k \in Nat : sets(evt_in, k, b) => k < K
        /\ \A k \in Nat : sets(evt_in', k, b) => k <= K
        /\ sets(evt_in', K, b) <=> m[1] = SCALA_DIGITAL_IN /\ m[3] = b
        /\ asks(evt_in', K) = IF m[4] = 0 THEN 0 ELSE 1
    BY <1>1, <1>2 DEF sets, holds, asks
  <1>4. CASE sets(evt_in', K, b)
    <2>1. btn_sent'[b] = asks(evt_in', K)
      BY <1>3, <1>4
    <2>2. ASSUME NEW k \in Nat, sets(evt_in', k, b),
                 \A j \in Nat : j > k => ~sets(evt_in', j, b)
          PROVE  k = K
      <3>1. k <= K /\ ~(K > k)
        BY <1>3, <1>4, <2>2
      <3> QED
        BY <3>1
    <2> QED
      BY <1>4, <2>1, <2>2
  <1>5. CASE ~sets(evt_in', K, b)
    <2>1. btn_sent'[b] = btn_sent[b]
      BY <1>3, <1>5
    <2>2. \A k \in Nat : sets(evt_in', k, b) => k < K
      <3> SUFFICES ASSUME NEW k \in Nat, sets(evt_in', k, b) PROVE k < K
        OBVIOUS
      <3>1. k <= K /\ k # K
        BY <1>3, <1>5
      <3> QED
        BY <3>1
    <2>3. \A k \in Nat : /\ sets(evt_in', k, b) <=> sets(evt_in, k, b)
                         /\ sets(evt_in, k, b) => asks(evt_in', k) = asks(evt_in, k)
      <3> SUFFICES ASSUME NEW k \in Nat
                   PROVE  /\ sets(evt_in', k, b) <=> sets(evt_in, k, b)
                          /\ sets(evt_in, k, b) => asks(evt_in', k) = asks(evt_in, k)
        BY Zenon
      <3>1. CASE k < K
        BY <1>3, <3>1, Zenon
      <3>2. CASE ~(k < K)
        BY <1>3, <2>2, <3>2, Zenon
      <3> QED
        BY <3>1, <3>2
    <2> QED
      BY <2>1, <2>3 DEF ButtonInv
  <1> QED
    BY <1>4, <1>5

(* Only reads and messages touch the buttons or the stream.                *)
LEMMA ButtonStep ==
    ASSUME WholeReads4, Whole, EvtTyped, ButtonInv, [Next]_vars PROVE ButtonInv'
  <1>1. CASE UNCHANGED <<evt_in, btn_level, btn_sent>>
    BY <1>1, Zenon DEF ButtonInv, sets, holds, asks
  <1>2. CASE EvtThread
    <2>1. ASSUME NEW n \in ReadSizes, evt_read(n) PROVE ButtonInv'
      BY <2>1, ButtonRead
    <2> QED
      BY <1>1, <1>2, <2>1 DEF EvtThread, evt_connect, evt_eof
  <1>3. CASE MonitorRead
    <2>1. CASE Added(AckMsg)
      <3>1. btn_level' = btn_level /\ btn_sent' = btn_sent
        BY <1>3 DEF MonitorRead, monitor_read
      <3>2. AckMsg[1] # SCALA_DIGITAL_IN
        BY AckIsMessage DEF SCALA_DIGITAL_IN
      <3> QED
        BY <2>1, <3>1, <3>2, AckIsMessage, ButtonAdded
    <2>2. Added(AckMsg) \/ UNCHANGED <<evt_in, btn_level, btn_sent>>
      BY <1>3, MonitorReadEffect
    <2> QED
      BY <1>1, <2>1, <2>2, Zenon
  <1>4. ASSUME NEW m \in MonitorMsgs, monitor_send(m) PROVE ButtonInv'
    <2>1. Added(m) /\ Message(m) /\ btn_level' = btn_level
      BY <1>4, MonitorSendsMessages DEF monitor_send, Added
    <2>2. \A b \in 0..3 :
              btn_sent'[b] = IF m[1] = SCALA_DIGITAL_IN /\ m[3] = b
                             THEN (IF m[4] = 0 THEN 0 ELSE 1) ELSE btn_sent[b]
      BY <1>4 DEF monitor_send, EvtTyped
    <2> QED
      BY <2>1, <2>2, ButtonAdded
  <1> QED
    BY <1>1, <1>2, <1>3, <1>4
       DEF Next, vars, evtVars, event_post, machine_reset, Handler, event_queue_add,
           post_check, event_wait_ack, CmdThread, Monitor, monitor_close

(* For every traffic of button messages and acknowledges, and whatever     *)
(* fails, the pins have the levels asked for last once the stream is       *)
(* empty, if read() returns whole messages.                                *)
THEOREM EmulButtonsSettle == ASSUME WholeReads4 PROVE Spec => []ButtonsSettle
  <1>1. Init => EvtTyped /\ ButtonInv
    BY DEF Init, EvtTyped, ButtonInv, sets, holds
  <1>2. EvtTyped /\ ButtonInv => ButtonsSettle
    <2> SUFFICES ASSUME EvtTyped, ButtonInv, evt_in = <<>>
                 PROVE  btn_level = btn_sent
      BY DEF ButtonsSettle
    <2>1. \A b \in 0..3, k \in Nat : ~sets(evt_in, k, b)
      BY DEF sets, holds
    <2>2. \A b \in 0..3 : btn_level[b] = btn_sent[b]
      BY <2>1 DEF ButtonInv
    <2> QED
      BY <2>2 DEF EvtTyped
  <1>3. Whole /\ EvtTyped /\ ButtonInv /\ [Next]_vars => ButtonInv'
    BY ButtonStep
  <1> QED
    BY <1>1, <1>2, <1>3, WholeInvariant, EvtStep, PTL DEF Spec
-----------------------------------------------------------------------------
(* The acknowledge                                                         *)

(* Whole reads, no spurious wakeup and no reset of a program that is about *)
(* to wait, and no acknowledge that the monitor sends without an event.    *)
(* Connections and writes may fail, and the monitor may close.             *)
OwnAcks ==
    /\ WholeReads4 /\ Faults \cap {"spurious", "reset"} = {}
    /\ \A m \in MonitorMsgs : m[1] # SCALA_ACK_EVT

(* The monitor acknowledges the commands the program waits for.            *)
LEMMA FrameAcked == \A c \in Cmds : acked(frame(c)) <=> waits_for_ack(c)
  BY DEF acked, frame, waits_for_ack, C_EVENT

(* Message k of the stream is an acknowledge.                              *)
ackAt(s, k) == holds(s, k) /\ s[4 * k + 1] = SCALA_ACK_EVT

(* The program has posted an event and does not post another before its    *)
(* acknowledge.                                                            *)
Awaiting == dev_pc \in {"check", "ack", "waiting"} /\ waits_for_ack(dev_cmd)

(* The head of the list has been sent and is still in the list.            *)
doubled == IF cmd_pc = "sent" THEN 1 ELSE 0

(* Every command is in the list or was sent.                               *)
Counted == posted = Len(sent) + Len(cmd_list) - doubled /\ got <= Len(sent)

(* An event whose acknowledge is still to come is the last command posted, *)
(* wherever it is: in the list, in the socket, or, read by the monitor,    *)
(* turned into the only acknowledge in the stream.                         *)
ListAcks == \A k \in 1..Len(cmd_list) :
              k > doubled /\ waits_for_ack(cmd_list[k])
                => Awaiting /\ k = Len(cmd_list)

SentAcks == \A k \in 1..Len(sent) :
              k > got /\ acked(sent[k]) => Awaiting /\ k = posted

StreamAcks ==
    /\ \A k \in Nat : ackAt(evt_in, k) => Awaiting /\ got = posted
    /\ \A j, k \in Nat : ackAt(evt_in, j) /\ ackAt(evt_in, k) => j = k

AckInv == Counted /\ ListAcks /\ SentAcks /\ StreamAcks /\ AckMeansDelivered

AckTypes == QueueInv /\ SockTyped /\ Whole

(* A step that moves no command keeps what is true of them, if the program *)
(* still awaits what it awaited.                                           *)
LEMMA AckQuiet ==
    ASSUME AckInv, UNCHANGED <<cmd_list, posted, sent, got, evt_in>>,
           doubled' = doubled, Awaiting => Awaiting', dev_pc' = "woken" => got = posted
    PROVE  AckInv'
  BY DEF AckInv, Counted, ListAcks, SentAcks, StreamAcks, ackAt, holds,
         AckMeansDelivered

(* A command is appended when nothing posted before it is unacknowledged.  *)
LEMMA AckAdd ==
    ASSUME OwnAcks, AckTypes, AckInv, event_queue_add PROVE AckInv'
  <1>1. CASE halted' = "crash" /\ UNCHANGED <<cmdVars, cmd_pc, posted, dev_pc>>
    BY <1>1, AckQuiet
       DEF event_queue_add, cmdVars, sockVars, evtVars, doubled, Awaiting
  <1>2. CASE cmd_list' = Append(cmd_list, dev_cmd) /\ posted' = posted + 1
             /\ dev_pc' = "check" /\ cmd_pc' = cmd_signalled
    <2>1. doubled = 0 /\ doubled' = 0 /\ dev_pc = "queue"
      BY <1>2 DEF event_queue_add, cmd_mutex_free, cmd_signalled, doubled
    <2>2. UNCHANGED <<sent, got, evt_in, dev_cmd>>
      BY DEF event_queue_add, sockVars, evtVars
    <2>3. ~Awaiting
      BY <2>1 DEF Awaiting
    <2>4. /\ cmd_list \in Seq(Cmds) /\ dev_cmd \in Cmds /\ sent \in Seq(Frames)
          /\ got \in Nat /\ posted \in Nat
      BY DEF AckTypes, QueueInv, SockTyped
    <2>5. Len(cmd_list') = Len(cmd_list) + 1
          /\ \A k \in 1..Len(cmd_list) : cmd_list'[k] = cmd_list[k]
          /\ cmd_list'[Len(cmd_list) + 1] = dev_cmd
      BY <1>2, <2>4
    <2>6. Counted'
      BY <1>2, <2>1, <2>2, <2>4, <2>5 DEF AckInv, Counted
    <2>7. ListAcks'
      <3> SUFFICES ASSUME NEW k \in 1..Len(cmd_list'), waits_for_ack(cmd_list'[k])
                   PROVE  Awaiting' /\ k = Len(cmd_list')
        BY DEF ListAcks, waits_for_ack
      <3>1. k \notin 1..Len(cmd_list)
        BY <2>1, <2>3, <2>5 DEF AckInv, ListAcks
      <3>2. k = Len(cmd_list) + 1
        BY <2>4, <2>5, <3>1
      <3> QED
        BY <1>2, <2>2, <2>5, <3>2 DEF Awaiting, waits_for_ack
    <2>8. SentAcks' /\ StreamAcks'
      BY <2>2, <2>3 DEF AckInv, SentAcks, StreamAcks, ackAt, holds
    <2> QED
      BY <1>2, <2>6, <2>7, <2>8 DEF AckInv, AckMeansDelivered
  <1> QED
    BY <1>1, <1>2 DEF event_queue_add

(* The program stops awaiting when it is woken, and then all was read.     *)
LEMMA AckCheck ==
    ASSUME OwnAcks, AckTypes, AckInv, post_check \/ event_wait_ack PROVE AckInv'
  <1>1. UNCHANGED <<cmd_list, posted, sent, got, evt_in, cmd_pc, dev_cmd>>
    BY DEF post_check, event_wait_ack, cmdVars, sockVars, evtVars
  <1>2. doubled' = doubled
    BY <1>1 DEF doubled
  <1>3. Awaiting => Awaiting'
    BY <1>1 DEF OwnAcks, post_check, event_wait_ack, Awaiting, waits_for_ack
  <1>4. dev_pc' # "woken"
    BY DEF OwnAcks, post_check, event_wait_ack
  <1> QED
    BY <1>1, <1>2, <1>3, <1>4, AckQuiet

(* Sending the head of the list moves it from ListAcks to SentAcks.        *)
LEMMA AckCmd ==
    ASSUME OwnAcks, AckTypes, AckInv, CmdThread PROVE AckInv'
  <1>1. UNCHANGED <<dev_pc, dev_cmd, posted, evt_in>>
    BY DEF CmdThread, devVars, evtVars
  <1>2. /\ cmd_list \in Seq(Cmds) /\ sent \in Seq(Frames) /\ got \in Nat /\ posted \in Nat
        /\ cmd_pc \in {"sending", "sent"} => cmd_list # <<>>
    BY DEF AckTypes, QueueInv, SockTyped
  <1>3. Awaiting' <=> Awaiting
    BY <1>1 DEF Awaiting, waits_for_ack
  <1>4. CASE UNCHANGED <<cmd_list, sent, got>> /\ doubled' = doubled
    BY <1>1, <1>3, <1>4, AckQuiet DEF AckInv, AckMeansDelivered
  <1>5. CASE cmd_write /\ sent' = Append(sent, frame(Head(cmd_list))) /\ cmd_pc' = "sent"
    <2>1. doubled = 0 /\ doubled' = 1 /\ cmd_list' = cmd_list /\ got' = got
          /\ cmd_list # <<>>
      BY <1>2, <1>5 DEF cmd_write, doubled, cmdVars
    <2>2. /\ Len(sent') = Len(sent) + 1 /\ \A k \in 1..Len(sent) : sent'[k] = sent[k]
          /\ sent'[Len(sent) + 1] = frame(cmd_list[1]) /\ cmd_list[1] \in Cmds
          /\ Len(cmd_list) \in Nat \ {0}
      BY <1>2, <1>5, <2>1
    <2>3. Counted'
      BY <1>1, <1>2, <2>1, <2>2 DEF AckInv, Counted
    <2>4. ListAcks'
      BY <1>3, <2>1 DEF AckInv, ListAcks
    <2>5. SentAcks'
      <3> SUFFICES ASSUME NEW k \in 1..Len(sent'), k > got, acked(sent'[k])
                   PROVE  Awaiting /\ k = posted
        BY <1>1, <1>3, <2>1 DEF SentAcks
      <3>1. CASE k \in 1..Len(sent)
        BY <2>2, <3>1 DEF AckInv, SentAcks
      <3>2. CASE k = Len(sent) + 1
        <4>1. waits_for_ack(cmd_list[1])
          BY <2>2, <3>2, FrameAcked
        <4>2. Awaiting /\ Len(cmd_list) = 1
          <5>1. 1 \in 1..Len(cmd_list) /\ 1 > doubled
            BY <2>1, <2>2
          <5>2. Awaiting /\ 1 = Len(cmd_list)
            BY <4>1, <5>1, Zenon DEF AckInv, ListAcks
          <5> QED
            BY <5>2
        <4> QED
          BY <1>2, <2>1, <3>2, <4>2 DEF AckInv, Counted
      <3> QED
        BY <1>2, <2>2, <3>1, <3>2
    <2>6. StreamAcks' /\ AckMeansDelivered'
      BY <1>1, <1>3, <2>1 DEF AckInv, StreamAcks, ackAt, holds, AckMeansDelivered
    <2> QED
      BY <2>3, <2>4, <2>5, <2>6 DEF AckInv
  <1>6. CASE cmd_remove
    <2>1. doubled = 1 /\ doubled' = 0 /\ cmd_list' = Tail(cmd_list)
          /\ got' = got /\ sent' = sent /\ cmd_list # <<>>
      BY <1>2, <1>6 DEF cmd_remove, doubled, sockVars
    <2>2. /\ Len(cmd_list') = Len(cmd_list) - 1 /\ Len(cmd_list) \in Nat \ {0}
          /\ \A k \in 1..Len(cmd_list') : cmd_list'[k] = cmd_list[k + 1]
      BY <1>2, <2>1
    <2>3. Counted'
      BY <1>1, <1>2, <2>1, <2>2 DEF AckInv, Counted
    <2>4. ListAcks'
      <3> SUFFICES ASSUME NEW k \in 1..Len(cmd_list'), waits_for_ack(cmd_list'[k])
                   PROVE  Awaiting /\ k = Len(cmd_list')
        BY <1>3 DEF ListAcks, waits_for_ack
      <3>1. k + 1 \in 1..Len(cmd_list) /\ k + 1 > doubled
            /\ waits_for_ack(cmd_list[k + 1])
        BY <2>1, <2>2
      <3>2. Awaiting /\ k + 1 = Len(cmd_list)
        BY <3>1 DEF AckInv, ListAcks
      <3> QED
        BY <2>2, <3>2
    <2>5. SentAcks' /\ StreamAcks' /\ AckMeansDelivered'
      BY <1>1, <1>3, <2>1 DEF AckInv, SentAcks, StreamAcks, ackAt, holds,
                              AckMeansDelivered
    <2> QED
      BY <2>3, <2>4, <2>5 DEF AckInv
  <1> QED
    BY <1>4, <1>5, <1>6
       DEF CmdThread, cmd_connect, cmd_wait, cmd_drain, cmd_write, cmd_free, cmdVars,
           sockVars, doubled

(* The monitor turns the last event sent into the acknowledge.             *)
LEMMA AckMonitor ==
    ASSUME OwnAcks, AckTypes, AckInv, Monitor PROVE AckInv'
  <1>1. UNCHANGED <<dev_pc, dev_cmd, posted, cmd_list, cmd_pc, sent>>
    BY DEF Monitor, MonitorRead, monitor_read, monitor_send, monitor_close, devVars,
           cmdVars, sockVars
  <1>2. /\ cmd_list \in Seq(Cmds) /\ sent \in Seq(Frames) /\ got \in Nat /\ posted \in Nat
        /\ cmd_pc = "sent" => cmd_list # <<>>
    BY DEF AckTypes, QueueInv, SockTyped
  <1>3. (Awaiting' <=> Awaiting) /\ doubled' = doubled
    BY <1>1 DEF Awaiting, waits_for_ack, doubled
  <1>4. CASE UNCHANGED <<got, evt_in>>
    BY <1>1, <1>3, <1>4, AckQuiet DEF AckInv, AckMeansDelivered
  <1>5. PICK K \in Nat : Len(evt_in) = 4 * K
    BY DEF AckTypes, Whole
  <1>6. ASSUME NEW m, Message(m), Added(m)
        PROVE  /\ \A k \in Nat : ackAt(evt_in', k) => k = K \/ ackAt(evt_in, k)
               /\ ackAt(evt_in', K) <=> m[1] = SCALA_ACK_EVT
    <2>1. /\ Len(evt_in') = 4 * (K + 1)
          /\ \A k \in Nat : k < K => \A i \in 1..4 :
                                        evt_in'[4 * k + i] = evt_in[4 * k + i]
          /\ \A i \in 1..4 : evt_in'[4 * K + i] = m[i]
      BY <1>5, <1>6, AddedLast, Zenon DEF AckTypes
    <2> QED
      BY <1>5, <2>1 DEF ackAt, holds
  <1>7. CASE MonitorRead
    <2>1. /\ got' = got + 1 /\ got < Len(sent)
          /\ IF acked(sent[got + 1]) THEN Added(AckMsg) ELSE evt_in' = evt_in
      BY <1>7 DEF MonitorRead, monitor_read, acked, Added
    <2>2. got < posted
      BY <1>2, <2>1 DEF AckInv, Counted, doubled
    <2>3. /\ \A k \in Nat : ~ackAt(evt_in, k)
          /\ dev_pc # "woken"
      BY <1>2, <2>2 DEF AckInv, StreamAcks, AckMeansDelivered
    <2>4. Counted' /\ ListAcks' /\ SentAcks' /\ AckMeansDelivered'
      BY <1>1, <1>2, <1>3, <2>1, <2>3
         DEF AckInv, Counted, ListAcks, SentAcks, AckMeansDelivered
    <2>5. CASE acked(sent[got + 1])
      <3>1. Awaiting /\ got + 1 = posted
        BY <1>2, <2>1, <2>5 DEF AckInv, SentAcks
      <3>2. \A k \in Nat : ackAt(evt_in', k) => k = K
        <4>1. Added(AckMsg) /\ Message(AckMsg)
          BY <2>1, <2>5, AckIsMessage, Zenon
        <4> QED
          BY <1>6, <2>3, <4>1, Zenon
      <3> QED
        BY <1>1, <1>3, <2>1, <2>4, <3>1, <3>2 DEF AckInv, StreamAcks
    <2>6. CASE evt_in' = evt_in
      BY <2>3, <2>4, <2>6 DEF AckInv, StreamAcks, ackAt, holds
    <2> QED
      BY <2>1, <2>5, <2>6
  <1>8. ASSUME NEW m \in MonitorMsgs, monitor_send(m) PROVE AckInv'
    <2>1. Added(m) /\ Message(m) /\ got' = got /\ m[1] # SCALA_ACK_EVT
      BY <1>8, MonitorSendsMessages DEF monitor_send, Added, sockVars, OwnAcks
    <2>2. \A k \in Nat : ackAt(evt_in', k) => ackAt(evt_in, k)
      BY <1>6, <2>1
    <2> QED
      BY <1>1, <1>3, <2>1, <2>2
         DEF AckInv, Counted, ListAcks, SentAcks, StreamAcks, AckMeansDelivered
  <1> QED
    BY <1>4, <1>7, <1>8 DEF Monitor, monitor_close, evtVars

(* Reading the acknowledge leaves none in the stream.                      *)
LEMMA AckEvt ==
    ASSUME OwnAcks, AckTypes, AckInv, EvtThread PROVE AckInv'
  <1>1. UNCHANGED <<dev_cmd, posted, cmd_list, cmd_pc, sent, got>>
    BY DEF EvtThread, cmdVars, sockVars
  <1>2. doubled' = doubled
    BY <1>1 DEF doubled
  <1>3. CASE UNCHANGED <<evt_in, dev_pc>>
    BY <1>1, <1>2, <1>3, AckQuiet DEF AckInv, Awaiting, waits_for_ack,
                                      AckMeansDelivered
  <1>4. ASSUME NEW n \in ReadSizes, evt_read(n) PROVE AckInv'
    <2>1. /\ Taken
          /\ dev_pc' = IF evt_in[1] = SCALA_ACK_EVT THEN dev_signalled ELSE dev_pc
      BY <1>4, ReadEffect DEF OwnAcks, AckTypes
    <2>2. \A k \in Nat : k + 1 \in Nat /\ k + 1 # 0
                         /\ (ackAt(evt_in', k) => ackAt(evt_in, k + 1))
      <3>1. /\ Len(evt_in') = Len(evt_in) - 4 /\ Len(evt_in) \in Nat
            /\ \A k \in Nat : 4 * k + 4 <= Len(evt_in') =>
                  evt_in'[4 * k + 1] = evt_in[4 * (k + 1) + 1]
        <4>1. Whole /\ Len(evt_in) \in Nat
          BY DEF AckTypes, Whole
        <4>2. /\ Len(evt_in') = Len(evt_in) - 4
              /\ \A k \in Nat : 4 * k + 4 <= Len(evt_in') =>
                   \A i \in 1..4 : evt_in'[4 * k + i] = evt_in[4 * (k + 1) + i]
          BY <2>1, <4>1, TakenShifts, Zenon
        <4> QED
          BY <4>1, <4>2
      <3> QED
        BY <3>1 DEF ackAt, holds
    <2>3. ackAt(evt_in, 0) <=> evt_in[1] = SCALA_ACK_EVT
      BY <2>1 DEF ackAt, holds, Taken
    <2>4. CASE dev_pc' = dev_pc
      <3>1. Awaiting' <=> Awaiting
        BY <1>1, <2>4 DEF Awaiting, waits_for_ack
      <3>2. StreamAcks'
        <4>1. \A k \in Nat : ackAt(evt_in', k) => Awaiting' /\ got' = posted'
          BY <1>1, <2>2, <3>1 DEF AckInv, StreamAcks
        <4>2. \A j, k \in Nat : ackAt(evt_in', j) /\ ackAt(evt_in', k) => j + 1 = k + 1
          BY <2>2 DEF AckInv, StreamAcks
        <4>3. \A j, k \in Nat : j + 1 = k + 1 => j = k
          OBVIOUS
        <4> QED
          BY <4>1, <4>2, <4>3 DEF StreamAcks, ackAt, holds
      <3> QED
        BY <1>1, <1>2, <2>4, <3>1, <3>2
           DEF AckInv, Counted, ListAcks, SentAcks, AckMeansDelivered
    <2>5. CASE dev_pc' # dev_pc
      <3>1. ackAt(evt_in, 0) /\ dev_pc' = "woken" /\ 0 \in Nat
        BY <2>1, <2>3, <2>5 DEF dev_signalled
      <3>2. got = posted
        BY <3>1 DEF AckInv, StreamAcks
      <3>3. \A k \in Nat : ~ackAt(evt_in', k)
        BY <2>2, <3>1 DEF AckInv, StreamAcks
      <3>4. /\ \A k \in 1..Len(sent) : ~(k > got /\ acked(sent[k]))
            /\ \A k \in 1..Len(cmd_list) : ~(k > doubled /\ waits_for_ack(cmd_list[k]))
        BY <3>2 DEF AckInv, Counted, AckTypes, QueueInv, SockTyped, doubled
      <3> QED
        BY <1>1, <1>2, <3>1, <3>2, <3>3, <3>4
           DEF AckInv, Counted, ListAcks, SentAcks, StreamAcks, AckMeansDelivered
    <2> QED
      BY <2>4, <2>5
  <1> QED
    BY <1>3, <1>4 DEF EvtThread, evt_connect, evt_eof

(* The invariant is inductive.                                             *)
LEMMA AckStep ==
    ASSUME OwnAcks, AckTypes, AckInv, [Next]_vars PROVE AckInv'
  <1>1. CASE \E c \in Cmds : event_post(c)
    BY <1>1, AckQuiet DEF event_post, cmdVars, sockVars, evtVars, doubled, Awaiting
  <1>2. CASE machine_reset
    BY <1>2 DEF machine_reset, OwnAcks
  <1>3. CASE UNCHANGED vars
    BY <1>3, AckQuiet DEF vars, cmdVars, devVars, sockVars, evtVars, doubled, Awaiting,
                          waits_for_ack, AckInv, AckMeansDelivered
  <1> QED
    BY <1>1, <1>2, <1>3, AckAdd, AckCheck, AckCmd, AckEvt, AckMonitor
       DEF Next, Handler

(* When event_wait_ack returns, the monitor has read the event and all     *)
(* that was posted before it, for every traffic and although connections   *)
(* and writes may fail; lost acknowledges leave the program waiting, they  *)
(* never let it run early.                                                 *)
THEOREM EmulAckMeansDelivered == ASSUME OwnAcks PROVE Spec => []AckMeansDelivered
  <1>1. Init => SockTyped /\ AckInv
    BY DEF Init, SockTyped, AckInv, Counted, ListAcks, SentAcks, StreamAcks, ackAt,
           holds, doubled, AckMeansDelivered
  <1>2. QueueInv /\ SockTyped /\ Whole /\ AckInv /\ [Next]_vars => AckInv'
    BY AckStep DEF AckTypes
  <1>3. AckInv => AckMeansDelivered
    BY DEF AckInv
  <1>4. Spec => []Whole
    BY WholeInvariant DEF OwnAcks
  <1> QED
    BY <1>1, <1>2, <1>3, <1>4, QueueInvariant, SockStep, PTL DEF Spec
=============================================================================
