------------------------------ MODULE P103Emul ------------------------------
(***************************************************************************)
(* The TCP gateway of the emulated board (hw/arm/stm32_p103_emul.c), with  *)
(* the handlers that feed it: output_write_handler (hw/arm/stm32_p103.c)   *)
(* and the UART5 accesses of hw/char/stm32_uart.c.  Four processes:        *)
(*                                                                         *)
(*   dev      device handlers, run under QEMU's global lock by the virtual *)
(*            CPU (or the main loop at reset), so one at a time; between   *)
(*            them runs the software, of which only the wait for the       *)
(*            acknowledge (QemuLogger::send_event) is seen here            *)
(*   cmd      stm32p103_emul_cmd_thread                                    *)
(*   evt      stm32p103_emul_evt_handle                                    *)
(*   monitor  the server at the other end of the two sockets (external)    *)
(*                                                                         *)
(* Condition variables have no predicate in the code: a signal that finds  *)
(* no waiter is lost.  Faults names the failures a run allows.             *)
(***************************************************************************)
EXTENDS Integers, Sequences

CONSTANTS Outputs,     \* numbers of the LED outputs the software drives
          Events,      \* identifiers of the events the software posts
          AckedEvents, \* those it waits for, and the monitor acknowledges
          MonitorMsgs, \* four-byte messages the monitor sends by itself
          ReadSizes,   \* how many bytes read() may return to the evt thread
          QueueLimit,  \* 1023 in the code
          SockCap,     \* frames the command socket holds before write blocks
          MaxPosts,    \* bound on the commands posted
          MaxMsgs,     \* bound on the messages sent from MonitorMsgs
          Faults       \* what may go wrong

Byte == 0..255

ASSUME P103Assumption ==
    /\ Outputs \subseteq 0..4
    /\ Events \subseteq Byte
    /\ AckedEvents \subseteq Events
    /\ MonitorMsgs \subseteq Byte \X Byte \X Byte \X Byte
    /\ ReadSizes \subseteq 1..4
    /\ QueueLimit \in Nat /\ SockCap \in Nat \ {0}
    /\ MaxPosts \in Nat /\ MaxMsgs \in Nat
    /\ Faults \subseteq {"connect", "write", "close", "spurious", "reset"}

VARIABLES
    cmd_list,        \* commands queued for the monitor, oldest first
    cmd_list_size,
    cmd_pc,          \* where the cmd thread stands
    dev_pc,          \* where the posting handler, or the software, stands
    dev_cmd,         \* the command it posts
    dev_size,        \* the queue size it read without the lock
    posted,          \* how many commands were queued so far
    sent,            \* the frames written to the command socket
    got,             \* how many of them the monitor has read
    evt_pc,          \* where the evt thread stands
    evt_in,          \* bytes on their way to the evt thread
    btn_level,       \* levels of the button pins
    btn_sent,        \* history: the levels the monitor asked for
    msgs,            \* how many messages the monitor sent by itself
    open,            \* the monitor has not closed its connections
    halted           \* "no", or how the emulator ended

cmdVars == <<cmd_list, cmd_list_size>>
devVars == <<dev_pc, dev_cmd, dev_size, posted>>
sockVars == <<sent, got, open>>
evtVars == <<evt_pc, evt_in, btn_level, btn_sent, msgs>>
vars == <<cmdVars, cmd_pc, devVars, sockVars, evtVars, halted>>

-----------------------------------------------------------------------------
(* Commands and messages                                                   *)

DIGITAL_OUT == 0
C_EVENT == 16
SCALA_DIGITAL_IN == 86
SCALA_ACK_EVT == 65

post_event_digital_out(port, pin, value) ==
    [id |-> DIGITAL_OUT, port |-> port, pin |-> pin, value |-> value]

post_event_c(eventId) ==
    [id |-> C_EVENT, port |-> 0, pin |-> 0, value |-> eventId % 256]

(* Ports are letters, 'B' = 66 and 'C' = 67.                               *)
output_write_handler(n, level) ==
    CASE n = 0 -> post_event_digital_out(67, 12, level)
      [] n = 1 -> post_event_digital_out(67, 3, level)
      [] n = 2 -> post_event_digital_out(67, 4, level)
      [] n = 3 -> post_event_digital_out(66, 8, level)
      [] n = 4 -> post_event_digital_out(66, 9, level)

Cmds == {output_write_handler(n, level) : n \in Outputs, level \in {0, 1}}
        \cup {post_event_c(e) : e \in Events}

(* The JSON frame of a command: an event has no pin.                       *)
frame(cmd) ==
    IF cmd.id = C_EVENT
    THEN [msgId |-> cmd.id, value |-> cmd.value]
    ELSE [msgId |-> cmd.id, pin |-> [port |-> cmd.port, nbr |-> cmd.pin],
          value |-> cmd.value]

Frames == {frame(c) : c \in Cmds}

(* QemuLogger::send_event(id, true): the software reads UART5 DR next.     *)
waits_for_ack(cmd) == cmd.id = C_EVENT /\ cmd.value \in AckedEvents

-----------------------------------------------------------------------------
(* dev: stm32p103_emul_event_post and event_wait_ack                       *)

(* The size is read before the queue is locked.                            *)
event_post(c) ==
    /\ dev_pc = "run" /\ posted < MaxPosts
    /\ dev_cmd' = c
    /\ dev_size' = cmd_list_size
    /\ dev_pc' = "queue"
    /\ UNCHANGED <<cmdVars, cmd_pc, posted, sockVars, evtVars, halted>>

(* Mutant of cmd_mutex_free: the thread keeps the lock while it waits.     *)
cmd_mutex_free_not_waiting == cmd_pc \notin {"waiting", "sending", "sent"}

cmd_mutex_free == cmd_pc \notin {"sending", "sent"}

cmd_signalled == IF cmd_pc = "waiting" THEN "woken" ELSE cmd_pc

(* Mutant of event_queue_add: the command is not counted.                  *)
event_queue_add_uncounted ==
    /\ dev_pc = "queue" /\ cmd_mutex_free
    /\ cmd_list' = Append(cmd_list, dev_cmd)
    /\ cmd_pc' = cmd_signalled
    /\ posted' = posted + 1
    /\ dev_pc' = "check"
    /\ UNCHANGED <<cmd_list_size, halted, dev_cmd, dev_size, sockVars, evtVars>>

(* After a failed write the head of the list is freed memory.  Linking a   *)
(* command behind it is undefined: it may still work, or crash.            *)
event_queue_add ==
    /\ dev_pc = "queue" /\ cmd_mutex_free
    /\ \/ /\ cmd_list' = Append(cmd_list, dev_cmd)
          /\ cmd_list_size' = cmd_list_size + 1
          /\ cmd_pc' = cmd_signalled
          /\ posted' = posted + 1
          /\ dev_pc' = "check"
          /\ UNCHANGED halted
       \/ /\ cmd_pc = "failed" /\ Len(cmd_list) = 1
          /\ halted' = "crash"
          /\ UNCHANGED <<cmdVars, cmd_pc, posted, dev_pc>>
    /\ UNCHANGED <<dev_cmd, dev_size, sockVars, evtVars>>

(* Mutant of post_check: the limit is off by one.                          *)
post_check_late ==
    /\ dev_pc = "check"
    /\ \/ dev_size > QueueLimit + 1 /\ halted' = "exit" /\ UNCHANGED dev_pc
       \/ /\ dev_size <= QueueLimit + 1
          /\ dev_pc' = IF waits_for_ack(dev_cmd) THEN "ack" ELSE "run"
          /\ UNCHANGED halted
    /\ UNCHANGED <<cmdVars, cmd_pc, dev_cmd, dev_size, posted, sockVars, evtVars>>

post_check ==
    /\ dev_pc = "check"
    /\ \/ /\ dev_size > QueueLimit
          /\ halted' = "exit"
          /\ UNCHANGED dev_pc
       \/ /\ dev_size <= QueueLimit
          /\ dev_pc' = IF waits_for_ack(dev_cmd) THEN "ack" ELSE "run"
          /\ UNCHANGED halted
    /\ UNCHANGED <<cmdVars, cmd_pc, dev_cmd, dev_size, posted, sockVars, evtVars>>

event_wait_ack ==
    /\ \/ dev_pc = "ack" /\ dev_pc' = "waiting"
       \/ dev_pc = "waiting" /\ "spurious" \in Faults /\ dev_pc' = "woken"
       \/ dev_pc = "woken" /\ dev_pc' = "run"
    /\ UNCHANGED <<cmdVars, cmd_pc, dev_cmd, dev_size, posted, sockVars, evtVars,
                   halted>>

(* A reset of the machine restarts the software before it waits.  The      *)
(* outputs that the reset lowers are ordinary posts.                       *)
machine_reset ==
    /\ "reset" \in Faults
    /\ dev_pc = "ack" /\ dev_pc' = "run"
    /\ UNCHANGED <<cmdVars, cmd_pc, dev_cmd, dev_size, posted, sockVars, evtVars,
                   halted>>
-----------------------------------------------------------------------------
(* cmd: stm32p103_emul_cmd_thread                                          *)

cmd_connect ==
    /\ cmd_pc = "start"
    /\ \/ cmd_pc' = "wait"
       \/ "connect" \in Faults /\ cmd_pc' = "ended"
    /\ UNCHANGED <<cmdVars, sockVars>>

cmd_wait ==
    /\ \/ cmd_pc = "wait" /\ cmd_pc' = "waiting"
       \/ cmd_pc = "waiting" /\ "spurious" \in Faults /\ cmd_pc' = "woken"
       \/ cmd_pc = "woken" /\ cmd_pc' = "drain"
    /\ UNCHANGED <<cmdVars, sockVars>>

(* The test of the loop is made without the lock, which is then taken.     *)
cmd_drain ==
    /\ cmd_pc = "drain"
    /\ cmd_pc' = IF cmd_list = <<>> THEN "wait" ELSE "sending"
    /\ UNCHANGED <<cmdVars, sockVars>>

(* Mutant of cmd_write: a command that could not be sent is removed.       *)
cmd_write_drops ==
    /\ cmd_pc = "sending" /\ cmd_pc' = "sent"
    /\ \/ /\ open /\ Len(sent) - got < SockCap
          /\ sent' = Append(sent, frame(Head(cmd_list)))
       \/ (~open \/ "write" \in Faults) /\ UNCHANGED sent
    /\ UNCHANGED <<cmdVars, got, open>>

cmd_write ==
    /\ cmd_pc = "sending"
    /\ \/ /\ open /\ Len(sent) - got < SockCap
          /\ sent' = Append(sent, frame(Head(cmd_list)))
          /\ cmd_pc' = "sent"
       \/ /\ ~open \/ "write" \in Faults
          /\ cmd_pc' = "free"
          /\ UNCHANGED sent
    /\ UNCHANGED <<cmdVars, got, open>>

(* Mutants of cmd_remove: the counter is forgotten; one command is sent    *)
(* for each wakeup.                                                        *)
cmd_remove_uncounted ==
    /\ cmd_pc = "sent" /\ cmd_pc' = "drain"
    /\ cmd_list' = Tail(cmd_list)
    /\ UNCHANGED <<cmd_list_size, sockVars>>

cmd_remove_once ==
    /\ cmd_pc = "sent" /\ cmd_pc' = "wait"
    /\ cmd_list' = Tail(cmd_list)
    /\ cmd_list_size' = cmd_list_size - 1
    /\ UNCHANGED sockVars

cmd_remove ==
    /\ cmd_pc = "sent"
    /\ cmd_list' = Tail(cmd_list)
    /\ cmd_list_size' = cmd_list_size - 1
    /\ cmd_pc' = "drain"
    /\ UNCHANGED sockVars

(* The lock is released before the command, still in the list, is freed.   *)
cmd_free ==
    /\ cmd_pc = "free" /\ cmd_pc' = "failed"
    /\ UNCHANGED <<cmdVars, sockVars>>
-----------------------------------------------------------------------------
(* evt: stm32p103_emul_evt_handle                                          *)

evt_connect ==
    /\ evt_pc = "start"
    /\ \/ evt_pc' = "read"
       \/ "connect" \in Faults /\ evt_pc' = "ended"
    /\ UNCHANGED <<evt_in, btn_level, btn_sent, msgs, dev_pc>>

(* Mutant of set_digital_in: the value is not normalised to a level.       *)
set_digital_in_raw(btId, value) ==
    IF btId \in 0..3 THEN [btn_level EXCEPT ![btId] = value] ELSE btn_level

set_digital_in(btId, value) ==
    IF btId \in 0..3
    THEN [btn_level EXCEPT ![btId] = IF value = 0 THEN 0 ELSE 1]
    ELSE btn_level

dev_signalled == IF dev_pc = "waiting" THEN "woken" ELSE dev_pc

(* Mutant of evt_message: any message counts as the acknowledge.           *)
evt_message_always_acks(data) ==
    /\ btn_level' = IF data[1] = SCALA_DIGITAL_IN
                    THEN set_digital_in(data[3], data[4]) ELSE btn_level
    /\ dev_pc' = dev_signalled

(* The first byte on the wire is byte[3] of the value.                     *)
evt_message(data) ==
    /\ btn_level' = IF data[1] = SCALA_DIGITAL_IN
                    THEN set_digital_in(data[3], data[4]) ELSE btn_level
    /\ dev_pc' = IF data[1] = SCALA_ACK_EVT THEN dev_signalled ELSE dev_pc

(* A read of less than four bytes is dropped and the loop goes on.  A read *)
(* error is a busy loop that changes nothing.                              *)
evt_read(n) ==
    /\ evt_pc = "read" /\ n <= Len(evt_in)
    /\ evt_in' = SubSeq(evt_in, n + 1, Len(evt_in))
    /\ \/ n = 4 /\ evt_message(SubSeq(evt_in, 1, 4))
       \/ n < 4 /\ UNCHANGED <<btn_level, dev_pc>>
    /\ UNCHANGED <<evt_pc, btn_sent, msgs>>

evt_eof ==
    /\ evt_pc = "read" /\ ~open /\ evt_in = <<>>
    /\ evt_pc' = "ended"
    /\ UNCHANGED <<evt_in, btn_level, btn_sent, msgs, dev_pc>>
-----------------------------------------------------------------------------
(* monitor                                                                 *)

AckMsg == <<SCALA_ACK_EVT, 0, 0, 0>>

monitor_read ==
    /\ open /\ got < Len(sent)
    /\ got' = got + 1
    /\ LET f == sent[got + 1] IN
       evt_in' = IF f.msgId = C_EVENT /\ f.value \in AckedEvents
                 THEN evt_in \o AckMsg ELSE evt_in
    /\ UNCHANGED <<sent, open, evt_pc, btn_level, btn_sent, msgs>>

monitor_send(m) ==
    /\ open /\ evt_pc = "read" /\ msgs < MaxMsgs
    /\ msgs' = msgs + 1
    /\ evt_in' = evt_in \o m
    /\ btn_sent' = IF m[1] = SCALA_DIGITAL_IN /\ m[3] \in 0..3
                   THEN [btn_sent EXCEPT ![m[3]] = IF m[4] = 0 THEN 0 ELSE 1]
                   ELSE btn_sent
    /\ UNCHANGED <<sockVars, evt_pc, btn_level>>

monitor_close ==
    /\ "close" \in Faults
    /\ open /\ open' = FALSE
    /\ UNCHANGED <<sent, got, evtVars>>
-----------------------------------------------------------------------------
Init ==
    /\ cmd_list = <<>> /\ cmd_list_size = 0 /\ cmd_pc = "start"
    /\ dev_pc = "run" /\ dev_cmd \in Cmds /\ dev_size = 0 /\ posted = 0
    /\ sent = <<>> /\ got = 0 /\ open = TRUE
    /\ evt_pc = "start" /\ evt_in = <<>>
    /\ btn_level = [b \in 0..3 |-> 0] /\ btn_sent = [b \in 0..3 |-> 0]
    /\ msgs = 0
    /\ halted = "no"

Handler == event_queue_add \/ post_check \/ event_wait_ack

CmdThread ==
    /\ \/ cmd_connect \/ cmd_wait \/ cmd_drain \/ cmd_write \/ cmd_remove
       \/ cmd_free
    /\ UNCHANGED <<devVars, evtVars, halted>>

EvtThread ==
    /\ evt_connect \/ evt_eof \/ \E n \in ReadSizes : evt_read(n)
    /\ UNCHANGED <<cmdVars, cmd_pc, dev_cmd, dev_size, posted, sockVars, halted>>

MonitorRead == monitor_read /\ UNCHANGED <<cmdVars, cmd_pc, devVars, halted>>

Monitor ==
    \/ MonitorRead
    \/ /\ monitor_close \/ \E m \in MonitorMsgs : monitor_send(m)
       /\ UNCHANGED <<cmdVars, cmd_pc, devVars, halted>>

Next ==
    /\ halted = "no"
    /\ \/ \E c \in Cmds : event_post(c)
       \/ machine_reset
       \/ Handler
       \/ CmdThread
       \/ EvtThread
       \/ Monitor

Spec == Init /\ [][Next]_vars

(* The threads are scheduled by the host and a handler once begun runs on; *)
(* the monitor keeps reading its socket.                                   *)
FairSpec ==
    /\ Spec
    /\ WF_vars(halted = "no" /\ Handler)
    /\ WF_vars(halted = "no" /\ CmdThread)
    /\ WF_vars(halted = "no" /\ EvtThread)
    /\ WF_vars(halted = "no" /\ MonitorRead)
-----------------------------------------------------------------------------
(* Properties                                                              *)

(* Every variable keeps its type.                                          *)
TypeOK ==
    /\ cmd_list \in Seq(Cmds) /\ cmd_list_size \in Nat
    /\ cmd_pc \in {"start", "wait", "waiting", "woken", "drain", "sending",
                   "sent", "free", "failed", "ended"}
    /\ dev_pc \in {"run", "queue", "check", "ack", "waiting", "woken"}
    /\ dev_cmd \in Cmds /\ dev_size \in Nat /\ posted \in Nat
    /\ sent \in Seq(Frames) /\ got \in Nat
    /\ evt_pc \in {"start", "read", "ended"} /\ evt_in \in Seq(Byte)
    /\ btn_level \in [0..3 -> {0, 1}] /\ btn_sent \in [0..3 -> {0, 1}]
    /\ msgs \in Nat /\ open \in BOOLEAN
    /\ halted \in {"no", "exit", "crash"}

(* The counter that decides on exit(-1) counts the list, at every moment   *)
(* one of the threads could look at it and after a failed write.           *)
SizeMatches == cmd_list_size = Len(cmd_list)

(* The queue is bounded although the limit is tested on a size read before *)
(* the lock: it is never longer than QueueLimit + 2 (1025 in the code),    *)
(* and QueueLimit + 1 once the post that may exit has returned.            *)
QueueBound ==
    /\ Len(cmd_list) <= QueueLimit + 2
    /\ dev_pc # "check" => Len(cmd_list) <= QueueLimit + 1

frames(s) == [i \in 1..Len(s) |-> frame(s[i])]

(* What is queued and not yet written to the socket.                       *)
unsent == frames(IF cmd_pc = "sent" THEN Tail(cmd_list) ELSE cmd_list)

Gateway == INSTANCE FifoChannel WITH Msgs <- Frames, Capacity <- QueueLimit + 2,
                                     Lossy <- FALSE,
                                     pending <- unsent, wire <- sent

(* The monitor is sent the commands in the order they were posted, each    *)
(* once and none left out, whatever fails.                                 *)
GatewayIsFifo == Gateway!Spec

(* event_wait_ack returns only when the monitor has read the event waited  *)
(* for, and with it everything posted before.                              *)
AckMeansDelivered == dev_pc = "woken" => got = posted

(* When everything the monitor sent has been read, the button pins have    *)
(* the levels it asked for last.                                           *)
ButtonsSettle == evt_pc = "read" /\ evt_in = <<>> => btn_level = btn_sent

(* A post is not held up for ever by the thread that sends: the lock it    *)
(* waits for is released, although write() may block while it is held.     *)
PostReturns == (dev_pc = "queue") ~> (dev_pc # "queue" \/ halted # "no")

(* A wakeup of the cmd thread empties the queue, not just its head.        *)
WakeupDrains == (cmd_pc = "woken") ~> (cmd_list = <<>> \/ halted # "no")

(* Output changes are sent to the monitor.                                 *)
OutputsSent == (cmd_list # <<>>) ~> (cmd_list = <<>> \/ halted # "no")

(* The software continues once the monitor's acknowledge has arrived.      *)
EventConfirmed ==
    (dev_pc \in {"ack", "waiting"} /\ evt_in # <<>>) ~> (dev_pc = "run")
=============================================================================
