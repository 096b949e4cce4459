------------------------------ MODULE Devices ------------------------------
(***************************************************************************)
(* Threads that print, read from the console, and use the disks, with the  *)
(* interrupts of the serial port and the disk channel (Console, Ide).      *)
(***************************************************************************)
EXTENDS Ide

vars == <<consoleVars, ideVars>>

(* What the threads print.  A byte tells whether it is of a text or of the *)
(* message, and in the instance checked, of which text.                    *)
Texts ==
  UNION {{Script[t][i].text : i \in {j \in DOMAIN Script[t] : Script[t][j].op = "putbuf"}} :
           t \in Thread}

ASSUME TextAssumption == \A x \in Texts : \A j \in 1..Len(x) : x[j] # Message

Init == ConsoleInit /\ IdeInit

ThreadStep(t) ==
  \/ putbuf(t) /\ UNCHANGED ideVars
  \/ serial_putc(t) /\ UNCHANGED ideVars
  \/ release_console(t) /\ UNCHANGED ideVars
  \/ serial_flush(t) /\ UNCHANGED ideVars
  \/ input_getc(t) /\ UNCHANGED ideVars
  \/ block_op(t)
  \/ select_sector(t)
  \/ Expect(t)
  \/ issue_pio_command(t)
  \/ sema_down(t)
  \/ Transfer(t)
  \/ lock_release(t)

(* The port's side of the serial line. *)
UartStep == (Transmit \/ Receive) /\ UNCHANGED ideVars

SerialInterrupt == serial_interrupt /\ UNCHANGED ideVars

Next ==
  /\ ~panic
  /\ \/ \E t \in Thread : ThreadStep(t)
     \/ UartStep
     \/ SerialInterrupt
     \/ DiskWorks
     \/ interrupt_handler

(* The scheduler is round robin among equal priorities, the port and the   *)
(* disk finish what they started, and pending interrupts are delivered.    *)
Spec ==
  /\ Init /\ [][Next]_vars
  /\ \A t \in Thread : WF_vars(~panic /\ ThreadStep(t))
  /\ WF_vars(~panic /\ UartStep)
  /\ WF_vars(~panic /\ SerialInterrupt)
  /\ WF_vars(~panic /\ DiskWorks)
  /\ WF_vars(~panic /\ interrupt_handler)
-----------------------------------------------------------------------------
Byte(r) == IF r = NULL THEN <<>> ELSE <<r>>

(* struct intq, with elements of B in the ring and threads of T waiting. *)
Queue(B, T) ==
  [lock : T, not_full : T, not_empty : T, head : Position, tail : Position,
   buf : [Position -> B]]

Holder == Thread \cup {NULL}
Register == Char \cup {NULL}

(* The queues, the registers of the port, the calls and the histories. *)
PortTypeOK ==
  /\ txq \in Queue(Char, Holder) /\ buffer \in Queue(Char, Holder)
  /\ uart \in [thr : Register, rbr : Register]
  /\ line \in Seq(Char) /\ written \in Seq(Char) /\ got \in Seq(Char)
  /\ came \in 0..Len(Incoming)
  /\ todo \in [Thread -> Seq(ConsoleCall \cup DiskCall)]

(* The bytes on the way through the port: l is on the line, r in the       *)
(* holding register, q the transmit queue.                                 *)
Stream(l, r, q) == (l \o Byte(r)) \o Contents(q)

(* What serial_putc and serial_interrupt send is what was printed, in the  *)
(* order of printing, though interrupt handlers print without waiting.     *)
OutputInOrder == Stream(line, uart.thr, txq) = written

(* input_getc returns the bytes that arrived, in order and none twice.     *)
InputInOrder == (got \o Contents(buffer)) \o Byte(uart.rbr) = SubSeq(Incoming, 1, came)

(* write_ier is called often enough: whenever there are bytes to transmit  *)
(* or there is room to receive, the port's interrupt is on, and it never   *)
(* interrupts for a byte that cannot be stored.                            *)
InterruptsArmed ==
  /\ ~intq_empty(txq) => "XMIT" \in ier
  /\ "RECV" \in ier <=> ~intq_full(buffer)

(* b comes right after a in a text, or begins one after a ends one. *)
Follows(a, b) ==
  \E x, y \in Texts : \E j \in 1..Len(x) :
    a = x[j] /\ b = IF j < Len(x) THEN x[j + 1] ELSE y[1]

(* console_lock keeps the output of one putbuf together; only the messages *)
(* of interrupt handlers come in between.                                  *)
NotMixed ==
  \A i, k \in 1..Len(written) :
    (/\ i < k /\ written[i] # Message /\ written[k] # Message
     /\ \A m \in (i + 1)..(k - 1) : written[m] = Message)
    => Follows(written[i], written[k])

(* ide_read returns the sector it was asked for, and ide_write "returns    *)
(* after the disk has acknowledged receiving the data".                    *)
TransferMeetsCall ==
  [][\A t \in Thread :
       lock_release(t) =>
         LET r == Request(t)
         IN  IF r.op = "read" THEN data[t] = disk[r.disk][r.sector]
             ELSE disk[r.disk][r.sector] = r.value]_vars

(* Every call returns, and everything printed leaves on the line: no       *)
(* print, read or transfer waits for an interrupt that will not come.      *)
CallsReturn == <>[](line = written /\ \A t \in Thread : todo[t] = <<>>)
=============================================================================
