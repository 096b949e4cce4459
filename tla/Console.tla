------------------------------ MODULE Console ------------------------------
(***************************************************************************)
(* The console and the serial port: lib/kernel/console.c on top of         *)
(* devices/serial.c in its interrupt-driven mode, and the input buffer of  *)
(* devices/input.c, which the serial port fills.                           *)
(*                                                                         *)
(* Threads carry out scripts of calls.  A section of code with interrupts  *)
(* off is one action; an interrupt may come between any two.  The threads  *)
(* have one priority, so that waking a thread does not preempt.            *)
(***************************************************************************)
EXTENDS Intq

CONSTANTS
  Thread,
  Char,      \* the bytes
  Script,    \* the calls each thread makes
  Incoming,  \* the bytes that arrive at the port
  Message    \* what an interrupt handler prints

(* The calls a script is made of; those on disks are in module Ide. *)
ConsoleCall == [op : {"putbuf"}, text : Seq(Char)] \cup [op : {"getc", "flush"}]

ASSUME ConsoleAssumption ==
  /\ NULL \notin Char /\ NULL \notin Thread
  /\ 0 \in Char /\ Message \in Char
  /\ Incoming \in Seq(Char)

VARIABLES
  pc,        \* where a thread is in its call
  todo,      \* the calls it has still to finish
  console,   \* the holder of console_lock
  txq,       \* data to be transmitted
  buffer,    \* input.c: the bytes read from the port
  ier,       \* the UART's interrupt enable register
  uart,      \* its transmitter holding and receiver buffer registers
  line,      \* history: the bytes sent
  written,   \* history: the bytes printed, in the order of printing
  came,      \* how many bytes have arrived
  got,       \* history: the bytes input_getc returned
  panic      \* an assertion failed

callVars == <<pc, todo, console, panic>>
portVars == <<txq, buffer, ier, uart, line, written, came, got>>
consoleVars == <<callVars, portVars>>

(* write_ier: the interrupts for which there is something to do. *)
write_ier(tx, in) ==
  (IF intq_empty(tx) THEN {} ELSE {"XMIT"}) \cup (IF intq_full(in) THEN {} ELSE {"RECV"})

ConsoleInit ==
  /\ pc = [t \in Thread |-> "call"]
  /\ todo = Script
  /\ console = NULL
  /\ txq = intq_init
  /\ buffer = intq_init
  /\ ier = write_ier(txq, buffer)
  /\ uart = [thr |-> NULL, rbr |-> NULL]
  /\ line = <<>> /\ written = <<>> /\ came = 0 /\ got = <<>>
  /\ panic = FALSE

Calls(t, op) == todo[t] # <<>> /\ Head(todo[t]).op = op

(* t finishes its call. *)
Return(t) == todo' = [todo EXCEPT ![t] = Tail(@)]

(* signal of intq.c: thread_unblock of the waiting thread w, if any. *)
Wake(w, p) == IF w = NULL THEN p ELSE [p EXCEPT ![w] = "woken"]

Goto(t, l, p) == [p EXCEPT ![t] = l]
-----------------------------------------------------------------------------
(* Printing.                                                               *)

(* Mutant: prints do not exclude each other. *)
acquire_console_free(t) == UNCHANGED console

(* In thread context; no thread here prints while it prints, so that       *)
(* console_lock_depth stays 0.                                             *)
acquire_console(t) == console = NULL /\ console' = t

putbuf(t) ==
  /\ pc[t] = "call" /\ Calls(t, "putbuf")
  /\ acquire_console(t)
  /\ pc' = Goto(t, "putc", pc)
  /\ UNCHANGED <<todo, panic, portVars>>

(* putc_poll: busy-waits until the byte before has left. *)
putc_poll(u, l, byte) ==
  [uart |-> [u EXCEPT !.thr = byte],
   line |-> IF u.thr = NULL THEN l ELSE Append(l, u.thr)]

Text(t) == Head(todo[t]).text

(* The call once the first byte of its text is printed. *)
Printed(call) == [call EXCEPT !.text = Tail(@)]

(* putchar_have_lock and serial_putc, from where t is: a thread that finds *)
(* the queue full sleeps until the interrupt handler makes room.           *)
serial_putc(t) ==
  LET q == IF pc[t] = "woken" THEN Resume(txq, t) ELSE txq
      w == wait(q, t, "not_full")
  IN  /\ pc[t] \in {"putc", "woken", "lock"} /\ Calls(t, "putbuf")
      /\ Text(t) # <<>>
      /\ IF pc[t] = "lock" \/ intq_full(q)
         THEN /\ txq' = w.q
              /\ pc' = Goto(t, w.pc, pc)
              /\ panic' = ~w.ok
              /\ UNCHANGED <<todo, ier, written>>
         ELSE /\ txq' = intq_putc(q, Head(Text(t)))
              /\ pc' = Goto(t, "putc", Wake(q.not_empty, pc))
              /\ ier' = write_ier(txq', buffer)
              /\ written' = Append(written, Head(Text(t)))
              /\ todo' = [todo EXCEPT ![t] = <<Printed(Head(@))>> \o Tail(@)]
              /\ UNCHANGED panic
      /\ UNCHANGED <<console, buffer, uart, line, came, got>>

(* release_console, after the last byte. *)
release_console(t) ==
  /\ pc[t] = "putc" /\ Calls(t, "putbuf") /\ Text(t) = <<>>
  /\ console' = NULL
  /\ pc' = Goto(t, "call", pc)
  /\ Return(t)
  /\ UNCHANGED <<panic, portVars>>

(* Mutant: with the queue full, the new byte is polled past the others. *)
PrintOff_jump(byte) ==
  LET p == putc_poll(uart, line, byte)
  IN  /\ txq' = IF intq_full(txq) THEN txq ELSE intq_putc(txq, byte)
      /\ uart' = IF intq_full(txq) THEN p.uart ELSE uart
      /\ line' = IF intq_full(txq) THEN p.line ELSE line
      /\ pc' = pc
      /\ written' = Append(written, byte)
      /\ ier' = write_ier(txq', buffer)

(* serial_putc with interrupts off on entry, as in an interrupt handler,   *)
(* which takes no lock: it makes room by polling out the oldest byte.      *)
PrintOff(byte) ==
  LET p == putc_poll(uart, line, First(txq))
      full == intq_full(txq)
  IN  /\ txq' = intq_putc(IF full THEN intq_getc(txq) ELSE txq, byte)
      /\ uart' = IF full THEN p.uart ELSE uart
      /\ line' = IF full THEN p.line ELSE line
      /\ pc' = IF full THEN Wake(txq.not_full, pc) ELSE pc
      /\ written' = Append(written, byte)
      /\ ier' = write_ier(txq', buffer)

(* serial_flush: the queue is polled out, and ier is left alone. *)
serial_flush(t) ==
  LET sent == (IF uart.thr = NULL THEN <<>> ELSE <<uart.thr>>) \o Contents(txq)
      n == Len(sent)
  IN  /\ pc[t] = "call" /\ Calls(t, "flush")
      /\ IF intq_empty(txq)
         THEN UNCHANGED <<txq, uart, line, pc>>
         ELSE /\ txq' = [txq EXCEPT !.tail = txq.head, !.not_full = NULL]
              /\ uart' = [uart EXCEPT !.thr = sent[n]]
              /\ line' = line \o SubSeq(sent, 1, n - 1)
              /\ pc' = Wake(txq.not_full, pc)
      /\ Return(t)
      /\ UNCHANGED <<console, panic, buffer, ier, written, came, got>>
-----------------------------------------------------------------------------
(* Reading.                                                                *)

(* Mutant: the port is not told that there is room. *)
serial_notify_never(in) == ier

(* serial_notify: the fullness of the input buffer may have changed. *)
serial_notify(in) == write_ier(txq, in)

(* input_getc and the serial_notify that ends it. *)
input_getc(t) ==
  LET q == IF pc[t] = "woken" THEN Resume(buffer, t) ELSE buffer
      w == wait(q, t, "not_empty")
  IN  /\ pc[t] \in {"call", "woken", "lock"} /\ Calls(t, "getc")
      /\ IF pc[t] = "lock" \/ intq_empty(q)
         THEN /\ buffer' = w.q
              /\ pc' = Goto(t, w.pc, pc)
              /\ panic' = ~w.ok
              /\ UNCHANGED <<todo, ier, got>>
         ELSE /\ buffer' = intq_getc(q)
              /\ pc' = Goto(t, "call", Wake(q.not_full, pc))
              /\ ier' = serial_notify(buffer')
              /\ got' = Append(got, First(q))
              /\ Return(t)
              /\ UNCHANGED panic
      /\ UNCHANGED <<console, txq, uart, line, written, came>>
-----------------------------------------------------------------------------
(* The port.                                                               *)

(* The byte in the holding register leaves on the line. *)
Transmit ==
  /\ uart.thr # NULL
  /\ line' = Append(line, uart.thr)
  /\ uart' = [uart EXCEPT !.thr = NULL]
  /\ UNCHANGED <<callVars, txq, buffer, ier, written, came, got>>

(* A byte arrives; the other end waits until the one before was read. *)
Receive ==
  /\ uart.rbr = NULL /\ came < Len(Incoming)
  /\ came' = came + 1
  /\ uart' = [uart EXCEPT !.rbr = Incoming[came + 1]]
  /\ UNCHANGED <<callVars, txq, buffer, ier, line, written, got>>

(* Mutant: receives whether or not there is room. *)
serial_interrupt_greedy ==
  LET recv == uart.rbr # NULL
      xmit == ~intq_empty(txq) /\ uart.thr = NULL
  IN  /\ \/ "RECV" \in ier /\ uart.rbr # NULL
         \/ "XMIT" \in ier /\ uart.thr = NULL
      /\ buffer' = IF recv THEN intq_putc(buffer, uart.rbr) ELSE buffer
      /\ txq' = IF xmit THEN intq_getc(txq) ELSE txq
      /\ uart' = [thr |-> IF xmit THEN First(txq) ELSE uart.thr, rbr |-> NULL]
      /\ pc' = Wake(IF xmit THEN txq.not_full ELSE NULL,
                    Wake(IF recv THEN buffer.not_empty ELSE NULL, pc))
      /\ ier' = write_ier(txq', buffer')
      /\ UNCHANGED <<todo, console, panic, line, written, came, got>>

(* serial_interrupt: receives if there is room, transmits if there is      *)
(* something to send.                                                      *)
serial_interrupt ==
  LET recv == ~intq_full(buffer) /\ uart.rbr # NULL
      xmit == ~intq_empty(txq) /\ uart.thr = NULL
  IN  /\ \/ "RECV" \in ier /\ uart.rbr # NULL
         \/ "XMIT" \in ier /\ uart.thr = NULL
      /\ buffer' = IF recv THEN intq_putc(buffer, uart.rbr) ELSE buffer
      /\ txq' = IF xmit THEN intq_getc(txq) ELSE txq
      /\ uart' = [thr |-> IF xmit THEN First(txq) ELSE uart.thr,
                  rbr |-> IF recv THEN NULL ELSE uart.rbr]
      /\ pc' = Wake(IF xmit THEN txq.not_full ELSE NULL,
                    Wake(IF recv THEN buffer.not_empty ELSE NULL, pc))
      /\ ier' = write_ier(txq', buffer')
      /\ UNCHANGED <<todo, console, panic, line, written, came, got>>
=============================================================================
