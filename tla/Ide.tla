-------------------------------- MODULE Ide --------------------------------
(***************************************************************************)
(* Disks behind one ATA channel: block_read and block_write                *)
(* (devices/block.c) on ide_read and ide_write (devices/ide.c).  The       *)
(* channel's registers are shared, and commands end with an interrupt.     *)
(*                                                                         *)
(* Interrupts are on in this code, so that a step here is an access to the *)
(* registers or a call of a lock or semaphore.                             *)
(***************************************************************************)
EXTENDS Console, FiniteSets

CONSTANTS
  Disk,      \* the devices of the channel
  SECTORS,   \* their size
  Old,       \* what a sector holds at first
  MaxUnexpected  \* bound: interrupts that come before any command

Sector == 0..(SECTORS - 1)

DiskCall ==
  [op : {"read"}, disk : Disk, sector : Sector]
  \cup [op : {"write"}, disk : Disk, sector : Sector, value : Char]

ASSUME ScriptAssumption == Script \in [Thread -> Seq(ConsoleCall \cup DiskCall)]

VARIABLES
  chan,      \* struct channel: lock, expecting_interrupt, completion_wait
  dev,       \* the registers: selected sector, command, status, interrupt line
  disk,      \* the contents of the disks
  data       \* the buffer each thread reads into

ideVars == <<chan, dev, disk, data>>

(* The state ide_init leaves, the identification of the disks left out. *)
IdeInit ==
  /\ chan = [lock |-> NULL, expecting_interrupt |-> FALSE, completion_wait |-> 0]
  /\ dev = [lba |-> NULL, command |-> NULL, status |-> "idle", intrq |-> FALSE,
            data |-> NULL]
  /\ disk = [d \in Disk |-> [s \in Sector |-> Old]]
  /\ data = [t \in Thread |-> NULL]

Request(t) == Head(todo[t])

InCall(t, l) == pc[t] = l /\ (Calls(t, "read") \/ Calls(t, "write"))

(* check_sector panics past the end of the device. *)
check_sector(sector) == sector < SECTORS

(* How ide_read and ide_write begin. *)
lock_acquire(t) == chan.lock = NULL /\ chan' = [chan EXCEPT !.lock = t]

(* block_read and block_write. *)
block_op(t) ==
  /\ InCall(t, "call")
  /\ lock_acquire(t)
  /\ pc' = Goto(t, "select", pc)
  /\ panic' = ~check_sector(Request(t).sector)
  /\ UNCHANGED <<todo, console, portVars, dev, disk, data>>

(* select_sector, which waits for an idle channel; reading the status      *)
(* register clears a pending interrupt.                                    *)
select_sector(t) ==
  /\ InCall(t, "select")
  /\ dev.status = "idle"
  /\ dev' = [dev EXCEPT !.lba = <<Request(t).disk, Request(t).sector>>, !.intrq = FALSE]
  /\ pc' = Goto(t, "issue", pc)
  /\ UNCHANGED <<todo, console, panic, portVars, chan, disk, data>>

(* Mutant: the interrupt is not expected. *)
Expect_never(t) ==
  /\ InCall(t, "issue")
  /\ pc' = Goto(t, "command", pc)
  /\ UNCHANGED <<todo, console, panic, portVars, ideVars>>

(* issue_pio_command: the interrupt is expected, then the command written. *)
Expect(t) ==
  /\ InCall(t, "issue")
  /\ chan' = [chan EXCEPT !.expecting_interrupt = TRUE]
  /\ pc' = Goto(t, "command", pc)
  /\ UNCHANGED <<todo, console, panic, portVars, dev, disk, data>>

issue_pio_command(t) ==
  /\ InCall(t, "command")
  /\ dev' = [dev EXCEPT !.command = Request(t).op, !.status = "busy"]
  /\ pc' = Goto(t, IF Calls(t, "read") THEN "sema_down" ELSE "wait", pc)
  /\ UNCHANGED <<todo, console, panic, portVars, chan, disk, data>>

(* sema_down: of a read, before the transfer; of a write, after it. *)
sema_down(t) ==
  /\ InCall(t, "sema_down")
  /\ chan.completion_wait > 0
  /\ chan' = [chan EXCEPT !.completion_wait = @ - 1]
  /\ pc' = Goto(t, IF Calls(t, "read") THEN "wait" ELSE "unlock", pc)
  /\ UNCHANGED <<todo, console, panic, portVars, dev, disk, data>>

(* Mutant: ide_write does not wait for the acknowledgement. *)
AfterTransfer_unacknowledged(t) == "unlock"

(* Where ide_read and ide_write go on after the transfer. *)
AfterTransfer(t) == IF Calls(t, "read") THEN "unlock" ELSE "sema_down"

(* wait_while_busy returns once the disk is not busy. *)
Ready(status) == status # "busy"

(* wait_while_busy and the transfer: input_sector or output_sector.  A     *)
(* disk that does not ask for the transfer panics.                         *)
Transfer(t) ==
  /\ InCall(t, "wait")
  /\ Ready(dev.status)
  /\ panic' = (dev.status # "drq")
  /\ IF Calls(t, "read")
     THEN /\ data' = [data EXCEPT ![t] = dev.data]
          /\ dev' = [dev EXCEPT !.status = "idle", !.data = NULL]
     ELSE /\ dev' = [dev EXCEPT !.status = "busy", !.data = Request(t).value]
          /\ UNCHANGED data
  /\ pc' = Goto(t, AfterTransfer(t), pc)
  /\ UNCHANGED <<todo, console, portVars, chan, disk>>

(* lock_release, and the caller goes on. *)
lock_release(t) ==
  /\ InCall(t, "unlock")
  /\ chan' = [chan EXCEPT !.lock = NULL]
  /\ pc' = Goto(t, "call", pc)
  /\ Return(t)
  /\ UNCHANGED <<console, panic, portVars, dev, disk, data>>
-----------------------------------------------------------------------------
(* The disk.  A read makes the data ready and interrupts; a write asks for *)
(* the data first, stores it, and then interrupts.                         *)
DiskWorks ==
  LET d == dev.lba[1]
      s == dev.lba[2]
  IN  /\ dev.status = "busy"
      /\ \/ /\ dev.command = "read"
            /\ dev' = [dev EXCEPT !.status = "drq", !.intrq = TRUE, !.data = disk[d][s]]
            /\ UNCHANGED disk
         \/ /\ dev.command = "write" /\ dev.data = NULL
            /\ dev' = [dev EXCEPT !.status = "drq"]
            /\ UNCHANGED disk
         \/ /\ dev.command = "write" /\ dev.data # NULL
            /\ disk' = [disk EXCEPT ![d][s] = dev.data]
            /\ dev' = [dev EXCEPT !.status = "idle", !.intrq = TRUE, !.data = NULL]
  /\ UNCHANGED <<callVars, portVars, chan, data>>

(* interrupt_handler: an interrupt that is not expected is reported on the *)
(* console.  Once a command was issued every interrupt is expected.        *)
interrupt_handler ==
  \/ /\ chan.expecting_interrupt /\ dev.intrq
     /\ dev' = [dev EXCEPT !.intrq = FALSE]
     /\ chan' = [chan EXCEPT !.completion_wait = @ + 1]
     /\ UNCHANGED <<callVars, portVars, disk, data>>
  \/ /\ ~chan.expecting_interrupt
     /\ Cardinality({i \in DOMAIN written : written[i] = Message}) < MaxUnexpected
     /\ PrintOff(Message)
     /\ UNCHANGED <<todo, console, panic, buffer, came, got, ideVars>>
=============================================================================
