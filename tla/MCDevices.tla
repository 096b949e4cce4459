----------------------------- MODULE MCDevices -----------------------------
(* Instance of Devices: two threads print texts longer than the queue, one *)
(* reads more bytes than the input buffer holds, and both use the disks.   *)
EXTENDS Devices, TLC

CONSTANTS t1, t2, d1, d2

Putbuf(text) == [op |-> "putbuf", text |-> text]
Write(d, s, v) == [op |-> "write", disk |-> d, sector |-> s, value |-> v]
Read(d, s) == [op |-> "read", disk |-> d, sector |-> s]
Getc == [op |-> "getc"]
Flush == [op |-> "flush"]

MCScript ==
  t1 :> <<Putbuf(<<11, 12, 13>>), Write(d1, 0, 1), Read(d2, 1), Getc>> @@
  t2 :> <<Putbuf(<<21, 22>>), Write(d2, 1, 2), Flush>>

MCIncoming == <<31, 32, 33>>
=============================================================================
