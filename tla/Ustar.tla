-------------------------------- MODULE Ustar --------------------------------
(***************************************************************************)
(* lib/ustar.c: the headers of the tar archives that move files in and out *)
(* of the simulated disk.                                                  *)
(*                                                                         *)
(* A header is a record of byte sequences.  Of the fields that are written *)
(* and never read (mode, uid, gid, mtime, uname, gname) it keeps mode, and *)
(* of prefix its first byte.  NAME_SIZE is the size of the name field (100 *)
(* in the code); a long holds 0..ULONG_MAX and an int up to INT_MAX.       *)
(***************************************************************************)
EXTENDS Integers, Sequences
LOCAL INSTANCE SequencesExt

CONSTANTS NAME_SIZE, ULONG_MAX, INT_MAX

Space == 32
Dot == 46
Slash == 47
Zero == 48
USTAR_REGULAR == Zero
USTAR_DIRECTORY == Zero + 5
Magic == <<117, 115, 116, 97, 114, 0>>

RECURSIVE strip_antisocial_prefixes(_)
strip_antisocial_prefixes(name) ==
  IF \/ IsPrefix(<<Slash>>, name)
     \/ IsPrefix(<<Dot, Slash>>, name)
     \/ IsPrefix(<<Dot, Dot, Slash>>, name)
  THEN strip_antisocial_prefixes(
         SubSeq(name, SelectInSeq(name, LAMBDA ch : ch = Slash) + 1, Len(name)))
  ELSE IF name \in {<<>>, <<Dot, Dot>>} THEN <<Dot>> ELSE name

Padded(s, size) == s \o [k \in 1..(size - Len(s)) |-> 0]

(* snprintf (field, n + 1, "%0no", value) *)
Octal(value, n) ==
  Append([k \in 1..n |-> Zero + ((value \div 8 ^ (n - k)) % 8)], 0)

SumBytes(s) == FoldLeft(LAMBDA a, b : a + b, 0, s)

(* The chksum field itself counts as eight spaces. *)
calculate_chksum(h) ==
  SumBytes(h.name) + SumBytes(h.mode) + SumBytes(h.size) + 8 * Space + h.typeflag
  + SumBytes(h.magic) + SumBytes(h.version) + h.prefix

MakeFailed == [failed |-> TRUE]

ustar_make_header(file_name, type, size) ==
  LET name == strip_antisocial_prefixes(file_name)
      h == [name |-> Padded(name, NAME_SIZE),
            mode |-> Octal(IF type = USTAR_REGULAR THEN 420 ELSE 493, 7),
            size |-> Octal(size % (ULONG_MAX + 1), 10),
            typeflag |-> type, magic |-> Magic, version |-> <<Zero, Zero>>,
            prefix |-> 0]
  IN  IF Len(name) > NAME_SIZE - 1 THEN MakeFailed
      ELSE [failed |-> FALSE,
            header |-> [f \in DOMAIN h \cup {"chksum"} |->
                          IF f = "chksum" THEN Octal(calculate_chksum(h), 7)
                          ELSE h[f]]]

(* The value of an octal field, or -1. *)
RECURSIVE octal_from(_, _, _)
octal_from(s, ofs, value) ==
  IF ofs > Len(s) THEN -1
  ELSE IF s[ofs] \in Zero..(Zero + 7)
       THEN IF value > ULONG_MAX \div 8 THEN -1
            ELSE octal_from(s, ofs + 1, s[ofs] - Zero + value * 8)
       ELSE IF s[ofs] \in {Space, 0} /\ ofs > 1 THEN value ELSE -1
parse_octal_field(s) == octal_from(s, 1, 0)

is_all_zeros(h) ==
  \A f \in DOMAIN h : IF f \in {"typeflag", "prefix"} THEN h[f] = 0
                      ELSE \A k \in DOMAIN h[f] : h[f][k] = 0

Failure(msg) == [error |-> msg, name |-> <<>>, type |-> 0, size |-> 0]
UpToNul(s) == SubSeq(s, 1, SelectInSeq(s, LAMBDA ch : ch = 0) - 1)

ustar_parse_header(h) ==
  LET size_ul == IF h.typeflag = USTAR_REGULAR THEN parse_octal_field(h.size) ELSE 0
  IN  IF is_all_zeros(h) THEN [Failure("none") EXCEPT !.type = -1]
      ELSE IF h.magic # Magic THEN Failure("not a ustar archive")
      ELSE IF h.version # <<Zero, Zero>> THEN Failure("invalid ustar version")
      ELSE IF parse_octal_field(h.chksum) = -1 THEN Failure("corrupt chksum field")
      ELSE IF parse_octal_field(h.chksum) # calculate_chksum(h)
           THEN Failure("checksum mismatch")
      ELSE IF h.name[NAME_SIZE] # 0 \/ h.prefix # 0 THEN Failure("file name too long")
      ELSE IF h.typeflag \notin {USTAR_REGULAR, USTAR_DIRECTORY}
           THEN Failure("unimplemented file type")
      ELSE IF size_ul = -1 THEN Failure("corrupt file size field")
      ELSE IF size_ul > INT_MAX THEN Failure("file too large")
      ELSE [error |-> "none", name |-> strip_antisocial_prefixes(UpToNul(h.name)),
            type |-> h.typeflag, size |-> size_ul]
-----------------------------------------------------------------------------
(* What is checked of a file's name, type and size. *)

(* Reading a header back gives the file it was made for, under a name that *)
(* stays below the directory it is extracted to.                           *)
HeaderRoundTrip(in) ==
  LET made == ustar_make_header(in.name, in.type, in.size)
      r    == ustar_parse_header(made.header)
  IN  ~made.failed =>
        IF in.type = USTAR_REGULAR /\ in.size < 0
        THEN r.error = "file too large"
        ELSE /\ r.error = "none"
             /\ r.type = in.type
             /\ r.size = IF in.type = USTAR_REGULAR THEN in.size ELSE 0
             /\ IsSuffix(r.name, in.name) \/ r.name = <<Dot>>
             /\ ~\E bad \in {<<Slash>>, <<Dot, Slash>>, <<Dot, Dot, Slash>>} :
                   IsPrefix(bad, r.name)
             /\ r.name \notin {<<>>, <<Dot, Dot>>}

(* No header with one byte changed is taken for a different file. *)
CorruptionDetected(in) ==
  LET made == ustar_make_header(in.name, in.type, in.size)
      good == ustar_parse_header(made.header)
      safe(h) == ustar_parse_header(h) = good \/ ustar_parse_header(h).error # "none"
  IN  ~made.failed =>
        \A b \in {0, Space, Dot, Zero, Zero + 1, 97} :
          /\ \A f \in {"name", "size", "chksum"} : \A k \in DOMAIN made.header[f] :
               safe([made.header EXCEPT ![f][k] = b])
          /\ safe([made.header EXCEPT !.typeflag = b])
=============================================================================
