------------------------------- MODULE ByteDev -------------------------------
(***************************************************************************)
(* The byte device of the testbench, class ByteDev of simulation/main.cpp:  *)
(* once per rising clock edge eval takes a byte of stdin, if it holds none  *)
(* and select says that one can be read, and shows it to the core until the *)
(* core accepts it.  select looks at the pipe; cin.get() reads through the  *)
(* buffer of the C library, which it fills with what the pipe holds.        *)
(***************************************************************************)
EXTENDS Integers, Sequences, SequencesExt

CONSTANTS
  Byte,      (* byte values                                                 *)
  EOF,       (* what cin.get() returns at the end, as a char                *)
  BUFSIZ,    (* bytes the C library reads at once                           *)
  MaxBytes   (* bound: bytes the host writes                                *)

VARIABLES
  pipe, closed,          (* the host's end: bytes in the pipe, is it closed?*)
  buffer,                (* the C library's buffer of stdin                 *)
  eof,                   (* cin.eof()                                       *)
  hasStdinByte,
  currentStdinByte,      (* EOF stands for any value until a byte is held   *)
  reset,                 (* the core's reset                                *)
  written, delivered     (* history: bytes from the host, bytes to the core *)

hostVars == <<pipe, closed, written>>
devVars == <<buffer, eof, hasStdinByte, currentStdinByte, delivered>>
vars == <<pipe, closed, buffer, eof, hasStdinByte, currentStdinByte, reset,
          written, delivered>>

Init ==
  /\ pipe = <<>>
  /\ closed = FALSE
  /\ buffer = <<>>
  /\ eof = FALSE
  /\ hasStdinByte = FALSE
  /\ currentStdinByte = EOF
  /\ reset = TRUE
  /\ written = <<>>
  /\ delivered = <<>>

HostWrites(b) ==
  /\ ~closed
  /\ Len(written) < MaxBytes
  /\ pipe' = Append(pipe, b)
  /\ written' = Append(written, b)
  /\ UNCHANGED <<closed, devVars, reset>>

HostCloses ==
  /\ ~closed
  /\ closed' = TRUE
  /\ UNCHANGED <<pipe, written, devVars, reset>>

ReleaseReset ==
  /\ reset
  /\ reset' = FALSE
  /\ UNCHANGED <<hostVars, devVars>>

-----------------------------------------------------------------------------
AvailableWhileFull == ~eof /\ pipe # <<>>

(* A closed pipe is readable: the read returns the end of the file.          *)
AvailableInBufferToo == ~eof /\ (pipe # <<>> \/ closed \/ buffer # <<>>)

stdinAvailable == ~eof /\ (pipe # <<>> \/ closed)

(* The buffer and the pipe after the C library has refilled an empty buffer. *)
Refilled ==
  LET n == IF Len(pipe) < BUFSIZ THEN Len(pipe) ELSE BUFSIZ
  IN  IF buffer # <<>> THEN <<buffer, pipe>>
                       ELSE <<SubSeq(pipe, 1, n), SubSeq(pipe, n + 1, Len(pipe))>>

(* cin.get() and the test of cin.eof(): byte is what eval holds afterwards.  *)
Get(byte) ==
  /\ pipe' = Refilled[2]
  /\ eof' = (Refilled[1] = <<>>)
  /\ buffer' = IF eof' THEN <<>> ELSE Tail(Refilled[1])
  /\ byte = IF eof' THEN <<>> ELSE <<Head(Refilled[1])>>

Held == IF hasStdinByte THEN <<currentStdinByte>> ELSE <<>>

ShowAgain(byte, rdata_ready) ==
  /\ hasStdinByte' = (byte # <<>>)
  /\ currentStdinByte' = IF byte # <<>> THEN Head(byte) ELSE EOF
  /\ delivered' = IF rdata_ready THEN delivered \o byte ELSE delivered

(* The core sees byte; if it is ready, which it is or is not before it sees  *)
(* this, the device lets go of it.                                           *)
Show(byte, rdata_ready) ==
  /\ hasStdinByte' = (byte # <<>> /\ ~rdata_ready)
  /\ currentStdinByte' = IF byte # <<>> THEN Head(byte) ELSE EOF
  /\ delivered' = IF rdata_ready THEN delivered \o byte ELSE delivered

eval(rdata_ready) ==
  /\ ~reset
  /\ UNCHANGED <<closed, written, reset>>
  /\ \/ /\ hasStdinByte \/ ~stdinAvailable
        /\ Show(Held, rdata_ready)
        /\ UNCHANGED <<pipe, buffer, eof>>
     \/ /\ ~hasStdinByte /\ stdinAvailable
        /\ \E byte \in {<<>>} \cup {<<b>> : b \in Byte \cup {EOF}} :
             Get(byte) /\ Show(byte, rdata_ready)

Next ==
  \/ \E b \in Byte : HostWrites(b)
  \/ HostCloses
  \/ ReleaseReset
  \/ \E rdata_ready \in BOOLEAN : eval(rdata_ready)

Spec == Init /\ [][Next]_vars

=============================================================================
