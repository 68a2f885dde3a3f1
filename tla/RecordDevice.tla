------------------------------ MODULE RecordDevice ------------------------------
(***************************************************************************)
(* hw::RecordDevice, a WAV file that is written or read in order.  Opening *)
(* it for writing truncates the file and writes a header without samples;  *)
(* only close() writes the header again, with the length reached.  An      *)
(* operation that fails leaves the stream failed, and from then on nothing *)
(* is read, written or sought.  Samples are counted in units of one        *)
(* published buffer.                                                       *)
(***************************************************************************)
EXTENDS SignalBuffer, Integers, Sequences, SequencesExt

CONSTANTS
  MaxSeconds,  (* bound: seconds that go by, the clock of file names         *)
  SizeModulus  (* units in 2^32 bytes: a chunk tells its size in 32 bits     *)

ASSUME SecondsAssumption == MaxSeconds \in Nat
ASSUME SizeAssumption == SizeModulus \in Nat \ {0}

VARIABLE disk  (* the files, by name                                        *)

Kinds == {"logic", "radio"}

(* fileName(): the kind and the second the file was created in               *)
Names == [kind : Kinds, second : 0..MaxSeconds]

(* header: the samples the header tells of; exists: there is such a file     *)
File == [exists : BOOLEAN, samples : Seq(Samples), header : Nat]
NoFile == [exists |-> FALSE, samples |-> <<>>, header |-> 0]
Truncated == [NoFile EXCEPT !.exists = TRUE]

(* an open device; at: the samples read so far; eof: a read came out short;  *)
(* failed: the stream's failbit or badbit                                    *)
Device == [name : Names, mode : {"Read", "Write"}, at : Nat,
           eof : BOOLEAN, failed : BOOLEAN]

DiskTypeOK == disk \in [Names -> File]

DiskInit == disk = [name \in Names |-> NoFile]

Opened(name, mode) ==
  [name |-> name, mode |-> mode, at |-> 0, eof |-> FALSE, failed |-> FALSE]

-----------------------------------------------------------------------------
(* What an operation leaves on the disk d *)

(* changed: the first header counts an empty file without its header *)
CreatedUnderflow(d, name) == [d EXCEPT ![name] = [Truncated EXCEPT !.header = 0 - 1]]

(* open(Write): truncateFile, then a first header *)
Created(d, name) == [d EXCEPT ![name] = Truncated]

(* changed: the header is left as open wrote it *)
ClosedUnfinished(d, device) == d

(* close(), also run by the destructor: the header gets the length reached, *)
(* as an int and in 32 bits; on a failed stream tellp, seekp and write do    *)
(* nothing                                                                   *)
Closed(d, device) ==
  IF device.mode = "Write" /\ ~device.failed
  THEN [d EXCEPT ![device.name].header = Len(d[device.name].samples) % SizeModulus]
  ELSE d

(* write(): a stream opened for reading only takes nothing ... *)
Written(d, device, samples) ==
  IF device.mode = "Write" /\ ~device.failed
  THEN [d EXCEPT ![device.name].samples = Append(@, samples)] ELSE d

(* ... and has failed *)
AfterWrite(device) == [device EXCEPT !.failed = @ \/ device.mode = "Read"]

-----------------------------------------------------------------------------
(* read(): up to length units; nothing can be read from a stream opened for  *)
(* writing only, and a short read sets the end of file and fails             *)

ReadBy(d, device, length) ==
  IF device.mode = "Write" \/ device.failed THEN <<>>
  ELSE LET all == d[device.name].samples
           to  == IF device.at + length < Len(all) THEN device.at + length ELSE Len(all)
       IN SubSeq(all, device.at + 1, to)

(* changed: the position does not move *)
AfterReadStuck(d, device, length) ==
  LET short == ~device.failed /\ Len(ReadBy(d, device, length)) < length IN
  [device EXCEPT !.eof = @ \/ short, !.failed = @ \/ short]

(* changed: a read that finds nothing does not count as short *)
AfterReadEndless(d, device, length) ==
  LET got   == Len(ReadBy(d, device, length))
      short == ~device.failed /\ got \in 1..length - 1
  IN [device EXCEPT !.at = @ + got, !.eof = @ \/ short, !.failed = @ \/ short]

(* a stream that has failed before is not read: no end of file is found *)
AfterRead(d, device, length) ==
  LET got   == ReadBy(d, device, length)
      short == ~device.failed /\ Len(got) < length
  IN [device EXCEPT !.at = @ + Len(got), !.eof = @ \/ short, !.failed = @ \/ short]
=============================================================================
