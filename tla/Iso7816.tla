--------------------------------- MODULE Iso7816 ---------------------------------
(***************************************************************************)
(* The decoder of contact cards, lab::Iso7816 inside IsoDecoder, one       *)
(* character of the I/O line at a time.  nextFrames() searches for a reset *)
(* and the answer to it (detect), or decodes frames of the protocol in use *)
(* (decode): which of the two loops runs is only chosen between frames and *)
(* at the start of a buffer.  A byte is known by what the decoder tells    *)
(* apart; checksums of what is sent are right.                             *)
(***************************************************************************)
EXTENDS Naturals, Sequences, SequencesExt

CONSTANT
  MaximumInformationSize  (* maximumInformationSize: 254 unless TA3 sets it *)

ASSUME SizeAssumption == MaximumInformationSize \in Nat \ {0}

VARIABLES
  loop,      (* the loop of nextFrames() that runs                          *)
  tech,      (* decoder->bitrate is set: an answer to reset was decoded     *)
  mode,      (* searchModeState; sync: and TS; late: searchEndTime has      *)
             (* passed, and every sample is a timeout                       *)
  protocol,  (* protocolType and protocolParametersChange                   *)
  frame,     (* frameStatus: the type and the bytes received so far         *)
  expires,   (* searchEndTime is set                                        *)
  output     (* the frames the last step has added to the list              *)

decoderVars == <<loop, tech, mode, protocol, frame, expires, output>>

(* n: the length in P3 and LEN, the count of TAi, TBi and TCi in T0 and TDi; *)
(* t: the protocol of TDi and PPS0, and the historical bytes in T0; more:    *)
(* TDi + 1 follows, or PPS1                                                  *)
Classes == {"ts", "t0", "td", "ff", "pps0", "data", "ins", "nins", "null", "sw", "len"}
Byte == [is : Classes, n : Nat, t : Nat, more : BOOLEAN]

Plain(is) == [is |-> is, n |-> 0, t |-> 0, more |-> FALSE]

FrameType == {"ATR", "Request", "Response", "Exchange"}
Frame == [type : FrameType, data : Seq(Byte)]

DecoderTypeOK ==
  /\ loop \in {"detect", "decode"}
  /\ tech \in BOOLEAN
  /\ mode \in {"reset", "sync", "ATR", "late"}
  /\ protocol \in [type : Nat, change : BOOLEAN]
  /\ frame \in Frame
  /\ expires \in BOOLEAN
  /\ output \in Seq(Frame)

Empty(type) == [type |-> type, data |-> <<>>]

DefaultProtocol == [type |-> 0, change |-> FALSE]

DecoderInit ==
  /\ loop = "detect"
  /\ tech = FALSE
  /\ mode = "reset"
  /\ protocol = DefaultProtocol
  /\ frame = Empty("ATR")
  /\ expires = FALSE
  /\ output = <<>>

-----------------------------------------------------------------------------
(* Formats *)

(* isATR: the interface bytes from T0 at i on, whose next byte is at n + 1;  *)
(* a level is only looked at while bytes are left behind its TDi             *)
IsATR(data) ==
  LET size == Len(data)
      level[i \in 1..size] ==
        LET n == i + data[i].n IN
        IF ~data[i].more THEN [n |-> n, c |-> 0]
        ELSE IF n + 1 > size THEN [n |-> n + 1, c |-> 0]
        ELSE IF n + 1 = size THEN [n |-> n + 1, c |-> data[n + 1].t]
        ELSE LET next == level[n + 1]
             IN [next EXCEPT !.c = IF @ > 0 THEN @ ELSE data[n + 1].t]
  IN size >= 2 /\ size >= level[2].n + data[2].t + (IF level[2].c > 0 THEN 1 ELSE 0)

(* isPPS *)
IsPPS(data) ==
  /\ Len(data) >= 3 /\ data[1].is = "ff"
  /\ Len(data) = 3 + (IF data[2].more THEN 1 ELSE 0)

(* changed: the bytes after a procedure byte are not skipped *)
IsTPDUUnskipped(data) ==
  LET size == Len(data)
      procedure[i \in Nat \ {0}] ==
        IF i > size THEN FALSE
        ELSE IF data[i].is = "sw" THEN size = i + 1 ELSE procedure[i + 1]
  IN size >= 5 /\ data[1].is # "ff" /\ procedure[6]

(* isTPDU: the procedure bytes from the sixth byte on: NULL, the first byte  *)
(* of the status, INS before all and its complement before one byte of data  *)
IsTPDU(data) ==
  LET size == Len(data)
      procedure[i \in Nat \ {0}] ==
        IF i > size THEN FALSE
        ELSE CASE data[i].is = "sw"   -> size = i + 1
               [] data[i].is = "ins"  -> procedure[i + data[5].n + 1]
               [] data[i].is = "nins" -> procedure[i + 2]
               [] OTHER               -> procedure[i + 1]
  IN size >= 5 /\ data[1].is # "ff" /\ procedure[6]

(* isBlock: errorCodeType is never set, the epilogue is always an LRC *)
IsBlock(data) ==
  Len(data) >= 4 /\ data[1].is # "ff" /\ Len(data) = 3 + data[3].n + 1

-----------------------------------------------------------------------------
(* A frame is complete *)

(* processPPS: PPS1 in a request announces the change, in a response makes it *)
AfterPPS(data) ==
  IF ~data[2].more THEN protocol
  ELSE IF protocol.change THEN [type |-> data[2].t, change |-> FALSE]
  ELSE [protocol EXCEPT !.change = TRUE]

(* the type of the frame that follows, which T=0 sets again when it is known *)
NextType(type, applied, next) ==
  IF next.type = 1 /\ type = "Request" THEN "Response"
  ELSE IF next.type = 1 /\ type = "Response" THEN "Request"
  ELSE IF applied THEN IF next.type = 0 THEN "Exchange" ELSE "Request"
  ELSE type

(* process, and back to the loop of nextFrames *)
Release(type, data) ==
  LET pps  == type # "ATR" /\ data[1].is = "ff" /\ Len(data) >= 2
      next == IF pps THEN AfterPPS(data) ELSE protocol
  IN /\ output' = <<[type |-> type, data |-> data]>>
     /\ protocol' = next
     /\ frame' = Empty(NextType(type, pps /\ protocol.change /\ data[2].more, next))
     /\ expires' = FALSE
     /\ loop' = "decode"

(* resetModulation: the loop goes on *)
ResetModulation ==
  /\ tech' = FALSE
  /\ mode' = "reset"
  /\ protocol' = DefaultProtocol
  /\ frame' = Empty("ATR")
  /\ expires' = FALSE
  /\ output' = <<>>

Ignore == output' = <<>> /\ UNCHANGED <<loop, tech, mode, protocol, frame, expires>>

(* the byte goes to the frame, and the waiting time starts or not *)
Keep(data, armed) ==
  /\ frame' = [frame EXCEPT !.data = data]
  /\ expires' = armed
  /\ output' = <<>>
  /\ UNCHANGED <<loop, protocol>>

-----------------------------------------------------------------------------
(* A character is on the line; ok: the receiver does not signal an error,    *)
(* after which the sender repeats it                                         *)

(* detectSync and detectTS: the first character tells the bit rate *)
DetectTS(byte) ==
  /\ loop = "detect" /\ mode = "sync"
  /\ IF byte.is = "ts"
     THEN /\ mode' = "ATR"
          /\ frame' = [type |-> "ATR", data |-> <<byte>>]
          /\ expires' = TRUE
          /\ output' = <<>>
          /\ UNCHANGED <<loop, tech, protocol>>
     ELSE ResetModulation /\ UNCHANGED loop

DetectATR(byte) ==
  /\ loop = "detect" /\ mode = "ATR"
  /\ LET data == Append(frame.data, byte) IN
     IF IsATR(data) THEN tech' = TRUE /\ Release("ATR", data)
                    ELSE UNCHANGED tech /\ Keep(data, TRUE)
  /\ UNCHANGED mode

DecodeFrameT0(byte) ==
  LET data == Append(frame.data, byte) IN
  /\ loop = "decode" /\ tech /\ protocol.type = 0
  /\ IF IsPPS(data)
     THEN Release(IF protocol.change THEN "Response" ELSE "Request", data)
     ELSE IF IsTPDU(data) THEN Release("Exchange", data)
     ELSE IF Len(data) = MaximumInformationSize THEN Release(frame.type, data)
     ELSE Keep(data, FALSE)
  /\ UNCHANGED <<tech, mode>>

DecodeFrameT1(byte) ==
  LET data == Append(frame.data, byte) IN
  /\ loop = "decode" /\ tech /\ protocol.type = 1
  /\ IF IsPPS(data) \/ IsBlock(data) \/ Len(data) >= MaximumInformationSize + 4
     THEN Release(frame.type, data)
     ELSE Keep(data, TRUE)
  /\ UNCHANGED <<tech, mode>>

(* after a reset the decode loop has no bit rate: at the next edge it takes  *)
(* one sample for a bit, finds an error signal in the start bit and then the *)
(* waiting time at an end, and returns without a byte                        *)
DecodeNothing ==
  /\ loop = "decode" /\ ~tech
  /\ loop' = "detect"
  /\ frame' = Empty("Exchange")
  /\ mode' = "reset"
  /\ expires' = FALSE
  /\ output' = <<>>
  /\ UNCHANGED <<tech, protocol>>

(* decodeCharacter, T=0: a character with an error signal is dropped *)
DropCharacter ==
  /\ IF loop = "detect" THEN mode \in {"sync", "ATR"} ELSE tech
  /\ protocol.type = 0
  /\ expires' = TRUE
  /\ output' = <<>>
  /\ UNCHANGED <<loop, tech, mode, protocol, frame>>

Character(byte, ok) ==
  \/ loop = "detect" /\ mode \in {"reset", "late"} /\ Ignore
  \/ DecodeNothing
  \/ ok /\ (DetectTS(byte) \/ DetectATR(byte) \/ DecodeFrameT0(byte) \/ DecodeFrameT1(byte))
  \/ ~ok /\ DropCharacter

(* nothing is on the line for longer than the waiting time *)
Silence ==
  \/ ~expires /\ Ignore
  \/ /\ expires /\ loop = "detect"
     /\ mode' = "late"
     /\ output' = <<>>
     /\ UNCHANGED <<loop, tech, protocol, frame, expires>>
  \/ /\ expires /\ loop = "decode"
     /\ IF frame.data = <<>>
        THEN frame' = Empty("Exchange") /\ expires' = FALSE /\ output' = <<>>
             /\ UNCHANGED <<loop, protocol>>
        ELSE Release(frame.type, frame.data)
     /\ UNCHANGED <<tech, mode>>

-----------------------------------------------------------------------------
(* The lines RST and VCC, and the end of a buffer *)

(* detectSync and decodeSymbol: RST or VCC falls *)
GoesLow ==
  IF loop = "detect" /\ mode = "reset" THEN Ignore ELSE ResetModulation /\ UNCHANGED loop

(* detectReset: RST rises with VCC high *)
GoesHigh ==
  /\ mode' = IF loop = "detect" /\ mode = "reset" THEN "sync" ELSE mode
  /\ output' = <<>>
  /\ UNCHANGED <<loop, tech, protocol, frame, expires>>

(* nextFrames returns, and chooses the loop again for the next buffer *)
BufferEnds ==
  /\ loop' = IF tech THEN "decode" ELSE "detect"
  /\ output' = <<>>
  /\ UNCHANGED <<tech, mode, protocol, frame, expires>>
=============================================================================
