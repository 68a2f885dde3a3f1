-------------------------------- MODULE IsoSession --------------------------------
(***************************************************************************)
(* A reader and a card on the lines that the ISO 7816 decoder listens to:  *)
(* resets, the answer to reset, a selection of protocol parameters,        *)
(* exchanges of T=0 and blocks of T=1.  What they say is chosen first and  *)
(* put on the I/O line character by character; buffers end, characters are *)
(* repeated and resets fall anywhere in between.  The reader and the card  *)
(* are outside this repository and keep to ISO/IEC 7816-3.                 *)
(***************************************************************************)
EXTENDS Iso7816

CONSTANTS
  ATRs,         (* answers to reset *)
  Exchanges,    (* command TPDUs of T=0 with their procedure bytes *)
  Blocks,       (* blocks of T=1 *)
  WarmResets,   (* RST may rise again within the buffer in which it fell *)
  PlainPPS,     (* a selection of parameters may come without PPS1 *)
  ImplicitT1    (* a card that offers T=1 first is used without a selection *)

-----------------------------------------------------------------------------
(* The formats of ISO/IEC 7816-3, which the reader and the card keep to *)

(* TS, T0 and the bytes it announces, every TDi the next ones; the           *)
(* historical bytes and TCK unless T=0 is all (owed: a later TDi names       *)
(* another protocol).  Without historical bytes a TDi that announces more is *)
(* for T=0 only in the last place: isATR takes it for the end                *)
IsAnswer(u) ==
  /\ Len(u) \in 2..32 /\ u[1].is = "ts"
  /\ \E Q \in SUBSET (2..Len(u)) : \E owed \in [Q -> BOOLEAN] :
       /\ 2 \in Q
       /\ \A i \in Q :
            LET next == i + u[i].n + 1 IN
            IF u[i].more
            THEN /\ next \in Q
                 /\ owed[i] <=> u[next].t > 0 \/ owed[next]
                 /\ u[2].t > 0 \/ u[next].t > 0 \/ next = Len(u)
            ELSE /\ ~owed[i]
                 /\ Len(u) = i + u[i].n + u[2].t + (IF owed[2] THEN 1 ELSE 0)

(* A command of T=0 and what the card says to it: NULL, the payload after INS *)
(* or one byte of it after the complement of INS, at last the status. A card  *)
(* that sends the rest after INS when some bytes came one by one is left out: *)
(* isTPDU skips the whole of P3 again                                         *)
IsExchange(u) ==
  /\ Len(u) \in 5..MaximumInformationSize /\ u[1].is # "ff"
  /\ \E Q \in SUBSET (6..Len(u)) :
       /\ 6 \in Q
       /\ \A i \in Q : \/ u[i].is = "null" /\ i + 1 \in Q
                       \/ u[i].is = "ins" /\ i + u[5].n + 1 \in Q
                       \/ u[i].is = "nins" /\ i + 2 \in Q
                       \/ u[i].is = "sw" /\ i + 1 = Len(u)

(* NAD, PCB, LEN, the information and an LRC: a block of T=1.  A block with a *)
(* CRC, which a card may ask for in TC3, is left out: the decoder never sets *)
(* errorCodeType, and ends such a block at the first byte of its CRC         *)
IsWhole(u) ==
  /\ Len(u) \in 4..MaximumInformationSize + 4 /\ u[1].is # "ff"
  /\ Len(u) = 4 + u[3].n

ASSUME SessionAssumption ==
  /\ ATRs \subseteq Seq(Byte) /\ Exchanges \subseteq Seq(Byte) /\ Blocks \subseteq Seq(Byte)
  /\ \A u \in ATRs : IsAnswer(u)
  /\ \A u \in Exchanges : IsExchange(u)
  /\ \A u \in Blocks : IsWhole(u)
  /\ {WarmResets, PlainPPS, ImplicitT1} \subseteq BOOLEAN
  /\ MaximumInformationSize >= 4

VARIABLES
  lines,   (* off: no supply; low, held: RST is low, since an earlier buffer; *)
           (* high; mute: high, and the card has stopped in its answer       *)
  stage,   (* what the reader and the card do next                           *)
  unit,    (* what is said, or was said last                                 *)
  sent,    (* the characters of it that were sent                            *)
  again,   (* the receiver has signalled an error: the character is repeated *)
  done     (* the units that the last step has completed                     *)

sessionVars == <<lines, stage, unit, sent, again, done>>
vars == <<decoderVars, sessionVars>>

TypeOK ==
  /\ DecoderTypeOK
  /\ lines \in {"off", "low", "held", "high", "mute"}
  /\ stage \in {"answer", "first", "asked", "T0", "T1"}
  /\ unit \in Frame /\ sent \in 0 .. Len(unit.data)
  /\ again \in BOOLEAN
  /\ done \in Seq(Frame)

Init ==
  /\ DecoderInit
  /\ lines = "off" /\ stage = "answer"
  /\ unit = Empty("ATR") /\ sent = 0 /\ again = FALSE
  /\ done = <<>>

-----------------------------------------------------------------------------
(* What is said next *)

Say(type, texts) == [type : {type}, data : texts]

(* the protocol a card offers first: TD1 *)
Offer(atr) == IF atr[2].more THEN atr[3 + atr[2].n].t ELSE 0

PPS(t, more) ==
  <<Plain("ff"), [is |-> "pps0", n |-> 0, t |-> t, more |-> more]>>
    \o (IF more THEN <<Plain("data")>> ELSE <<>>) \o <<Plain("data")>>

(* the card repeats the request, and may leave out PPS1 to keep the rates *)
Replies(request) ==
  LET t == request[2].t IN
  {PPS(t, more) : more \in IF PlainPPS THEN {request[2].more, FALSE}
                           ELSE {request[2].more, request[2].more /\ t = 1}}

Units ==
  CASE stage = "answer" -> Say("ATR", ATRs)
    [] stage = "first"  ->
         Say("Request", {PPS(t, more) : t \in {0, 1}, more \in {TRUE, ~PlainPPS}})
           \cup Say("Exchange", IF Offer(unit.data) = 0 THEN Exchanges ELSE {})
           \cup Say("Request", IF Offer(unit.data) = 1 /\ ImplicitT1 THEN Blocks ELSE {})
    [] stage = "asked"  -> Say("Response", Replies(unit.data))
    [] stage = "T0"     -> Say("Exchange", Exchanges)
    [] stage = "T1"     -> Say(IF unit.type = "Request" THEN "Response" ELSE "Request", Blocks)

StageAfter(u) ==
  CASE stage = "answer" -> "first"
    [] stage = "first"  -> IF u.type = "Exchange" THEN "T0"
                           ELSE IF u.data[1].is = "ff" THEN "asked" ELSE "T1"
    [] stage = "asked"  -> IF u.data[2].t = 0 THEN "T0" ELSE "T1"
    [] OTHER            -> stage

-----------------------------------------------------------------------------

(* the next character of u; only T=0 has an error signal *)
Put(u, k) ==
  \E ok \in {TRUE, stage = "T1"} :
    /\ Character(u.data[k], ok)
    /\ unit' = u
    /\ sent' = IF ok THEN k ELSE k - 1
    /\ again' = ~ok
    /\ IF ok /\ k = Len(u.data) THEN done' = <<u>> /\ stage' = StageAfter(u)
                                ELSE done' = <<>> /\ UNCHANGED stage
    /\ UNCHANGED lines

Begin ==
  /\ lines = "high" /\ sent = Len(unit.data)
  /\ \E u \in Units : Put(u, 1)

Continue ==
  /\ lines = "high" /\ sent < Len(unit.data)
  /\ Put(unit, sent + 1)

Quiet == done' = <<>> /\ UNCHANGED <<stage, unit, sent, again>>

(* Nothing is said for longer than the waiting time.  A card that stops in   *)
(* its answer is mute; a block that breaks off ends there, and it is for the *)
(* other side to say so; the bytes of T=0 may come late                      *)
Pause ==
  /\ lines = "high" /\ ~again
  /\ Silence
  /\ IF sent = Len(unit.data) \/ stage \in {"first", "asked", "T0"}
     THEN Quiet /\ UNCHANGED lines
     ELSE IF stage = "answer"
     THEN Quiet /\ lines' = "mute"
     ELSE /\ unit' = [unit EXCEPT !.data = SubSeq(@, 1, sent)]
          /\ done' = <<unit'>>
          /\ UNCHANGED <<lines, stage, sent, again>>

(* the reader resets the card, whatever was being said *)
Reset ==
  /\ lines \in {"high", "mute"}
  /\ GoesLow
  /\ lines' = "low" /\ stage' = "answer"
  /\ unit' = Empty("ATR") /\ sent' = 0 /\ again' = FALSE
  /\ done' = <<>>

(* RST is low, I/O falls, and then the supply *)
Deactivate ==
  /\ lines \in {"low", "held"}
  /\ Character(Plain("data"), FALSE)
  /\ lines' = "off" /\ Quiet

Rise ==
  /\ IF lines = "low" THEN WarmResets ELSE lines \in {"off", "held"}
  /\ GoesHigh
  /\ lines' = "high" /\ Quiet

Cut ==
  /\ BufferEnds
  /\ lines' = IF lines = "low" THEN "held" ELSE lines
  /\ Quiet

Next == Begin \/ Continue \/ Pause \/ Reset \/ Deactivate \/ Rise \/ Cut

Spec == Init /\ [][Next]_vars

-----------------------------------------------------------------------------

(* Every answer, selection, exchange and block is one frame of the list, with  *)
(* the type of who sent it and all of its bytes, at its last character; there  *)
(* is no other frame.  So no byte of a payload is taken for a procedure byte,  *)
(* the protocol changes with both sides, the turns of T=1 are kept, and        *)
(* nothing of what was cut short by a reset is in what follows it.             *)
FramesAreUnits == output = done

(* When RST has risen on a card, the decoder waits for its answer: a reset is *)
(* never missed.                                                              *)
ResetIsHeard ==
  lines = "high" /\ stage = "answer" /\ sent = 0 => loop = "detect" /\ mode = "sync"
===============================================================================
