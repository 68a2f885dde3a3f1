---------------------------- MODULE IsoSessionProofs ----------------------------
(***************************************************************************)
(* The list of frames of the contact decoder is what reader and card said, *)
(* whatever well-formed answers, exchanges and blocks they say and         *)
(* wherever characters are repeated, resets fall and buffers end, if RST   *)
(* stays low to the end of a buffer or the supply falls, a selection names *)
(* PPS1, and T=1 is selected before it is used.  Two things are shown: a   *)
(* format is told at the last byte and at no earlier one (AnswerKnown,     *)
(* ExchangeKnown, BlockKnown, PPSKnown), and the decoder is always in the  *)
(* state that expects what is said next (SessionInv).                      *)
(***************************************************************************)
EXTENDS IsoSession, SequenceTheorems, WellFoundedInduction, TLAPS

-----------------------------------------------------------------------------
(* Functions that are defined by what they are further on *)

(* A set of naturals has a smallest one, ... *)
LEMMA Smallest ==
  ASSUME NEW T, T \subseteq Nat, T # {}
  PROVE  \E n \in T : \A m \in T : n <= m
  <1> DEFINE Less == {pair \in Nat \X Nat : pair[1] < pair[2]}
  <1>1. IsWellFoundedOn(Less, Nat)
    BY NatLessThanWellFounded DEF OpToRel
  <1>2. \A m, n \in Nat : <<m, n>> \in Less <=> m < n
    OBVIOUS
  <1> HIDE DEF Less
  <1>3. \E n \in T : \A m \in T : ~ (<<m, n>> \in Less)
    BY <1>1, WFMin, Zenon
  <1>4. PICK n \in T : \A m \in T : ~ (<<m, n>> \in Less)
    BY <1>3
  <1>5. \A m \in T : ~ (m < n)
    BY <1>2, <1>4
  <1>6. \A m \in T : n <= m
    BY <1>5
  <1> QED
    BY <1>6

(* ... and one of positions a last one. *)
LEMMA Furthest ==
  ASSUME NEW N \in Nat, NEW T, T \subseteq 1..N, T # {}
  PROVE  \E i \in T : \A j \in T : j <= i
  <1> DEFINE D == {d \in 0..N : N - d \in T}
  <1>1. D \subseteq Nat /\ D # {}
    <2>1. PICK i \in T : i \in 1..N
      OBVIOUS
    <2>2. N - i \in 0..N /\ N - (N - i) = i
      BY <2>1
    <2>3. N - i \in D
      BY <2>2
    <2>4. \A d \in D : d \in Nat
      OBVIOUS
    <2> HIDE DEF D
    <2> QED
      BY <2>3, <2>4
  <1>2. PICK d \in D : \A e \in D : d <= e
    <2> HIDE DEF D
    <2> QED
      BY <1>1, Smallest
  <1>3. ASSUME NEW j \in T PROVE j <= N - d
    <2>1. j \in 1..N /\ N - j \in 0..N /\ N - (N - j) = j
      OBVIOUS
    <2>2. N - j \in D
      BY <2>1
    <2>3. d <= N - j /\ d \in 0..N
      BY <1>2, <2>2
    <2> QED
      BY <2>1, <2>3
  <1> QED
    BY <1>2, <1>3

(* What holds of 0, and of a number's successor with it, holds up to N. *)
LEMMA UpTo ==
  ASSUME NEW N \in Nat, NEW T, 0 \in T, \A n \in 1..N : n - 1 \in T => n \in T
  PROVE  0..N \subseteq T
  <1> DEFINE Others == (0..N) \ T
  <1> SUFFICES ASSUME Others # {} PROVE FALSE
    OBVIOUS
  <1>1. Others \subseteq Nat
    OBVIOUS
  <1>2. PICK n \in Others : \A m \in Others : n <= m
    BY <1>1, Smallest
  <1>3. n \in 1..N /\ n - 1 \in 0..N
    BY <1>2
  <1>4. n - 1 \notin Others
    BY <1>2, <1>3
  <1> QED
    BY <1>2, <1>3, <1>4

(* f is base beyond N, and up to it what step makes of f at a later place *)
Descends(f, base, step, after, N) ==
  /\ \A i \in 1..N : f[i] = step[i][f[after[i]]]
  /\ \A i \in Nat \ {0} : i > N => f[i] = base

(* ... which makes values of S of such, at a place further on *)
Steps(S, step, after, N) ==
  \A i \in 1..N : /\ after[i] \in Nat /\ after[i] > i
                  /\ \A t \in S : step[i][t] \in S

(* Such a function exists. *)
LEMMA Descent ==
  ASSUME NEW N \in Nat, NEW S, NEW base \in S, NEW step, NEW after, Steps(S, step, after, N)
  PROVE  \E f \in [Nat \ {0} -> S] : Descends(f, base, step, after, N)
  <1> DEFINE Good(f, k) == /\ \A i \in 1..N : i > N - k => f[i] = step[i][f[after[i]]]
                           /\ \A i \in Nat \ {0} : i > N => f[i] = base
             T == {k \in 0..N : \E f \in [Nat \ {0} -> S] : Good(f, k)}
  <1>0. \A i \in 1..N : /\ after[i] \in Nat /\ after[i] > i
                        /\ \A t \in S : step[i][t] \in S
    BY DEF Steps
  <1>1. 0 \in T
    <2> DEFINE g == [i \in Nat \ {0} |-> base]
    <2>1. g \in [Nat \ {0} -> S] /\ \A i \in Nat \ {0} : g[i] = base
      OBVIOUS
    <2> HIDE DEF g
    <2>2. Good(g, 0)
      BY <2>1
    <2> HIDE DEF Good
    <2> QED
      BY <2>1, <2>2
  <1>2. ASSUME NEW k \in 1..N, k - 1 \in T PROVE k \in T
    <2>1. PICK f \in [Nat \ {0} -> S] : Good(f, k - 1)
      BY <1>2
    <2> DEFINE p == N - k + 1
               g == [f EXCEPT ![p] = step[p][f[after[p]]]]
    <2>2. p \in 1..N /\ p = N - (k - 1)
      OBVIOUS
    <2> HIDE DEF p
    <2>3. after[p] \in Nat \ {0} /\ f[after[p]] \in S /\ step[p][f[after[p]]] \in S
      BY <1>0, <2>2
    <2>4. /\ g \in [Nat \ {0} -> S] /\ g[p] = step[p][f[after[p]]]
          /\ \A i \in Nat \ {0} : i # p => g[i] = f[i]
      BY <2>2, <2>3
    <2> HIDE DEF g
    <2>5. \A i \in Nat \ {0} : i > N => g[i] = base
      BY <2>1, <2>2, <2>4
    <2>6. ASSUME NEW i \in 1..N, i > N - k PROVE g[i] = step[i][g[after[i]]]
      <3>1. i >= p /\ after[i] \in Nat \ {0} /\ after[i] # p
        BY <1>0, <2>2, <2>6
      <3>2. g[after[i]] = f[after[i]]
        BY <2>4, <3>1
      <3>3. CASE i = p
        BY <2>4, <3>2, <3>3
      <3>4. CASE i # p
        <4>1. i > N - (k - 1) /\ i \in Nat \ {0}
          BY <2>2, <3>1, <3>4
        <4>2. f[i] = step[i][f[after[i]]]
          BY <2>1, <4>1
        <4> QED
          BY <2>4, <3>2, <3>4, <4>1, <4>2
      <3> QED
        BY <3>3, <3>4
    <2>7. Good(g, k)
      BY <2>5, <2>6
    <2> HIDE DEF Good
    <2> QED
      BY <2>4, <2>7
  <1> HIDE DEF T
  <1>3. \A k \in 1..N : k - 1 \in T => k \in T
    BY <1>2
  <1>4. N \in T
    BY <1>1, <1>3, UpTo
  <1>5. PICK f \in [Nat \ {0} -> S] : Good(f, N)
    BY <1>4 DEF T
  <1> QED
    BY <1>5 DEF Descends

-----------------------------------------------------------------------------
(* The formats are told at their last byte *)

(* The first bytes of a text. *)
LEMMA Prefix ==
  ASSUME NEW u \in Seq(Byte), NEW k \in 0..Len(u)
  PROVE  /\ SubSeq(u, 1, k) \in Seq(Byte) /\ Len(SubSeq(u, 1, k)) = k
         /\ \A i \in 1..k : SubSeq(u, 1, k)[i] = u[i]
  OBVIOUS

(* One more element. *)
LEMMA Appended ==
  ASSUME NEW S, NEW s \in Seq(S), NEW e \in S
  PROVE  /\ Append(s, e) \in Seq(S) /\ Len(Append(s, e)) = Len(s) + 1
         /\ \A i \in 1..Len(s) : Append(s, e)[i] = s[i]
         /\ Append(s, e)[Len(s) + 1] = e
         /\ Append(s, e) = s \o <<e>>
  <1>1. Append(s, e) = s \o <<e>>
    BY AppendIsConcat
  <1>2. Append(s, e) \in Seq(S) /\ Len(Append(s, e)) = Len(s) + 1
    OBVIOUS
  <1>3. Append(s, e)[Len(s) + 1] = e /\ \A i \in 1..Len(s) : Append(s, e)[i] = s[i]
    OBVIOUS
  <1> QED
    BY <1>1, <1>2, <1>3

(* What a byte carries. *)
LEMMA ByteParts ==
  ASSUME NEW u \in Seq(Byte), NEW i \in 1..Len(u)
  PROVE  u[i] \in Byte /\ u[i].is \in Classes /\ u[i].n \in Nat /\ u[i].t \in Nat /\ u[i].more \in BOOLEAN
  <1>1. u[i] \in Byte
    OBVIOUS
  <1> QED
    BY <1>1 DEF Byte

(* f[i]: the procedure bytes from the byte i on end at the last byte *)
Procedure(data, f) ==
  \A i \in Nat \ {0} :
    f[i] = IF i > Len(data) THEN FALSE
           ELSE CASE data[i].is = "sw"   -> Len(data) = i + 1
                  [] data[i].is = "ins"  -> f[i + data[5].n + 1]
                  [] data[i].is = "nins" -> f[i + 2]
                  [] OTHER               -> f[i + 1]

(* isTPDU follows the procedure bytes from the sixth byte on. *)
LEMMA TPDUProcedure ==
  ASSUME NEW data \in Seq(Byte), Len(data) >= 5
  PROVE  \E f :
           /\ Procedure(data, f)
           /\ IsTPDU(data) <=> data[1].is # "ff" /\ f[6]
  <1> DEFINE N == Len(data)
             d == data[5].n
             after == [i \in 1..N |-> CASE data[i].is = "ins"  -> i + d + 1
                                        [] data[i].is = "nins" -> i + 2
                                        [] OTHER               -> i + 1]
             step == [i \in 1..N |-> [t \in BOOLEAN |-> IF data[i].is = "sw" THEN N = i + 1 ELSE t]]
             Body(h) == [i \in Nat \ {0} |->
                           IF i > N THEN FALSE
                           ELSE CASE data[i].is = "sw"   -> N = i + 1
                                  [] data[i].is = "ins"  -> h[i + data[5].n + 1]
                                  [] data[i].is = "nins" -> h[i + 2]
                                  [] OTHER               -> h[i + 1]]
             procedure == CHOOSE h : h = Body(h)
  <1>1. N \in Nat /\ d \in Nat
    BY ByteParts
  <1>2. \A i \in 1..N : after[i] = CASE data[i].is = "ins"  -> i + d + 1
                                     [] data[i].is = "nins" -> i + 2
                                     [] OTHER               -> i + 1
    OBVIOUS
  <1>3. \A i \in 1..N, t \in BOOLEAN : step[i][t] = IF data[i].is = "sw" THEN N = i + 1 ELSE t
    OBVIOUS
  <1> HIDE DEF after, step
  <1>4. Steps(BOOLEAN, step, after, N)
    <2> SUFFICES ASSUME NEW i \in 1..N
                 PROVE  /\ after[i] \in Nat /\ after[i] > i
                        /\ \A t \in BOOLEAN : step[i][t] \in BOOLEAN
      BY DEF Steps
    <2> HIDE DEF N, d
    <2>1. after[i] \in {i + d + 1, i + 2, i + 1}
      BY <1>2
    <2>2. \A x \in {i + d + 1, i + 2, i + 1} : x \in Nat /\ x > i
      BY <1>1
    <2>3. \A t \in BOOLEAN : step[i][t] \in BOOLEAN
      BY <1>3
    <2> QED
      BY <2>1, <2>2, <2>3
  <1>5. PICK f \in [Nat \ {0} -> BOOLEAN] : Descends(f, FALSE, step, after, N)
    BY <1>1, <1>4, Descent
  <1>6. f = Body(f)
    <2> SUFFICES ASSUME NEW i \in Nat \ {0}
                 PROVE  f[i] = IF i > N THEN FALSE
                               ELSE CASE data[i].is = "sw"   -> N = i + 1
                                      [] data[i].is = "ins"  -> f[i + data[5].n + 1]
                                      [] data[i].is = "nins" -> f[i + 2]
                                      [] OTHER               -> f[i + 1]
      OBVIOUS
    <2> HIDE DEF N
    <2>1. CASE i > N
      BY <1>5, <2>1 DEF Descends
    <2>2. CASE ~ (i > N)
      <3>1. i \in 1..N
        BY <1>1, <2>2
      <3>2. f[i] = step[i][f[after[i]]]
        BY <1>5, <3>1 DEF Descends
      <3>3. after[i] \in Nat \ {0}
        BY <1>4, <3>1 DEF Steps
      <3>4. f[after[i]] \in BOOLEAN
        BY <3>3
      <3>5. f[i] = IF data[i].is = "sw" THEN N = i + 1 ELSE f[after[i]]
        BY <1>3, <3>1, <3>2, <3>4
      <3> QED
        BY <1>2, <2>2, <3>1, <3>5
    <2> QED
      BY <2>1, <2>2
  <1>7. procedure = Body(procedure)
    BY <1>6, Zenon
  <1>8. IsTPDU(data) <=> data[1].is # "ff" /\ procedure[6]
    <2>1. N >= 5
      OBVIOUS
    <2> QED
      BY <2>1, Zenon DEF IsTPDU
  <1> HIDE DEF procedure
  <1> QED
    <2>1. Procedure(data, procedure)
      BY <1>7, Zenon DEF Procedure
    <2> QED
      BY <1>8, <2>1

(* Five bytes are the least, and a selection is not taken for an exchange. *)
LEMMA TPDUBegins ==
  ASSUME NEW data, IsTPDU(data)
  PROVE  Len(data) >= 5 /\ data[1].is # "ff"
  BY Zenon DEF IsTPDU

(* A prefix of an exchange is none: isTPDU, which meets the procedure bytes   *)
(* where they are, finds the status at the end of it or not at all.           *)
LEMMA ExchangeKnown ==
  ASSUME NEW u \in Seq(Byte), IsExchange(u), NEW k \in 1..Len(u)
  PROVE  /\ IsTPDU(SubSeq(u, 1, k)) <=> k = Len(u)
         /\ ~IsPPS(SubSeq(u, 1, k))
         /\ SubSeq(u, 1, k)[1].is # "ff"
         /\ k <= MaximumInformationSize
  <1> DEFINE data == SubSeq(u, 1, k)
             N == Len(u)
  <1>1. /\ N \in Nat /\ N >= 5 /\ N <= MaximumInformationSize /\ MaximumInformationSize \in Nat
        /\ u[1].is # "ff" /\ k \in 1..N
    BY SizeAssumption DEF IsExchange
  <1>2. data \in Seq(Byte) /\ Len(data) = k /\ \A i \in 1..k : data[i] = u[i]
    BY Prefix
  <1> HIDE DEF data
  <1>3. data[1].is # "ff"
    BY <1>1, <1>2
  <1>4. ~IsPPS(data)
    BY <1>3 DEF IsPPS
  <1>5. IsTPDU(data) <=> k = N
    <2>1. CASE k < 5
      BY <1>1, <1>2, <2>1, TPDUBegins
    <2>2. CASE k >= 5
      <3>1. PICK Q \in SUBSET (6..N) :
              /\ 6 \in Q
              /\ \A i \in Q : \/ u[i].is = "null" /\ i + 1 \in Q
                              \/ u[i].is = "ins" /\ i + u[5].n + 1 \in Q
                              \/ u[i].is = "nins" /\ i + 2 \in Q
                              \/ u[i].is = "sw" /\ i + 1 = N
        BY DEF IsExchange
      <3>2. PICK f : /\ Procedure(data, f)
                     /\ IsTPDU(data) <=> data[1].is # "ff" /\ f[6]
        BY <1>2, <2>2, TPDUProcedure
      <3>3. data[5].n = u[5].n /\ u[5].n \in Nat
        BY <1>1, <1>2, <2>2, ByteParts
      <3> DEFINE T == {i \in Q : ~ (f[i] <=> k = N)}
      <3>4. ASSUME NEW i \in T, \A j \in T : j <= i PROVE FALSE
        <4>1. /\ i \in Q /\ i \in 6..N /\ \A j \in Q : j > i => (f[j] <=> k = N)
              /\ ~ (f[i] <=> k = N)
          BY <3>1, <3>4
        <4>2. f[i] = IF i > k THEN FALSE
                     ELSE CASE data[i].is = "sw"   -> k = i + 1
                            [] data[i].is = "ins"  -> f[i + data[5].n + 1]
                            [] data[i].is = "nins" -> f[i + 2]
                            [] OTHER               -> f[i + 1]
          <5>1. i \in Nat \ {0}
            BY <4>1
          <5> QED
            BY <1>2, <3>2, <5>1 DEF Procedure
        <4> HIDE DEF T, N
        <4>3. CASE i > k
          BY <1>1, <4>1, <4>2, <4>3
        <4>4. CASE i <= k
          <5>1. data[i] = u[i] /\ ~ (i > k)
            BY <1>1, <1>2, <4>1, <4>4
          <5>2. CASE u[i].is = "null" /\ i + 1 \in Q
            <6>1. f[i] = f[i + 1]
              BY <4>2, <5>1, <5>2
            <6> QED
              BY <4>1, <5>2, <6>1
          <5>3. CASE u[i].is = "ins" /\ i + u[5].n + 1 \in Q
            <6>1. f[i] = f[i + u[5].n + 1]
              BY <3>3, <4>2, <5>1, <5>3
            <6>2. i + u[5].n + 1 > i
              BY <3>3, <4>1
            <6> QED
              BY <4>1, <5>3, <6>1, <6>2
          <5>4. CASE u[i].is = "nins" /\ i + 2 \in Q
            <6>1. f[i] = f[i + 2]
              BY <4>2, <5>1, <5>4
            <6> QED
              BY <4>1, <5>4, <6>1
          <5>5. CASE u[i].is = "sw" /\ i + 1 = N
            <6>1. f[i] = (k = i + 1)
              BY <4>2, <5>1, <5>5
            <6> QED
              BY <4>1, <5>5, <6>1
          <5> QED
            BY <3>1, <4>1, <5>2, <5>3, <5>4, <5>5
        <4> QED
          BY <1>1, <4>1, <4>3, <4>4
      <3>5. T \subseteq 1..N
        <4>1. \A i \in 6..N : i \in 1..N
          BY <1>1
        <4>2. \A i \in T : i \in 6..N
          BY <3>1
        <4> HIDE DEF T, N
        <4> QED
          BY <4>1, <4>2
      <3> HIDE DEF T
      <3>6. T = {}
        BY <1>1, <3>4, <3>5, Furthest
      <3>7. f[6] <=> k = N
        BY <3>1, <3>6 DEF T
      <3> QED
        BY <1>3, <3>2, <3>7
    <2> QED
      BY <1>1, <2>1, <2>2
  <1> QED
    BY <1>1, <1>3, <1>4, <1>5 DEF data

(* A prefix of a block is none. *)
LEMMA BlockKnown ==
  ASSUME NEW u \in Seq(Byte), IsWhole(u), NEW k \in 1..Len(u)
  PROVE  /\ IsBlock(SubSeq(u, 1, k)) <=> k = Len(u)
         /\ ~IsPPS(SubSeq(u, 1, k))
         /\ SubSeq(u, 1, k)[1].is # "ff"
         /\ k <= MaximumInformationSize + 4
  <1> DEFINE data == SubSeq(u, 1, k)
             N == Len(u)
  <1>1. /\ N \in Nat /\ N >= 4 /\ N <= MaximumInformationSize + 4 /\ MaximumInformationSize \in Nat
        /\ u[1].is # "ff" /\ k \in 1..N /\ N = 4 + u[3].n
    BY SizeAssumption DEF IsWhole
  <1>2. data \in Seq(Byte) /\ Len(data) = k /\ \A i \in 1..k : data[i] = u[i]
    BY Prefix
  <1>3. u[3].n \in Nat
    BY <1>1, ByteParts
  <1> HIDE DEF data, N
  <1>4. data[1].is # "ff"
    BY <1>1, <1>2
  <1>5. ~IsPPS(data)
    BY <1>4 DEF IsPPS
  <1>6. IsBlock(data) <=> k = N
    <2>1. CASE k < 4
      BY <1>1, <1>2, <2>1 DEF IsBlock
    <2>2. CASE k >= 4
      <3>1. data[3] = u[3]
        BY <1>2, <2>2
      <3>2. k >= 4 /\ (k = 3 + u[3].n + 1 <=> k = N)
        <4> DEFINE n == u[3].n
        <4>1. n \in Nat /\ N = 4 + n
          BY <1>1, <1>3
        <4> HIDE DEF n
        <4>2. k = 3 + n + 1 <=> k = N
          BY <1>1, <4>1
        <4> QED
          BY <2>2, <4>2 DEF n
      <3> QED
        BY <1>2, <1>4, <3>1, <3>2 DEF IsBlock
    <2> QED
      BY <1>1, <2>1, <2>2
  <1>7. k <= MaximumInformationSize + 4
    BY <1>1
  <1> QED
    BY <1>4, <1>5, <1>6, <1>7 DEF data, N

(* PPSS, PPS0, PPS1 when PPS0 announces it, and PCK. *)
LEMMA PPSParts ==
  ASSUME NEW t \in Nat, NEW more \in BOOLEAN
  PROVE  /\ PPS(t, more) \in Seq(Byte) /\ Len(PPS(t, more)) = IF more THEN 4 ELSE 3
         /\ PPS(t, more)[1].is = "ff" /\ PPS(t, more)[2].t = t /\ PPS(t, more)[2].more = more
  <1> DEFINE u == PPS(t, more)
             second == [is |-> "pps0", n |-> 0, t |-> t, more |-> more]
             plain == Plain("data")
  <1>1. /\ second \in Byte /\ plain \in Byte /\ Plain("ff") \in Byte
        /\ second.t = t /\ second.more = more /\ Plain("ff").is = "ff"
    BY DEF Byte, Classes, Plain
  <1> HIDE DEF second, plain, u
  <1>2. /\ u \in Seq(Byte) /\ Len(u) = IF more THEN 4 ELSE 3
        /\ u[1] = Plain("ff") /\ u[2] = second
    <2> DEFINE two == <<Plain("ff"), second>>
               three == Append(two, plain)
               four == Append(three, plain)
    <2>1. two \in Seq(Byte) /\ Len(two) = 2 /\ two[1] = Plain("ff") /\ two[2] = second
      BY <1>1
    <2> HIDE DEF two
    <2>a. plain \in Byte /\ two \in Seq(Byte)
      BY <1>1, <2>1
    <2>2. /\ three \in Seq(Byte) /\ Len(three) = 3 /\ three[1] = two[1] /\ three[2] = two[2]
          /\ three = two \o <<plain>>
      <3>a. three = two \o <<plain>>
        BY <2>a, Appended
      <3>b. three \in Seq(Byte)
        BY <2>a, Appended
      <3>c. Len(three) = Len(two) + 1
        BY <2>a, Appended
      <3>1. \A i \in 1..Len(two) : three[i] = two[i]
        BY <2>a, Appended
      <3>2. 1 \in 1..Len(two) /\ 2 \in 1..Len(two)
        BY <2>1
      <3> HIDE DEF three
      <3> QED
        BY <2>1, <3>a, <3>b, <3>c, <3>1, <3>2
    <2> HIDE DEF three
    <2>b. plain \in Byte /\ three \in Seq(Byte)
      BY <2>a, <2>2
    <2>3. /\ four \in Seq(Byte) /\ Len(four) = 4 /\ four[1] = three[1] /\ four[2] = three[2]
          /\ four = three \o <<plain>>
      <3>a. four = three \o <<plain>>
        BY <2>b, Appended
      <3>b. four \in Seq(Byte)
        BY <2>b, Appended
      <3>c. Len(four) = Len(three) + 1
        BY <2>b, Appended
      <3>1. \A i \in 1..Len(three) : four[i] = three[i]
        BY <2>b, Appended
      <3>2. 1 \in 1..Len(three) /\ 2 \in 1..Len(three)
        BY <2>2
      <3> HIDE DEF four
      <3> QED
        BY <2>2, <3>a, <3>b, <3>c, <3>1, <3>2
    <2> HIDE DEF four
    <2>4. two \o <<>> = two
      BY <2>1, ConcatEmptySeq
    <2>5. u = IF more THEN four ELSE three
      BY <2>2, <2>3, <2>4 DEF PPS, two, second, plain, u
    <2> QED
      BY <2>1, <2>2, <2>3, <2>5
  <1> QED
    BY <1>1, <1>2 DEF u

(* A prefix of a selection of parameters is none, and no exchange. *)
LEMMA PPSKnown ==
  ASSUME NEW t \in Nat, NEW more \in BOOLEAN, NEW k \in 1..Len(PPS(t, more))
  PROVE  /\ IsPPS(SubSeq(PPS(t, more), 1, k)) <=> k = Len(PPS(t, more))
         /\ ~IsTPDU(SubSeq(PPS(t, more), 1, k))
         /\ k <= 4
  <1> DEFINE u == PPS(t, more)
             data == SubSeq(u, 1, k)
  <1>1. /\ u \in Seq(Byte) /\ Len(u) = IF more THEN 4 ELSE 3
        /\ u[1].is = "ff" /\ u[2].t = t /\ u[2].more = more
    BY PPSParts
  <1> HIDE DEF u
  <1>4. data \in Seq(Byte) /\ Len(data) = k /\ (\A i \in 1..k : data[i] = u[i]) /\ k \in 1..Len(u)
    BY <1>1, Prefix DEF u
  <1> HIDE DEF data
  <1>5. data[1].is = "ff" /\ (k >= 2 => data[2].more = more)
    BY <1>1, <1>4
  <1>6. ~IsTPDU(data)
    BY <1>5, TPDUBegins
  <1>7. IsPPS(data) <=> k = Len(u)
    BY <1>1, <1>4, <1>5 DEF IsPPS
  <1>8. k <= 4
    BY <1>1, <1>4
  <1> QED
    BY <1>6, <1>7, <1>8 DEF data, u

(* f[i]: the end of the interface bytes from T0 or TDi at i on, and the last  *)
(* protocol but T=0 that the TDi after it name                                *)
Levels(data, f) ==
  \A i \in 1..Len(data) :
    f[i] = LET n == i + data[i].n IN
           IF ~data[i].more THEN [n |-> n, c |-> 0]
           ELSE IF n + 1 > Len(data) THEN [n |-> n + 1, c |-> 0]
           ELSE IF n + 1 = Len(data) THEN [n |-> n + 1, c |-> data[n + 1].t]
           ELSE LET next == f[n + 1]
                IN [next EXCEPT !.c = IF @ > 0 THEN @ ELSE data[n + 1].t]

(* isATR follows the interface bytes from T0 on. *)
LEMMA ATRLevels ==
  ASSUME NEW data \in Seq(Byte), Len(data) >= 2
  PROVE  \E f \in [1..Len(data) -> [n : Nat, c : Nat]] :
           /\ Levels(data, f)
           /\ IsATR(data) <=> Len(data) >= f[2].n + data[2].t + (IF f[2].c > 0 THEN 1 ELSE 0)
  <1> DEFINE N == Len(data)
             S == [n : Nat, c : Nat]
             after == [i \in 1..N |-> i + data[i].n + 1]
             step == [i \in 1..N |-> [s \in S |->
                        LET n == i + data[i].n IN
                        IF ~data[i].more THEN [n |-> n, c |-> 0]
                        ELSE IF n + 1 > N THEN [n |-> n + 1, c |-> 0]
                        ELSE IF n + 1 = N THEN [n |-> n + 1, c |-> data[n + 1].t]
                        ELSE [s EXCEPT !.c = IF @ > 0 THEN @ ELSE data[n + 1].t]]]
             Body(h) == [i \in 1..N |->
                        LET n == i + data[i].n IN
                        IF ~data[i].more THEN [n |-> n, c |-> 0]
                        ELSE IF n + 1 > N THEN [n |-> n + 1, c |-> 0]
                        ELSE IF n + 1 = N THEN [n |-> n + 1, c |-> data[n + 1].t]
                        ELSE LET next == h[n + 1]
                             IN [next EXCEPT !.c = IF @ > 0 THEN @ ELSE data[n + 1].t]]
             level == CHOOSE h : h = Body(h)
             base == [n |-> 0, c |-> 0]
  <1>1. N \in Nat /\ \A i \in 1..N : data[i].n \in Nat /\ data[i].t \in Nat
    BY ByteParts
  <1>2. \A i \in 1..N : after[i] = i + data[i].n + 1
    OBVIOUS
  <1>3. \A i \in 1..N, s \in S :
          step[i][s] = LET n == i + data[i].n IN
                       IF ~data[i].more THEN [n |-> n, c |-> 0]
                       ELSE IF n + 1 > N THEN [n |-> n + 1, c |-> 0]
                       ELSE IF n + 1 = N THEN [n |-> n + 1, c |-> data[n + 1].t]
                       ELSE [s EXCEPT !.c = IF @ > 0 THEN @ ELSE data[n + 1].t]
    OBVIOUS
  <1>4. base \in S
    OBVIOUS
  <1> HIDE DEF after, step, base
  <1>5. Steps(S, step, after, N)
    <2> HIDE DEF N
    <2>1. ASSUME NEW i \in 1..N PROVE after[i] \in Nat /\ after[i] > i
      <3> DEFINE m == data[i].n
      <3>1. m \in Nat /\ i \in Nat /\ after[i] = i + m + 1
        BY <1>1, <1>2
      <3> HIDE DEF m
      <3> QED
        BY <3>1
    <2>2. ASSUME NEW i \in 1..N, NEW s \in S PROVE step[i][s] \in S
      <3> DEFINE n == i + data[i].n
                 t == data[n + 1].t
      <3>0. data[i].n \in Nat
        BY <1>1
      <3>1. n \in Nat /\ n + 1 \in Nat /\ n >= 1 /\ s.n \in Nat /\ s.c \in Nat
        <4> DEFINE m == data[i].n
        <4>1. m \in Nat /\ i \in Nat /\ i >= 1
          BY <1>1, <3>0
        <4> HIDE DEF m
        <4>2. i + m \in Nat /\ i + m + 1 \in Nat /\ i + m >= 1
          BY <4>1
        <4>3. s.n \in Nat /\ s.c \in Nat
          OBVIOUS
        <4> QED
          BY <4>2, <4>3 DEF m
      <3>2. n + 1 <= N => t \in Nat
        <4> HIDE DEF n
        <4>1. n + 1 <= N => n + 1 \in 1..N
          BY <1>1, <3>1
        <4> QED
          BY <1>1, <4>1
      <3>3. step[i][s] = IF ~data[i].more THEN [n |-> n, c |-> 0]
                         ELSE IF n + 1 > N THEN [n |-> n + 1, c |-> 0]
                         ELSE IF n + 1 = N THEN [n |-> n + 1, c |-> t]
                         ELSE [s EXCEPT !.c = IF @ > 0 THEN @ ELSE t]
        BY <1>3
      <3> HIDE DEF n, t
      <3> QED
        BY <1>1, <3>1, <3>2, <3>3
    <2> HIDE DEF S
    <2> QED
      BY <2>1, <2>2 DEF Steps
  <1>6. PICK d \in [Nat \ {0} -> S] : Descends(d, base, step, after, N)
    <2> HIDE DEF S, N
    <2> QED
      BY <1>1, <1>4, <1>5, Descent
  <1> DEFINE f == [i \in 1..N |-> d[i]]
  <1>7. f \in [1..N -> S] /\ \A i \in 1..N : f[i] = d[i]
    BY <1>1
  <1> HIDE DEF f, S
  <1>8. f = Body(f)
    <2> SUFFICES ASSUME NEW i \in 1..N
                 PROVE  f[i] = LET n == i + data[i].n IN
                               IF ~data[i].more THEN [n |-> n, c |-> 0]
                               ELSE IF n + 1 > N THEN [n |-> n + 1, c |-> 0]
                               ELSE IF n + 1 = N THEN [n |-> n + 1, c |-> data[n + 1].t]
                               ELSE LET next == f[n + 1]
                                    IN [next EXCEPT !.c = IF @ > 0 THEN @ ELSE data[n + 1].t]
      BY <1>7
    <2> HIDE DEF N
    <2> DEFINE n == i + data[i].n
               t == data[n + 1].t
    <2>1. n \in Nat /\ n + 1 \in Nat \ {0} /\ after[i] = n + 1
      BY <1>1, <1>2
    <2>2. d[n + 1] \in S /\ f[i] = step[i][d[n + 1]]
      BY <1>6, <1>7, <2>1 DEF Descends
    <2>3. f[i] = IF ~data[i].more THEN [n |-> n, c |-> 0]
                 ELSE IF n + 1 > N THEN [n |-> n + 1, c |-> 0]
                 ELSE IF n + 1 = N THEN [n |-> n + 1, c |-> t]
                 ELSE [d[n + 1] EXCEPT !.c = IF @ > 0 THEN @ ELSE t]
      BY <1>3, <2>2
    <2> HIDE DEF n, t
    <2>4. n + 1 < N => d[n + 1] = f[n + 1]
      <3>1. n + 1 < N => n + 1 \in 1..N
        BY <1>1, <2>1
      <3> QED
        BY <1>7, <3>1
    <2>a. ~ (n + 1 > N) /\ n + 1 # N => n + 1 < N
      BY <1>1, <2>1
    <2>5. f[i] = IF ~data[i].more THEN [n |-> n, c |-> 0]
                 ELSE IF n + 1 > N THEN [n |-> n + 1, c |-> 0]
                 ELSE IF n + 1 = N THEN [n |-> n + 1, c |-> t]
                 ELSE [f[n + 1] EXCEPT !.c = IF @ > 0 THEN @ ELSE t]
      BY <2>3, <2>4, <2>a
    <2> QED
      BY <2>5, Zenon DEF n, t
  <1>9. level = Body(level)
    BY <1>8, Zenon
  <1>10. IsATR(data) <=> N >= level[2].n + data[2].t + (IF level[2].c > 0 THEN 1 ELSE 0)
    <2>1. N >= 2
      OBVIOUS
    <2> QED
      BY <2>1, Zenon DEF IsATR
  <1> HIDE DEF level
  <1>11. Levels(data, level)
    BY <1>9, Zenon DEF Levels
  <1>12. level = f
    <2> DEFINE T == {i \in 1..N : level[i] # f[i]}
    <2>1. ASSUME NEW i \in T, \A j \in T : j <= i PROVE FALSE
      <3> DEFINE m == data[i].n
                 n == i + m
                 t == data[n + 1].t
      <3>1. i \in 1..N /\ level[i] # f[i] /\ \A j \in 1..N : j > i => level[j] = f[j]
        BY <1>1, <2>1
      <3> HIDE DEF N, T
      <3>2. m \in Nat
        BY <1>1, <3>1
      <3>3. level[i] = IF ~data[i].more THEN [n |-> n, c |-> 0]
                       ELSE IF n + 1 > N THEN [n |-> n + 1, c |-> 0]
                       ELSE IF n + 1 = N THEN [n |-> n + 1, c |-> t]
                       ELSE [level[n + 1] EXCEPT !.c = IF @ > 0 THEN @ ELSE t]
        BY <1>9, <3>1, Zenon
      <3>4. f[i] = IF ~data[i].more THEN [n |-> n, c |-> 0]
                   ELSE IF n + 1 > N THEN [n |-> n + 1, c |-> 0]
                   ELSE IF n + 1 = N THEN [n |-> n + 1, c |-> t]
                   ELSE [f[n + 1] EXCEPT !.c = IF @ > 0 THEN @ ELSE t]
        BY <1>8, <3>1, Zenon
      <3> HIDE DEF m, t
      <3>5. ~ (n + 1 > N) => n + 1 \in 1..N /\ n + 1 > i
        BY <1>1, <3>1, <3>2
      <3>6. ~ (n + 1 > N) => level[n + 1] = f[n + 1]
        BY <3>1, <3>5
      <3> HIDE DEF n
      <3> QED
        BY <3>1, <3>3, <3>4, <3>6
    <2>2. T \subseteq 1..N
      OBVIOUS
    <2> HIDE DEF T, N
    <2>3. T = {}
      BY <1>1, <2>1, <2>2, Furthest
    <2>4. \A i \in 1..N : level[i] = f[i]
      BY <2>3 DEF T
    <2>5. level = [i \in 1..N |-> level[i]]
      BY <1>9
    <2>6. f = [i \in 1..N |-> f[i]]
      BY <1>7
    <2> QED
      BY <2>4, <2>5, <2>6
  <1> QED
    BY <1>7, <1>10, <1>11, <1>12 DEF S

(* What the levels of the first k bytes say of an answer of N bytes with h    *)
(* historical ones, TCK being owed or not, and owed after this level or not:  *)
(* all of it, or that more is to come                                         *)
Tells(level, k, N, h, owed, later) ==
  IF k = N THEN /\ level.n + h + (IF owed THEN 1 ELSE 0) = N
                /\ level.c > 0 <=> later
  ELSE \/ level.n + h > k
       \/ /\ level.n + h = k
          /\ level.c > 0 \/ (owed /\ (level.c > 0 <=> later))

(* The last level tells it, ... *)
LEMMA LastTells ==
  ASSUME NEW k \in Nat, NEW N \in Nat, k <= N, NEW h \in Nat, NEW owed \in BOOLEAN, NEW m \in Nat,
         N = m + h + (IF owed THEN 1 ELSE 0)
  PROVE  Tells([n |-> m, c |-> 0], k, N, h, owed, FALSE)
  BY DEF Tells

(* ... a text that ends before the next level, ... *)
LEMMA ShortTells ==
  ASSUME NEW k \in Nat, NEW N \in Nat, k < N, NEW h \in Nat, NEW owed, NEW later,
         NEW m \in Nat, m > k
  PROVE  Tells([n |-> m, c |-> 0], k, N, h, owed, later)
  BY DEF Tells

(* ... one that ends with it ... *)
Stops(k, N, h, t, owed, later) ==
  /\ k < N => h > 0 \/ t > 0
  /\ k = N => h = 0 /\ ~owed /\ (later <=> t > 0)

(* ... is behind T0 or names another protocol, ... *)
LEMMA CutTells ==
  ASSUME NEW k \in Nat, NEW N \in Nat, k <= N, NEW h \in Nat, NEW t \in Nat,
         NEW owed \in BOOLEAN, NEW later \in BOOLEAN,
         Stops(k, N, h, t, owed, later)
  PROVE  Tells([n |-> k, c |-> t], k, N, h, owed, later)
  <1> DEFINE level == [n |-> k, c |-> t]
  <1>1. level.n = k /\ level.c = t
    OBVIOUS
  <1> HIDE DEF level
  <1>2. ASSUME k = N PROVE Tells(level, k, N, h, owed, later)
    BY <1>1, <1>2 DEF Tells, Stops
  <1>3. ASSUME k < N PROVE Tells(level, k, N, h, owed, later)
    <2>1. h > 0 \/ t > 0
      BY <1>3 DEF Stops
    <2>2. k + h > k \/ (k + h = k /\ t > 0)
      BY <2>1
    <2>3. k # N
      BY <1>3
    <2> QED
      BY <1>1, <2>2, <2>3, Zenon DEF Tells
  <1>a. k = N \/ k < N
    OBVIOUS
  <1>4. Tells(level, k, N, h, owed, later)
    BY <1>2, <1>3, <1>a
  <1> QED
    BY <1>4 DEF level

(* still: the next TDi names t, or one after it is owed a check byte *)
Owes(still, t, later) == still <=> t > 0 \/ later

(* ... and one that goes on. *)
LEMMA NextTells ==
  ASSUME NEW k \in Nat, NEW N \in Nat, k <= N, NEW h \in Nat, NEW t \in Nat,
         NEW owed \in BOOLEAN, NEW later \in BOOLEAN, NEW still \in BOOLEAN,
         NEW level \in [n : Nat, c : Nat], Tells(level, k, N, h, owed, later),
         Owes(still, t, later)
  PROVE  Tells([level EXCEPT !.c = IF @ > 0 THEN @ ELSE t], k, N, h, owed, still)
  <1> DEFINE more == [level EXCEPT !.c = IF @ > 0 THEN @ ELSE t]
  <1>1. level.n \in Nat /\ level.c \in Nat
    OBVIOUS
  <1>2. more.n = level.n /\ more.c = IF level.c > 0 THEN level.c ELSE t
    OBVIOUS
  <1> HIDE DEF more
  <1> QED
    BY <1>1, <1>2 DEF Tells, Owes, more

(* A prefix of an answer is none: isATR, which follows T0 and the TDi, finds  *)
(* that bytes are missing until none is.                                      *)
LEMMA AnswerKnown ==
  ASSUME NEW u \in Seq(Byte), IsAnswer(u), NEW k \in 2..Len(u)
  PROVE  IsATR(SubSeq(u, 1, k)) <=> k = Len(u)
  <1> DEFINE data == SubSeq(u, 1, k)
             N == Len(u)
             h == u[2].t
  <1>1. N \in Nat /\ N >= 2 /\ k \in 2..N
    BY DEF IsAnswer
  <1>2. data \in Seq(Byte) /\ Len(data) = k /\ \A i \in 1..k : data[i] = u[i]
    BY <1>1, Prefix
  <1>3. \A i \in 1..N : u[i].n \in Nat /\ u[i].t \in Nat /\ u[i].more \in BOOLEAN
    BY ByteParts
  <1>a. PICK Q \in SUBSET (2..N) : \E owed \in [Q -> BOOLEAN] :
          /\ 2 \in Q
          /\ \A i \in Q :
               LET next == i + u[i].n + 1 IN
               IF u[i].more
               THEN /\ next \in Q
                    /\ owed[i] <=> u[next].t > 0 \/ owed[next]
                    /\ u[2].t > 0 \/ u[next].t > 0 \/ next = Len(u)
               ELSE /\ ~owed[i]
                    /\ Len(u) = i + u[i].n + u[2].t + (IF owed[2] THEN 1 ELSE 0)
    BY Zenon DEF IsAnswer
  <1>4. PICK owed \in [Q -> BOOLEAN] :
          /\ 2 \in Q
          /\ \A i \in Q :
               LET next == i + u[i].n + 1 IN
               IF u[i].more
               THEN /\ next \in Q
                    /\ owed[i] <=> u[next].t > 0 \/ owed[next]
                    /\ u[2].t > 0 \/ u[next].t > 0 \/ next = Len(u)
               ELSE /\ ~owed[i]
                    /\ Len(u) = i + u[i].n + u[2].t + (IF owed[2] THEN 1 ELSE 0)
    BY <1>a
  <1>5. PICK f \in [1..k -> [n : Nat, c : Nat]] :
          /\ Levels(data, f)
          /\ IsATR(data) <=> k >= f[2].n + data[2].t + (IF f[2].c > 0 THEN 1 ELSE 0)
    <2>1. Len(data) >= 2
      BY <1>1, <1>2
    <2> HIDE DEF data
    <2> QED
      BY <1>2, <2>1, ATRLevels
  <1> DEFINE T == {i \in Q : i <= k /\ ~Tells(f[i], k, N, h, owed[2], owed[i])}
  <1> HIDE DEF data
  <1>6. ASSUME NEW i \in T, \A j \in T : j <= i PROVE FALSE
    <2> DEFINE n == u[i].n
               next == i + n + 1
    <2>1. /\ i \in Q /\ i <= k /\ i \in 1..k /\ i \in 1..N
          /\ \A j \in Q : j > i /\ j <= k => Tells(f[j], k, N, h, owed[2], owed[j])
      <3>1. i \in Q /\ i <= k /\ i \in 2..N
        BY <1>4
      <3>2. i \in 1..k /\ i \in 1..N
        BY <1>1, <3>1
      <3>3. ASSUME NEW j \in Q, j > i, j <= k PROVE Tells(f[j], k, N, h, owed[2], owed[j])
        <4>1. j \in T => j <= i
          BY <1>6
        <4>2. j \in 2..N /\ ~ (j <= i)
          BY <3>1, <3>3
        <4>3. j \notin T
          BY <4>1, <4>2
        <4> QED
          BY <3>3, <4>3
      <3> QED
        BY <3>1, <3>2, <3>3
    <2>2. ~Tells(f[i], k, N, h, owed[2], owed[i])
      OBVIOUS
    <2>3. /\ owed[2] \in BOOLEAN /\ owed[i] \in BOOLEAN /\ h \in Nat /\ n \in Nat
          /\ u[i].more \in BOOLEAN /\ i \in Nat /\ k \in Nat /\ k <= N
      BY <1>1, <1>3, <1>4, <2>1
    <2> HIDE DEF T, h
    <2>4. IF u[i].more
          THEN /\ next \in Q
               /\ owed[i] <=> u[next].t > 0 \/ owed[next]
               /\ h > 0 \/ u[next].t > 0 \/ next = N
          ELSE /\ ~owed[i]
               /\ N = i + n + h + (IF owed[2] THEN 1 ELSE 0)
      BY <1>4, <2>1 DEF h
    <2>5. f[i] = IF ~u[i].more THEN [n |-> i + n, c |-> 0]
                 ELSE IF next > k THEN [n |-> next, c |-> 0]
                 ELSE IF next = k THEN [n |-> next, c |-> data[next].t]
                 ELSE [f[next] EXCEPT !.c = IF @ > 0 THEN @ ELSE data[next].t]
      <3>1. data[i] = u[i]
        BY <1>2, <2>1
      <3>2. i \in 1..Len(data)
        BY <1>2, <2>1
      <3> QED
        BY <1>2, <1>5, <3>1, <3>2, Zenon DEF Levels
    <2> HIDE DEF N, n
    <2>6. CASE ~u[i].more
      <3>1. i + n \in Nat
        BY <2>3
      <3>2. Tells([n |-> i + n, c |-> 0], k, N, h, owed[2], FALSE)
        BY <1>1, <2>3, <2>4, <2>6, <3>1, LastTells
      <3> QED
        BY <2>2, <2>3, <2>4, <2>5, <2>6, <3>2
    <2>7. CASE u[i].more
      <3>1. next \in Q /\ next \in 2..N /\ next > i /\ owed[next] \in BOOLEAN
        <4>1. next \in Q
          BY <2>4, <2>7
        <4>2. next > i
          BY <2>3
        <4> QED
          BY <1>4, <4>1, <4>2
      <3>2. u[next].t \in Nat /\ next \in Nat
        <4>1. next \in 1..N /\ next \in Nat
          BY <1>1, <3>1
        <4> HIDE DEF next
        <4> QED
          BY <1>3, <4>1
      <3>3. /\ owed[i] <=> u[next].t > 0 \/ owed[next]
            /\ h > 0 \/ u[next].t > 0 \/ next = N
        BY <2>4, <2>7
      <3>4. next = N => h = 0 /\ ~owed[2] /\ ~owed[next]
        <4> SUFFICES ASSUME next = N PROVE h = 0 /\ ~owed[2] /\ ~owed[next]
          OBVIOUS
        <4> DEFINE m == u[next].n
        <4>1. m \in Nat /\ u[next].more \in BOOLEAN
          <5>1. next \in 1..N
            BY <1>1, <3>1
          <5> HIDE DEF next
          <5> QED
            BY <1>3, <5>1
        <4>2. IF u[next].more THEN next + m + 1 \in Q
              ELSE ~owed[next] /\ N = next + m + h + (IF owed[2] THEN 1 ELSE 0)
          BY <1>4, <3>1 DEF h, N
        <4> HIDE DEF m, next
        <4>3. next + m + 1 \notin 2..N
          BY <1>1, <4>1
        <4>4. ~owed[next] /\ N = next + m + h + (IF owed[2] THEN 1 ELSE 0)
          BY <1>4, <4>2, <4>3
        <4>5. ~owed[2]
          <5> SUFFICES ASSUME owed[2] PROVE FALSE
            BY <2>3
          <5>1. N = N + m + h + 1
            BY <4>4
          <5> QED
            BY <1>1, <2>3, <4>1, <5>1
        <4>6. N = N + m + h + 0
          BY <4>4, <4>5
        <4>7. h = 0
          BY <1>1, <2>3, <4>1, <4>6
        <4> QED
          BY <4>4, <4>5, <4>7
      <3>5. next <= k => data[next] = u[next]
        <4>1. next <= k => next \in 1..k
          BY <2>3, <3>1
        <4> QED
          BY <1>2, <4>1
      <3> HIDE DEF next
      <3>6. CASE next > k
        <4>1. k < N
          BY <1>1, <2>3, <3>1, <3>6
        <4>2. Tells([n |-> next, c |-> 0], k, N, h, owed[2], owed[i])
          BY <1>1, <2>3, <3>2, <3>6, <4>1, ShortTells
        <4> QED
          BY <2>2, <2>5, <2>7, <3>6, <4>2
      <3>7. CASE next = k
        <4> DEFINE t == u[next].t
        <4>1. /\ t \in Nat /\ (k < N => h > 0 \/ t > 0)
              /\ k = N => h = 0 /\ ~owed[2] /\ (owed[i] <=> t > 0)
          <5>1. t \in Nat
            BY <3>2
          <5>2. k < N => h > 0 \/ t > 0
            <6>1. k < N => next # N
              BY <1>1, <3>7
            <6> QED
              BY <3>3, <6>1
          <5>3. ASSUME k = N PROVE h = 0 /\ ~owed[2] /\ (owed[i] <=> t > 0)
            <6>1. next = N
              BY <3>7, <5>3
            <6>2. h = 0 /\ ~owed[2] /\ ~owed[next]
              BY <3>4, <6>1
            <6> QED
              BY <3>3, <6>2
          <5> QED
            BY <5>1, <5>2, <5>3
        <4>2. f[i] = [n |-> k, c |-> t]
          BY <2>3, <2>5, <2>7, <3>5, <3>7
        <4> HIDE DEF t
        <4>a. Stops(k, N, h, t, owed[2], owed[i])
          BY <4>1 DEF Stops
        <4>3. Tells([n |-> k, c |-> t], k, N, h, owed[2], owed[i])
          <5>1. N \in Nat /\ k \in Nat /\ k <= N /\ h \in Nat /\ t \in Nat
            BY <1>1, <2>3, <4>1
          <5>2. owed[2] \in BOOLEAN /\ owed[i] \in BOOLEAN
            BY <2>3
          <5> DEFINE o == owed[2]
                     l == owed[i]
          <5>3. o \in BOOLEAN /\ l \in BOOLEAN /\ Stops(k, N, h, t, o, l)
            BY <4>a, <5>2
          <5> HIDE DEF o, l
          <5>4. Tells([n |-> k, c |-> t], k, N, h, o, l)
            BY <5>1, <5>3, CutTells
          <5> QED
            BY <5>4 DEF o, l
        <4> QED
          BY <2>2, <4>2, <4>3
      <3>8. CASE next < k
        <4> DEFINE t == u[next].t
        <4>1. t \in Nat /\ (owed[i] <=> t > 0 \/ owed[next])
          BY <3>2, <3>3
        <4>2. f[i] = [f[next] EXCEPT !.c = IF @ > 0 THEN @ ELSE t]
          <5>1. ~ (next > k) /\ next # k /\ data[next] = u[next]
            <6>1. ~ (next > k) /\ next # k /\ next <= k
              BY <2>3, <3>2, <3>8
            <6> QED
              BY <3>5, <6>1
          <5> QED
            BY <2>5, <2>7, <5>1
        <4>3. f[next] \in [n : Nat, c : Nat]
          BY <1>5, <2>3, <3>1, <3>8
        <4>4. Tells(f[next], k, N, h, owed[2], owed[next])
          BY <2>1, <2>3, <3>1, <3>2, <3>8
        <4> HIDE DEF t
        <4>5. Tells([f[next] EXCEPT !.c = IF @ > 0 THEN @ ELSE t], k, N, h, owed[2], owed[i])
          <5>1. N \in Nat /\ k \in Nat /\ k <= N /\ h \in Nat /\ t \in Nat
            BY <1>1, <2>3, <4>1
          <5>2. owed[2] \in BOOLEAN /\ owed[i] \in BOOLEAN /\ owed[next] \in BOOLEAN
            BY <2>3, <3>1
          <5>3. Owes(owed[i], t, owed[next])
            BY <4>1 DEF Owes
          <5> DEFINE l == f[next]
          <5>4. l \in [n : Nat, c : Nat] /\ Tells(l, k, N, h, owed[2], owed[next])
            BY <4>3, <4>4
          <5> HIDE DEF l
          <5>5. Tells([l EXCEPT !.c = IF @ > 0 THEN @ ELSE t], k, N, h, owed[2], owed[i])
            BY <5>1, <5>2, <5>3, <5>4, NextTells
          <5> QED
            BY <5>5 DEF l
        <4> QED
          BY <2>2, <4>2, <4>5
      <3> QED
        BY <2>3, <3>2, <3>6, <3>7, <3>8
    <2> QED
      BY <2>3, <2>6, <2>7
  <1>7. T \subseteq 1..N
    <2>1. \A i \in 2..N : i \in 1..N
      BY <1>1
    <2>2. \A i \in T : i \in 2..N
      BY <1>4
    <2> HIDE DEF T, N
    <2> QED
      BY <2>1, <2>2
  <1>8. T = {}
    <2> HIDE DEF T, N
    <2> QED
      BY <1>1, <1>6, <1>7, Furthest
  <1>9. Tells(f[2], k, N, h, owed[2], owed[2])
    <2>1. 2 \in Q /\ 2 <= k
      BY <1>1, <1>4
    <2> QED
      BY <1>8, <2>1
  <1>10. data[2].t = h /\ h \in Nat /\ f[2] \in [n : Nat, c : Nat] /\ owed[2] \in BOOLEAN
    BY <1>1, <1>2, <1>3, <1>4, <1>5
  <1>11. f[2].n \in Nat /\ f[2].c \in Nat
    BY <1>10
  <1> HIDE DEF h, N, T
  <1>12. k >= f[2].n + h + (IF f[2].c > 0 THEN 1 ELSE 0) <=> k = N
    <2> DEFINE l == f[2]
               o == owed[2]
    <2>1. l.n \in Nat /\ l.c \in Nat /\ h \in Nat /\ o \in BOOLEAN /\ Tells(l, k, N, h, o, o)
      BY <1>9, <1>10, <1>11
    <2> HIDE DEF l, o
    <2>2. ASSUME k = N PROVE k >= l.n + h + (IF l.c > 0 THEN 1 ELSE 0)
      <3>1. l.n + h + (IF o THEN 1 ELSE 0) = N /\ (l.c > 0 <=> o)
        BY <2>1, <2>2, Zenon DEF Tells
      <3>2. CASE o
        <4>1. l.n + h + 1 = N /\ l.c > 0
          BY <3>1, <3>2
        <4> QED
          BY <1>1, <2>1, <2>2, <4>1
      <3>3. CASE ~o
        <4>1. l.n + h + 0 = N /\ ~ (l.c > 0)
          BY <3>1, <3>3
        <4> QED
          BY <1>1, <2>1, <2>2, <4>1
      <3> QED
        BY <2>1, <3>2, <3>3
    <2>3. ASSUME k # N PROVE ~ (k >= l.n + h + (IF l.c > 0 THEN 1 ELSE 0))
      <3>1. l.n + h > k \/ (l.n + h = k /\ (l.c > 0 \/ (o /\ (l.c > 0 <=> o))))
        BY <2>1, <2>3, Zenon DEF Tells
      <3>2. l.n + h > k \/ (l.n + h = k /\ l.c > 0)
        BY <3>1, Zenon
      <3>3. ASSUME l.n + h > k PROVE ~ (k >= l.n + h + (IF l.c > 0 THEN 1 ELSE 0))
        <4> DEFINE x == IF l.c > 0 THEN 1 ELSE 0
                   n == l.n
        <4>1. x \in Nat /\ n \in Nat /\ n + h > k /\ h \in Nat /\ k \in Nat
          BY <1>1, <2>1, <3>3
        <4> HIDE DEF x, n
        <4>2. ~ (k >= n + h + x)
          BY <4>1
        <4> QED
          BY <4>2 DEF x, n
      <3>4. ASSUME l.n + h = k, l.c > 0 PROVE ~ (k >= l.n + h + (IF l.c > 0 THEN 1 ELSE 0))
        <4>1. l.n + h + (IF l.c > 0 THEN 1 ELSE 0) = k + 1
          BY <2>1, <3>4
        <4> QED
          BY <1>1, <4>1
      <3> QED
        BY <3>2, <3>3, <3>4
    <2>4. k >= l.n + h + (IF l.c > 0 THEN 1 ELSE 0) <=> k = N
      BY <2>2, <2>3
    <2> QED
      BY <2>4 DEF l
  <1> QED
    BY <1>5, <1>10, <1>12 DEF data, N

-----------------------------------------------------------------------------
(* The decoder follows the reader and the card *)

(* what may be said at a stage, where T=1 is selected before it is used and  *)
(* every selection names PPS1                                                *)
Said(at) ==
  CASE at = "answer" -> Say("ATR", ATRs)
    [] at = "first"  -> Say("Request", {PPS(0, TRUE), PPS(1, TRUE)}) \cup Say("Exchange", Exchanges)
    [] at = "asked"  -> Say("Response", {PPS(0, TRUE), PPS(0, FALSE), PPS(1, TRUE)})
    [] at = "T0"     -> Say("Exchange", Exchanges)
    [] OTHER         -> Say("Request", Blocks) \cup Say("Response", Blocks)

Types ==
  /\ frame \in Frame /\ unit \in Frame /\ sent \in 0 .. Len(unit.data)
  /\ lines \in {"off", "low", "held", "high", "mute"}
  /\ stage \in {"answer", "first", "asked", "T0", "T1"}

(* a card that has no supply or is reset: the decoder waits for RST to rise, *)
(* and in the loop that does so when the buffer has ended or I/O has fallen  *)
WhileDown ==
  lines \in {"off", "low", "held"} =>
    /\ stage = "answer" /\ unit.data = <<>> /\ sent = 0 /\ ~again
    /\ ~tech /\ mode = "reset" /\ protocol = DefaultProtocol /\ ~expires
    /\ lines # "low" => loop = "detect"

WhileMute ==
  lines = "mute" => loop = "detect" /\ ~tech /\ mode # "reset"

(* the answer, of which the characters from TS on are in the frame *)
WhileAnswering ==
  lines = "high" /\ stage = "answer" =>
    /\ ~tech /\ loop = "detect" /\ protocol = DefaultProtocol
    /\ sent = 0 => mode = "sync" /\ (~again => ~expires)
    /\ sent > 0 => mode = "ATR" /\ sent < Len(unit.data) /\ frame.data = SubSeq(unit.data, 1, sent)
    /\ sent < Len(unit.data) => unit \in Said("answer")

(* after the answer the characters of what is being said are in the frame *)
WhileTalking ==
  lines = "high" /\ stage # "answer" =>
    /\ tech /\ loop = "decode" /\ mode # "reset"
    /\ frame.data = IF sent < Len(unit.data) THEN SubSeq(unit.data, 1, sent) ELSE <<>>
    /\ sent < Len(unit.data) => unit \in Said(stage)

(* in T=0 the waiting time only starts with an error signal, and the         *)
(* decoder knows of a request of parameters when it is made                  *)
WhileT0 ==
  lines = "high" /\ stage \in {"first", "asked", "T0"} =>
    /\ ~again => ~expires
    /\ protocol \in [type : {0}, change : BOOLEAN]
    /\ stage = "first" => protocol.change = FALSE
    /\ stage = "asked" => /\ protocol.change = TRUE
                          /\ sent = Len(unit.data) => unit.data \in {PPS(0, TRUE), PPS(1, TRUE)}

(* in T=1 the frame has the type of what is being said, or of what will be *)
WhileT1 ==
  lines = "high" /\ stage = "T1" =>
    /\ protocol = [type |-> 1, change |-> FALSE] /\ ~again
    /\ unit.type \in {"Request", "Response"}
    /\ frame.type = IF sent < Len(unit.data) THEN unit.type
                    ELSE IF unit.type = "Request" THEN "Response" ELSE "Request"
    /\ sent < Len(unit.data) => sent > 0 /\ expires
    /\ sent = Len(unit.data) => ~expires

SessionInv ==
  /\ Types /\ FramesAreUnits
  /\ WhileDown /\ WhileMute /\ WhileAnswering /\ WhileTalking /\ WhileT0 /\ WhileT1

(* the character k of u is next: the ones before it are in the frame *)
Speaking(u, k) ==
  /\ lines = "high" /\ u \in Said(stage) /\ k \in 1..Len(u.data)
  /\ stage = "answer" => IF k = 1 THEN mode = "sync"
                         ELSE mode = "ATR" /\ frame.data = SubSeq(u.data, 1, k - 1)
  /\ stage # "answer" => frame.data = SubSeq(u.data, 1, k - 1)
  /\ stage = "T1" => frame.type = u.type

(* One more character of a text. *)
LEMMA Extended ==
  ASSUME NEW u \in Seq(Byte), NEW k \in 1..Len(u)
  PROVE  /\ u[k] \in Byte
         /\ Append(SubSeq(u, 1, k - 1), u[k]) = SubSeq(u, 1, k)
         /\ SubSeq(u, 1, Len(u)) = u
         /\ SubSeq(u, 1, 0) = <<>>
  <1> DEFINE s == SubSeq(u, 1, k - 1)
             e == u[k]
             a == Append(s, e)
  <1>1. e \in Byte /\ k - 1 \in 0..Len(u) /\ k \in 0..Len(u) /\ Len(u) \in 0..Len(u) /\ 0 \in 0..Len(u)
    OBVIOUS
  <1>2. s \in Seq(Byte) /\ Len(s) = k - 1 /\ \A i \in 1..(k - 1) : s[i] = u[i]
    BY <1>1, Prefix
  <1> HIDE DEF s
  <1>3. a \in Seq(Byte) /\ Len(a) = Len(s) + 1 /\ (\A i \in 1..Len(s) : a[i] = s[i]) /\ a[Len(s) + 1] = e
    BY <1>1, <1>2, Appended
  <1> HIDE DEF a
  <1> DEFINE p == SubSeq(u, 1, k)
             w == SubSeq(u, 1, Len(u))
             z == SubSeq(u, 1, 0)
  <1>4. p \in Seq(Byte) /\ Len(p) = k /\ \A i \in 1..k : p[i] = u[i]
    BY <1>1, Prefix
  <1>5. w \in Seq(Byte) /\ Len(w) = Len(u) /\ \A i \in 1..Len(u) : w[i] = u[i]
    BY <1>1, Prefix
  <1>6. z \in Seq(Byte) /\ Len(z) = 0
    BY <1>1, Prefix
  <1> HIDE DEF p, w, z
  <1>7. a = p
    <2>1. Len(a) = k /\ k \in Nat
      BY <1>2, <1>3
    <2>2. \A i \in 1..k : a[i] = p[i]
      <3> SUFFICES ASSUME NEW i \in 1..k PROVE a[i] = p[i]
        OBVIOUS
      <3>1. CASE i = k
        BY <1>2, <1>3, <1>4, <2>1, <3>1 DEF e
      <3>2. CASE i # k
        <4>1. i \in 1..Len(s) /\ i \in 1..(k - 1)
          BY <1>2, <3>2
        <4> QED
          BY <1>2, <1>3, <1>4, <4>1
      <3> QED
        BY <3>1, <3>2
    <2> QED
      BY <1>3, <1>4, <2>1, <2>2, SeqEqual
  <1>8. w = u
    BY <1>5, SeqEqual
  <1>9. z = <<>>
    BY <1>6, EmptySeq
  <1> QED
    BY <1>1, <1>7, <1>8, <1>9 DEF a, s, p, w, z

(* What is said is a text of its kind. *)
LEMMA SaidForms ==
  ASSUME NEW at, NEW u \in Said(at)
  PROVE  /\ u \in Frame /\ u.data \in Seq(Byte) /\ Len(u.data) >= 2
         /\ u = [type |-> u.type, data |-> u.data]
         /\ at = "answer" => u.type = "ATR" /\ u.data \in ATRs
         /\ at = "first" => \/ u.type = "Exchange" /\ u.data \in Exchanges
                            \/ u.type = "Request" /\ \E t \in {0, 1} : u.data = PPS(t, TRUE)
         /\ at = "asked" => /\ u.type = "Response"
                            /\ u.data \in {PPS(0, TRUE), PPS(0, FALSE), PPS(1, TRUE)}
         /\ at = "T0" => u.type = "Exchange" /\ u.data \in Exchanges
         /\ at \notin {"answer", "first", "asked", "T0"} =>
              u.type \in {"Request", "Response"} /\ u.data \in Blocks
  <1> DEFINE Kinds == FrameType
             PPSs == {PPS(0, TRUE), PPS(0, FALSE), PPS(1, TRUE)}
  <1>1. \A p \in PPSs : p \in Seq(Byte) /\ Len(p) >= 2
    <2>1. \A t \in {0, 1}, more \in BOOLEAN : PPS(t, more) \in Seq(Byte) /\ Len(PPS(t, more)) >= 2
      <3> SUFFICES ASSUME NEW t \in {0, 1}, NEW more \in BOOLEAN
                   PROVE  PPS(t, more) \in Seq(Byte) /\ Len(PPS(t, more)) >= 2
        OBVIOUS
      <3>1. t \in Nat
        OBVIOUS
      <3>2. PPS(t, more) \in Seq(Byte) /\ Len(PPS(t, more)) = IF more THEN 4 ELSE 3
        BY <3>1, PPSParts
      <3> QED
        BY <3>2
    <2> QED
      BY <2>1
  <1>2. \A p \in ATRs \cup Exchanges \cup Blocks : p \in Seq(Byte) /\ Len(p) >= 2
    BY SessionAssumption DEF IsAnswer, IsExchange, IsWhole
  <1> HIDE DEF PPSs
  <1>3. u \in [type : FrameType, data : ATRs \cup Exchanges \cup Blocks \cup PPSs]
    BY DEF Said, Say, FrameType, PPSs
  <1>4. u \in Frame /\ u.data \in Seq(Byte) /\ Len(u.data) >= 2 /\ u = [type |-> u.type, data |-> u.data]
    <2>1. u.data \in ATRs \cup Exchanges \cup Blocks \cup PPSs /\ u.type \in FrameType
      BY <1>3
    <2>2. u = [type |-> u.type, data |-> u.data]
      BY <1>3
    <2>3. u.data \in Seq(Byte) /\ Len(u.data) >= 2
      BY <1>1, <1>2, <2>1
    <2> QED
      BY <2>1, <2>2, <2>3 DEF Frame
  <1>5. at = "answer" => u.type = "ATR" /\ u.data \in ATRs
    BY DEF Said, Say
  <1>6. at = "first" => \/ u.type = "Exchange" /\ u.data \in Exchanges
                        \/ u.type = "Request" /\ \E t \in {0, 1} : u.data = PPS(t, TRUE)
    BY DEF Said, Say
  <1>7. at = "asked" => u.type = "Response" /\ u.data \in PPSs
    BY DEF Said, Say, PPSs
  <1>8. at = "T0" => u.type = "Exchange" /\ u.data \in Exchanges
    BY DEF Said, Say
  <1>9. at \notin {"answer", "first", "asked", "T0"} =>
          u.type \in {"Request", "Response"} /\ u.data \in Blocks
    BY DEF Said, Say
  <1> QED
    BY <1>4, <1>5, <1>6, <1>7, <1>8, <1>9 DEF PPSs

(* A character of the answer: TS tells the bit rate, the last one the end. *)
LEMMA AnswerCharacter ==
  ASSUME SessionInv, NEW u, NEW k, Speaking(u, k), stage = "answer", Put(u, k)
  PROVE  SessionInv'
  <1> DEFINE text == u.data
             N == Len(text)
             byte == text[k]
  <1>1. /\ u \in Frame /\ text \in Seq(Byte) /\ N >= 2 /\ N \in Nat /\ k \in 1..N
        /\ u.type = "ATR" /\ IsAnswer(text) /\ u = [type |-> "ATR", data |-> text]
    <2>1. u \in Said("answer") /\ k \in 1..N
      BY DEF Speaking
    <2>2. u \in Frame /\ text \in Seq(Byte) /\ N >= 2 /\ u = [type |-> u.type, data |-> text]
          /\ u.type = "ATR" /\ text \in ATRs
      BY <2>1, SaidForms
    <2>3. IsAnswer(text)
      BY <2>2, SessionAssumption
    <2>4. N \in Nat
      BY <2>2
    <2> HIDE DEF text, N
    <2> QED
      BY <2>1, <2>2, <2>3, <2>4
  <1>2. /\ byte \in Byte /\ SubSeq(text, 1, N) = text /\ SubSeq(text, 1, 0) = <<>>
        /\ Append(SubSeq(text, 1, k - 1), byte) = SubSeq(text, 1, k)
    BY <1>1, Extended
  <1>3. /\ ~tech /\ loop = "detect" /\ protocol = DefaultProtocol /\ frame \in Frame
        /\ IF k = 1 THEN mode = "sync"
           ELSE mode = "ATR" /\ frame.data = SubSeq(text, 1, k - 1)
    BY DEF SessionInv, WhileAnswering, Speaking, Types
  <1>4. PICK ok \in BOOLEAN :
          /\ Character(byte, ok)
          /\ unit' = u
          /\ sent' = IF ok THEN k ELSE k - 1
          /\ again' = ~ok
          /\ IF ok /\ k = N THEN done' = <<u>> /\ stage' = StageAfter(u)
                            ELSE done' = <<>> /\ UNCHANGED stage
          /\ UNCHANGED lines
    BY DEF Put
  <1>5. lines = "high" /\ lines' = "high" /\ u \in Said("answer")
    BY <1>4 DEF Speaking
  <1>6. WhileDown' /\ WhileMute'
    BY <1>5 DEF WhileDown, WhileMute
  <1>7. text[1].is = "ts"
    BY <1>1 DEF IsAnswer
  <1> HIDE DEF text, N, byte
  <1>8. sent' \in 0..N /\ Len(unit'.data) = N /\ unit'.data = text
    BY <1>1, <1>4 DEF N, text
  <1>9. CASE ok /\ DetectTS(byte)
    <2>1. k = 1 /\ mode = "sync"
      BY <1>3, <1>9 DEF DetectTS
    <2>2. byte.is = "ts"
      BY <1>7, <2>1 DEF byte
    <2>3. /\ mode' = "ATR" /\ frame' = [type |-> "ATR", data |-> <<byte>>]
          /\ output' = <<>> /\ UNCHANGED <<loop, tech, protocol>>
      BY <1>9, <2>2 DEF DetectTS
    <2>4. sent' = 1 /\ done' = <<>> /\ stage' = "answer" /\ 1 < N
      BY <1>1, <1>4, <1>9, <2>1
    <2>5. <<byte>> = SubSeq(text, 1, 1)
      BY <1>1, <1>2, <2>1
    <2>6. frame' \in Frame
      BY <1>2, <2>3 DEF Frame, FrameType
    <2>7. Types'
      BY <1>1, <1>4, <1>5, <1>8, <2>4, <2>6 DEF Types
    <2>8. WhileAnswering'
      BY <1>3, <1>4, <1>5, <1>8, <2>3, <2>4, <2>5 DEF WhileAnswering, DefaultProtocol, Said, Say
    <2>9. WhileTalking' /\ WhileT0' /\ WhileT1' /\ FramesAreUnits'
      BY <2>3, <2>4 DEF WhileTalking, WhileT0, WhileT1, FramesAreUnits
    <2> QED
      BY <1>6, <2>7, <2>8, <2>9 DEF SessionInv
  <1>10. CASE ok /\ DetectATR(byte)
    <2>1. k # 1 /\ mode = "ATR" /\ frame.data = SubSeq(text, 1, k - 1)
      BY <1>3, <1>10 DEF DetectATR
    <2> DEFINE data == SubSeq(text, 1, k)
    <2>2. data = Append(frame.data, byte) /\ data \in Seq(Byte)
      <3>1. k \in 0..Len(text)
        BY <1>1 DEF N
      <3>2. data \in Seq(Byte)
        BY <1>1, <3>1, Prefix
      <3> QED
        BY <1>2, <2>1, <3>2
    <2>3. IsATR(data) <=> k = N
      <3>1. k \in 2..Len(text)
        BY <1>1, <2>1 DEF N
      <3> QED
        BY <1>1, <3>1, AnswerKnown DEF N
    <2>4. k = N => data = text
      BY <1>2
    <2> HIDE DEF data
    <2>5. mode' = "ATR" /\ sent' = k
      BY <1>4, <1>10, <2>1 DEF DetectATR
    <2>6. CASE k = N
      <3>1. tech' = TRUE /\ Release("ATR", data)
        BY <1>10, <2>2, <2>3, <2>6 DEF DetectATR
      <3>2. /\ output' = <<[type |-> "ATR", data |-> data]>> /\ protocol' = protocol
            /\ frame' = Empty(NextType("ATR", FALSE, protocol))
            /\ expires' = FALSE /\ loop' = "decode"
        BY <3>1 DEF Release
      <3>3. frame' = Empty("ATR")
        BY <1>3, <3>2 DEF NextType, DefaultProtocol
      <3>4. done' = <<u>> /\ stage' = "first"
        BY <1>4, <1>10, <2>6 DEF StageAfter
      <3>5. Types'
        BY <1>1, <1>4, <1>5, <1>8, <3>3, <3>4 DEF Types, Frame, FrameType, Empty
      <3>6. FramesAreUnits' /\ WhileAnswering'
        BY <1>1, <2>4, <2>6, <3>2, <3>4 DEF FramesAreUnits, WhileAnswering
      <3>7. WhileTalking'
        <4>1. ~ (sent' < Len(unit'.data))
          BY <1>1, <1>8, <2>5, <2>6
        <4>2. frame'.data = <<>>
          BY <3>3 DEF Empty
        <4> QED
          BY <2>5, <3>1, <3>2, <4>1, <4>2 DEF WhileTalking
      <3>8. WhileT0' /\ WhileT1'
        BY <1>3, <3>2, <3>4 DEF WhileT0, WhileT1, DefaultProtocol
      <3> QED
        BY <1>6, <3>5, <3>6, <3>7, <3>8 DEF SessionInv
    <2>7. CASE k # N
      <3>1. UNCHANGED tech /\ Keep(data, TRUE)
        BY <1>10, <2>2, <2>3, <2>7 DEF DetectATR
      <3>2. /\ frame' = [frame EXCEPT !.data = data] /\ output' = <<>>
            /\ UNCHANGED <<loop, protocol>>
        BY <3>1 DEF Keep
      <3>3. frame' \in Frame /\ frame'.data = data
        BY <1>3, <2>2, <3>2 DEF Frame
      <3>4. done' = <<>> /\ stage' = "answer"
        BY <1>4, <2>7
      <3>5. Types'
        BY <1>1, <1>4, <1>5, <1>8, <3>3, <3>4 DEF Types
      <3>6. FramesAreUnits' /\ WhileTalking' /\ WhileT0' /\ WhileT1'
        BY <3>2, <3>4 DEF FramesAreUnits, WhileTalking, WhileT0, WhileT1
      <3>7. WhileAnswering'
        <4>1. sent' # 0 /\ sent' < N
          BY <1>1, <2>5, <2>7
        <4>2. frame'.data = SubSeq(unit'.data, 1, sent')
          BY <1>8, <2>5, <3>3 DEF data
        <4>3. unit' \in Said("answer")
          BY <1>4, <1>5
        <4>4. ~tech' /\ loop' = "detect" /\ protocol' = DefaultProtocol
          BY <1>3, <3>1, <3>2
        <4>5. sent' < Len(unit'.data)
          BY <1>8, <4>1
        <4> QED
          BY <2>5, <4>1, <4>2, <4>3, <4>4, <4>5 DEF WhileAnswering, DefaultProtocol, Said, Say
      <3> QED
        BY <1>6, <3>5, <3>6, <3>7 DEF SessionInv
    <2> QED
      BY <2>6, <2>7
  <1>11. CASE ~ok
    <2>1. /\ expires' = TRUE /\ output' = <<>> /\ UNCHANGED <<loop, tech, mode, protocol, frame>>
      <3>1. DropCharacter
        BY <1>3, <1>4, <1>11 DEF Character, DecodeNothing
      <3> QED
        BY <3>1 DEF DropCharacter
    <2>2. sent' = k - 1 /\ done' = <<>> /\ stage' = "answer" /\ again' = TRUE /\ k - 1 < N
      <3>1. k - 1 < N
        BY <1>1
      <3> QED
        BY <1>4, <1>11, <3>1
    <2>3. Types'
      BY <1>1, <1>3, <1>4, <1>5, <1>8, <2>1, <2>2 DEF Types
    <2>4. FramesAreUnits' /\ WhileTalking' /\ WhileT0' /\ WhileT1'
      BY <2>1, <2>2 DEF FramesAreUnits, WhileTalking, WhileT0, WhileT1
    <2>5. WhileAnswering'
      <3>1. sent' < Len(unit'.data) /\ unit' \in Said("answer")
        BY <1>4, <1>5, <1>8, <2>2
      <3>2. sent' = 0 => mode' = "sync"
        BY <1>1, <1>3, <2>1, <2>2
      <3>3. sent' > 0 => mode' = "ATR" /\ frame'.data = SubSeq(unit'.data, 1, sent')
        <4>1. sent' > 0 => k # 1
          BY <1>1, <2>2
        <4> QED
          BY <1>3, <1>8, <2>1, <2>2, <4>1
      <3>4. ~tech' /\ loop' = "detect" /\ protocol' = DefaultProtocol
        BY <1>3, <2>1
      <3> QED
        BY <2>2, <3>1, <3>2, <3>3, <3>4 DEF WhileAnswering, DefaultProtocol, Said, Say
    <2> QED
      BY <1>6, <2>3, <2>4, <2>5 DEF SessionInv
  <1> QED
    <2>1. (ok /\ DetectTS(byte)) \/ (ok /\ DetectATR(byte)) \/ ~ok
      BY <1>3, <1>4 DEF Character, DecodeNothing, DecodeFrameT0, DecodeFrameT1
    <2> QED
      BY <1>9, <1>10, <1>11, <2>1

(* With the next character the frame has one more byte of what is said. *)
LEMMA NextByte ==
  ASSUME SessionInv, NEW u, NEW k, Speaking(u, k), stage # "answer"
  PROVE  /\ u \in Said(stage) /\ u \in Frame /\ u = [type |-> u.type, data |-> u.data]
         /\ u.data \in Seq(Byte) /\ Len(u.data) \in Nat /\ Len(u.data) >= 2 /\ k \in 1..Len(u.data)
         /\ frame \in Frame /\ frame.data = SubSeq(u.data, 1, k - 1)
         /\ Append(frame.data, u.data[k]) = SubSeq(u.data, 1, k)
         /\ SubSeq(u.data, 1, k) \in Seq(Byte) /\ Len(SubSeq(u.data, 1, k)) = k
         /\ SubSeq(u.data, 1, Len(u.data)) = u.data
         /\ tech /\ loop = "decode" /\ mode # "reset" /\ lines = "high"
  <1>1. u \in Said(stage) /\ k \in 1..Len(u.data)
    BY DEF Speaking
  <1>2. u \in Frame /\ u.data \in Seq(Byte) /\ Len(u.data) >= 2 /\ u = [type |-> u.type, data |-> u.data]
    BY <1>1, SaidForms
  <1>3. Len(u.data) \in Nat
    BY <1>2
  <1>4. frame \in Frame /\ frame.data = SubSeq(u.data, 1, k - 1)
    BY DEF SessionInv, Types, Speaking
  <1>5. /\ SubSeq(u.data, 1, Len(u.data)) = u.data
        /\ Append(SubSeq(u.data, 1, k - 1), u.data[k]) = SubSeq(u.data, 1, k)
    BY <1>1, <1>2, Extended
  <1>6. SubSeq(u.data, 1, k) \in Seq(Byte) /\ Len(SubSeq(u.data, 1, k)) = k
    <2>1. k \in 0..Len(u.data)
      BY <1>1, <1>2
    <2> QED
      BY <1>2, <2>1, Prefix
  <1>7. tech /\ loop = "decode" /\ mode # "reset" /\ lines = "high"
    BY DEF SessionInv, WhileTalking, Speaking
  <1> QED
    BY <1>1, <1>2, <1>3, <1>4, <1>5, <1>6, <1>7

(* the character k of u is on the line, and stands ... *)
Stands(u, k) ==
  /\ Character(u.data[k], TRUE)
  /\ unit' = u /\ sent' = k /\ again' = FALSE
  /\ IF k = Len(u.data) THEN done' = <<u>> /\ stage' = StageAfter(u)
                        ELSE done' = <<>> /\ UNCHANGED stage
  /\ UNCHANGED lines

(* ... or is to be repeated *)
Fails(u, k) ==
  /\ Character(u.data[k], FALSE)
  /\ unit' = u /\ sent' = k - 1 /\ again' = TRUE
  /\ done' = <<>> /\ UNCHANGED <<stage, lines>>

(* In T=0, while more is to come. *)
LEMMA GoesOn ==
  ASSUME SessionInv, NEW u, NEW k, Speaking(u, k), stage \in {"first", "asked", "T0"},
         NEW s, s \in {k - 1, k}, s < Len(u.data),
         frame' = [frame EXCEPT !.data = SubSeq(u.data, 1, s)],
         output' = <<>>, UNCHANGED <<loop, tech, mode, protocol>>,
         unit' = u, sent' = s, done' = <<>>, UNCHANGED <<stage, lines>>,
         ~again' => ~expires'
  PROVE  SessionInv'
  <1> DEFINE text == u.data
  <1>1. /\ u \in Said(stage) /\ u \in Frame /\ text \in Seq(Byte) /\ Len(text) \in Nat
        /\ k \in 1..Len(text) /\ frame \in Frame /\ lines = "high" /\ stage # "answer"
        /\ tech /\ loop = "decode" /\ mode # "reset"
    BY NextByte
  <1>2. s \in 0..Len(text)
    BY <1>1
  <1>3. frame' \in Frame /\ frame'.data = SubSeq(text, 1, s)
    <2>1. SubSeq(text, 1, s) \in Seq(Byte)
      BY <1>1, <1>2, Prefix
    <2> QED
      BY <1>1, <2>1 DEF Frame
  <1>4. Types'
    BY <1>1, <1>2, <1>3 DEF Types
  <1>5. FramesAreUnits' /\ WhileDown' /\ WhileMute' /\ WhileAnswering' /\ WhileT1'
    BY <1>1 DEF FramesAreUnits, WhileDown, WhileMute, WhileAnswering, WhileT1
  <1>6. WhileTalking'
    <2>1. unit' \in Said(stage)'
      BY <1>1 DEF Said, Say
    <2> QED
      BY <1>1, <1>3, <2>1 DEF WhileTalking, Said, Say
  <1>7. WhileT0'
    <2>1. sent' # Len(unit'.data)
      BY <1>1, <1>2
    <2> QED
      BY <1>1, <2>1 DEF SessionInv, WhileT0
  <1> QED
    BY <1>4, <1>5, <1>6, <1>7 DEF SessionInv

(* In T=0, when all has been said and the frame is in the list. *)
LEMMA IsOver ==
  ASSUME SessionInv, NEW u \in Frame, lines = "high", tech, mode # "reset", loop' = "decode",
         output' = <<u>>, done' = <<u>>, unit' = u, sent' = Len(u.data),
         UNCHANGED <<tech, mode, lines>>, stage' \in {"asked", "T0", "T1"},
         frame' \in Frame, frame'.data = <<>>, ~expires', ~again',
         stage' # "T1" => protocol' \in [type : {0}, change : BOOLEAN],
         stage' = "asked" => protocol'.change = TRUE /\ u.data \in {PPS(0, TRUE), PPS(1, TRUE)},
         stage' = "T1" => /\ protocol' = [type |-> 1, change |-> FALSE]
                          /\ u.type = "Response" /\ frame'.type = "Request"
  PROVE  SessionInv'
  <1>1. Len(u.data) \in Nat
    BY DEF Frame
  <1> DEFINE N == Len(u.data)
  <1>2. N \in 0..N /\ ~ (N < N) /\ sent' = N /\ Len(unit'.data) = N
    BY <1>1
  <1> HIDE DEF N
  <1>3. Types'
    BY <1>2 DEF Types, N
  <1>4. FramesAreUnits' /\ WhileDown' /\ WhileMute' /\ WhileAnswering'
    BY DEF FramesAreUnits, WhileDown, WhileMute, WhileAnswering
  <1>5. WhileTalking'
    BY <1>2 DEF WhileTalking
  <1>6. WhileT0'
    BY DEF WhileT0
  <1>7. WhileT1'
    BY <1>2 DEF WhileT1
  <1> QED
    BY <1>3, <1>4, <1>5, <1>6, <1>7 DEF SessionInv

(* The type of a frame that follows is one. *)
LEMMA NextTypes ==
  ASSUME NEW type \in FrameType, NEW applied, NEW next
  PROVE  NextType(type, applied, next) \in FrameType
  BY DEF NextType, FrameType

(* An error signal in T=0: the character is dropped, and the waiting time starts. *)
LEMMA Repeats ==
  ASSUME SessionInv, NEW u, NEW k, Speaking(u, k), stage \in {"first", "asked", "T0"},
         Fails(u, k)
  PROVE  SessionInv'
  <1>1. /\ k \in 1..Len(u.data) /\ Len(u.data) \in Nat /\ lines = "high" /\ stage # "answer"
        /\ frame \in Frame /\ frame.data = SubSeq(u.data, 1, k - 1) /\ loop = "decode" /\ tech
    BY NextByte
  <1>2. DropCharacter
    BY <1>1 DEF Fails, Character, DecodeNothing
  <1>3. output' = <<>> /\ UNCHANGED <<loop, tech, mode, protocol, frame>>
    BY <1>2 DEF DropCharacter
  <1>4. frame' = [frame EXCEPT !.data = SubSeq(u.data, 1, k - 1)]
    BY <1>1, <1>3 DEF Frame
  <1>5. k - 1 < Len(u.data)
    BY <1>1
  <1>6. /\ unit' = u /\ sent' = k - 1 /\ again' = TRUE /\ done' = <<>> /\ UNCHANGED <<stage, lines>>
    BY DEF Fails
  <1>7. k - 1 \in {k - 1, k} /\ (~again' => ~expires')
    BY <1>6
  <1> DEFINE s == k - 1
  <1>8. /\ s \in {k - 1, k} /\ s < Len(u.data)
        /\ frame' = [frame EXCEPT !.data = SubSeq(u.data, 1, s)] /\ sent' = s
    BY <1>4, <1>5, <1>6, <1>7
  <1> HIDE DEF s
  <1> QED
    <2>1. output' = <<>> /\ UNCHANGED <<loop, tech, mode, protocol>>
      BY <1>3
    <2>2. unit' = u /\ done' = <<>> /\ UNCHANGED <<stage, lines>> /\ (~again' => ~expires')
      BY <1>6
    <2> QED
      BY <1>8, <2>1, <2>2, GoesOn

(* A character of T=0 goes to the frame, which is complete or not. *)
LEMMA CharacterT0 ==
  ASSUME SessionInv, NEW u, NEW k, Speaking(u, k), stage \in {"first", "asked", "T0"},
         Stands(u, k)
  PROVE  /\ LET data == SubSeq(u.data, 1, k) IN
            IF IsPPS(data)
            THEN Release(IF protocol.change THEN "Response" ELSE "Request", data)
            ELSE IF IsTPDU(data) THEN Release("Exchange", data)
            ELSE IF k = MaximumInformationSize THEN Release(frame.type, data)
            ELSE Keep(data, FALSE)
         /\ UNCHANGED <<tech, mode>>
         /\ protocol \in [type : {0}, change : BOOLEAN]
         /\ stage = "first" => protocol.change = FALSE
         /\ stage = "asked" => protocol.change = TRUE
  <1>1. /\ lines = "high" /\ stage # "answer" /\ loop = "decode" /\ tech
        /\ Append(frame.data, u.data[k]) = SubSeq(u.data, 1, k) /\ Len(SubSeq(u.data, 1, k)) = k
    BY NextByte
  <1>2. /\ protocol \in [type : {0}, change : BOOLEAN]
        /\ stage = "first" => protocol.change = FALSE
        /\ stage = "asked" => protocol.change = TRUE
    BY <1>1 DEF SessionInv, WhileT0
  <1>3. protocol.type = 0
    BY <1>2
  <1>4. DecodeFrameT0(u.data[k])
    BY <1>1, <1>3 DEF Stands, Character, DecodeNothing, DetectTS, DetectATR, DecodeFrameT1
  <1> QED
    BY <1>1, <1>2, <1>4 DEF DecodeFrameT0

(* A byte that is kept leaves the waiting time stopped. *)
LEMMA Kept ==
  ASSUME SessionInv, NEW u, NEW k, Speaking(u, k), stage \in {"first", "asked", "T0"},
         Stands(u, k), k # Len(u.data),
         Keep(SubSeq(u.data, 1, k), FALSE), UNCHANGED <<tech, mode>>
  PROVE  SessionInv'
  <1>1. k \in 1..Len(u.data) /\ Len(u.data) \in Nat /\ stage # "answer"
    BY NextByte
  <1>2. k < Len(u.data)
    BY <1>1
  <1>3. /\ unit' = u /\ sent' = k /\ done' = <<>> /\ UNCHANGED <<stage, lines>>
    BY DEF Stands
  <1>4. /\ frame' = [frame EXCEPT !.data = SubSeq(u.data, 1, k)]
        /\ output' = <<>> /\ UNCHANGED <<loop, protocol>> /\ expires' = FALSE
    BY DEF Keep
  <1> QED
    BY <1>2, <1>3, <1>4, GoesOn

(* A command and its answer are one frame, at the end of the status. *)
LEMMA ExchangeCharacter ==
  ASSUME SessionInv, NEW u, NEW k, Speaking(u, k), stage \in {"first", "T0"},
         u.type = "Exchange", u.data \in Exchanges, Stands(u, k)
  PROVE  SessionInv'
  <1> DEFINE text == u.data
             data == SubSeq(text, 1, k)
  <1>1. /\ u \in Frame /\ u = [type |-> "Exchange", data |-> text] /\ text \in Seq(Byte)
        /\ Len(text) \in Nat /\ k \in 1..Len(text) /\ frame \in Frame
        /\ SubSeq(text, 1, Len(text)) = text
        /\ tech /\ loop = "decode" /\ mode # "reset" /\ lines = "high" /\ stage # "answer"
    BY NextByte
  <1>2. /\ IsTPDU(data) <=> k = Len(text)
        /\ ~IsPPS(data) /\ data[1].is # "ff" /\ k <= MaximumInformationSize
        /\ Len(text) <= MaximumInformationSize
    <2>1. IsExchange(text)
      BY SessionAssumption
    <2>2. Len(text) <= MaximumInformationSize
      BY <1>1, <2>1, SizeAssumption DEF IsExchange
    <2> HIDE DEF text
    <2> QED
      BY <1>1, <2>1, <2>2, ExchangeKnown
  <1>3. /\ IF IsPPS(data)
           THEN Release(IF protocol.change THEN "Response" ELSE "Request", data)
           ELSE IF IsTPDU(data) THEN Release("Exchange", data)
           ELSE IF k = MaximumInformationSize THEN Release(frame.type, data)
           ELSE Keep(data, FALSE)
        /\ UNCHANGED <<tech, mode>>
        /\ protocol \in [type : {0}, change : BOOLEAN]
    BY CharacterT0
  <1>4. CASE k = Len(text)
    <2>1. Release("Exchange", data) /\ data = text
      BY <1>1, <1>2, <1>3, <1>4
    <2> HIDE DEF data, text
    <2>2. /\ output' = <<[type |-> "Exchange", data |-> data]>> /\ protocol' = protocol
          /\ frame' = Empty(NextType("Exchange", FALSE, protocol))
          /\ expires' = FALSE /\ loop' = "decode"
      BY <1>2, <2>1 DEF Release
    <2>3. protocol.type = 0
      BY <1>3
    <2>4. frame' = Empty("Exchange")
      BY <2>2, <2>3 DEF NextType
    <2>5. frame' \in Frame /\ frame'.data = <<>>
      BY <2>4 DEF Empty, Frame, FrameType
    <2>6. unit' = u /\ sent' = Len(u.data) /\ again' = FALSE /\ done' = <<u>> /\ stage' = "T0"
          /\ UNCHANGED lines
      BY <1>4 DEF Stands, StageAfter, text
    <2>7. output' = <<u>>
      BY <1>1, <2>1, <2>2
    <2>8. protocol' \in [type : {0}, change : BOOLEAN]
      BY <1>3, <2>2
    <2> QED
      BY <1>1, <1>3, <2>2, <2>5, <2>6, <2>7, <2>8, IsOver
  <1>5. CASE k # Len(text)
    <2>1. Keep(data, FALSE)
      <3>1. k # MaximumInformationSize
        BY <1>1, <1>2, <1>5, SizeAssumption
      <3> QED
        BY <1>2, <1>3, <1>5, <3>1
    <2> QED
      BY <1>3, <1>5, <2>1, Kept
  <1> QED
    BY <1>4, <1>5

(* A selection is a frame of who sends it, and changes the protocol with the reply. *)
LEMMA SelectionCharacter ==
  ASSUME SessionInv, NEW u, NEW k, Speaking(u, k), Stands(u, k),
         NEW t \in {0, 1}, NEW more \in BOOLEAN, u.data = PPS(t, more),
         \/ stage = "first" /\ u.type = "Request" /\ more
         \/ stage = "asked" /\ u.type = "Response" /\ (more \/ t = 0)
  PROVE  SessionInv'
  <1> DEFINE text == u.data
             data == SubSeq(text, 1, k)
  <1>1. /\ u \in Frame /\ u = [type |-> u.type, data |-> text] /\ text \in Seq(Byte)
        /\ Len(text) \in Nat /\ k \in 1..Len(text) /\ frame \in Frame
        /\ SubSeq(text, 1, Len(text)) = text
        /\ tech /\ loop = "decode" /\ mode # "reset" /\ lines = "high" /\ stage # "answer"
    BY NextByte
  <1>2. /\ Len(text) = IF more THEN 4 ELSE 3
        /\ text[1].is = "ff" /\ text[2].t = t /\ text[2].more = more
        /\ IsPPS(data) <=> k = Len(text)
        /\ ~IsTPDU(data) /\ k <= 4
    <2>1. t \in Nat
      OBVIOUS
    <2>2. k \in 1..Len(PPS(t, more))
      BY <1>1
    <2>3. /\ Len(PPS(t, more)) = IF more THEN 4 ELSE 3
          /\ PPS(t, more)[1].is = "ff" /\ PPS(t, more)[2].t = t /\ PPS(t, more)[2].more = more
      BY <2>1, PPSParts
    <2>4. /\ IsPPS(SubSeq(PPS(t, more), 1, k)) <=> k = Len(PPS(t, more))
          /\ ~IsTPDU(SubSeq(PPS(t, more), 1, k)) /\ k <= 4
      BY <2>1, <2>2, PPSKnown
    <2> QED
      BY <2>3, <2>4
  <1>3. /\ IF IsPPS(data)
           THEN Release(IF protocol.change THEN "Response" ELSE "Request", data)
           ELSE IF IsTPDU(data) THEN Release("Exchange", data)
           ELSE IF k = MaximumInformationSize THEN Release(frame.type, data)
           ELSE Keep(data, FALSE)
        /\ UNCHANGED <<tech, mode>>
        /\ protocol \in [type : {0}, change : BOOLEAN]
        /\ stage = "first" => protocol.change = FALSE
        /\ stage = "asked" => protocol.change = TRUE
    BY CharacterT0
  <1>4. CASE k = Len(text)
    <2>1. /\ Release(u.type, data) /\ data = text
      BY <1>1, <1>2, <1>3, <1>4
    <2>2. /\ data[1].is = "ff" /\ Len(data) >= 2 /\ data[2].t = t /\ data[2].more = more
          /\ u.type # "ATR"
      <3>1. Len(text) >= 2 /\ text[1].is = "ff" /\ text[2].t = t /\ text[2].more = more
        BY <1>2
      <3>2. u.type # "ATR"
        OBVIOUS
      <3> HIDE DEF data, text
      <3> QED
        BY <2>1, <3>1, <3>2
    <2> HIDE DEF data, text
    <2> DEFINE next == AfterPPS(data)
               type == NextType(u.type, TRUE /\ protocol.change /\ data[2].more, next)
    <2>3. /\ output' = <<[type |-> u.type, data |-> data]>> /\ protocol' = next
          /\ frame' = Empty(type) /\ expires' = FALSE /\ loop' = "decode"
      BY <2>1, <2>2 DEF Release
    <2>4. frame' \in Frame /\ frame'.data = <<>> /\ frame'.type = type
      <3>1. type \in FrameType
        BY NextTypes DEF FrameType
      <3> HIDE DEF type
      <3> QED
        BY <2>3, <3>1 DEF Empty, Frame
    <2>5. unit' = u /\ sent' = Len(u.data) /\ again' = FALSE /\ done' = <<u>> /\ stage' = StageAfter(u)
          /\ UNCHANGED lines
      BY <1>4 DEF Stands, text
    <2>6. output' = <<u>>
      BY <1>1, <2>1, <2>3
    <2>7. CASE stage = "first"
      <3>1. stage' = "asked"
        BY <1>2, <2>5, <2>7 DEF StageAfter, text
      <3>2. protocol' = [type |-> 0, change |-> TRUE]
        BY <1>3, <2>2, <2>3, <2>7 DEF AfterPPS
      <3>3. protocol' \in [type : {0}, change : BOOLEAN] /\ protocol'.change = TRUE
        BY <3>2
      <3>4. u.data \in {PPS(0, TRUE), PPS(1, TRUE)}
        BY <2>7, Zenon
      <3> QED
        BY <1>1, <1>3, <2>3, <2>4, <2>5, <2>6, <3>1, <3>3, <3>4, IsOver
    <2>8. CASE stage = "asked"
      <3>1. stage' = IF t = 0 THEN "T0" ELSE "T1"
        BY <1>2, <2>5, <2>8 DEF StageAfter, text
      <3>2. CASE t = 0
        <4>1. stage' = "T0"
          BY <3>1, <3>2
        <4>2. protocol' \in [type : {0}, change : BOOLEAN]
          BY <1>3, <2>2, <2>3, <2>8, <3>2 DEF AfterPPS
        <4> QED
          BY <1>1, <1>3, <2>3, <2>4, <2>5, <2>6, <4>1, <4>2, IsOver
      <3>3. CASE t = 1
        <4>1. stage' = "T1" /\ more = TRUE /\ u.type = "Response"
          BY <2>8, <3>1, <3>3
        <4>2. protocol' = [type |-> 1, change |-> FALSE]
          BY <1>3, <2>2, <2>3, <2>8, <3>3, <4>1 DEF AfterPPS
        <4>3. next.type = 1
          BY <2>3, <4>2
        <4>4. type = "Request"
          BY <4>1, <4>3 DEF NextType
        <4> QED
          BY <1>1, <1>3, <2>3, <2>4, <2>5, <2>6, <4>1, <4>2, <4>4, IsOver
      <3> QED
        BY <3>2, <3>3
    <2> QED
      BY <2>7, <2>8
  <1>5. CASE k # Len(text)
    <2>1. Keep(data, FALSE)
      <3>1. k # MaximumInformationSize
        BY <1>1, <1>2, <1>5, SizeAssumption, SessionAssumption
      <3> QED
        BY <1>2, <1>3, <1>5, <3>1
    <2> QED
      BY <1>3, <1>5, <2>1, Kept
  <1> QED
    BY <1>4, <1>5

(* In T=1 the turn is the other side's when a block is in the list. *)
LEMMA Turns ==
  ASSUME SessionInv, lines = "high", stage = "T1", NEW w \in Frame,
         w.type \in {"Request", "Response"}, w.data[1].is # "ff",
         Release(w.type, w.data), UNCHANGED <<tech, mode, stage, lines>>,
         unit' = w, sent' = Len(w.data), ~again', done' = <<w>>
  PROVE  SessionInv'
  <1>1. /\ tech /\ loop = "decode" /\ mode # "reset"
        /\ protocol = [type |-> 1, change |-> FALSE]
    BY DEF SessionInv, WhileTalking, WhileT1
  <1> DEFINE N == Len(w.data)
             other == IF w.type = "Request" THEN "Response" ELSE "Request"
  <1>2. N \in Nat /\ w = [type |-> w.type, data |-> w.data]
    BY DEF Frame
  <1>3. /\ output' = <<[type |-> w.type, data |-> w.data]>> /\ protocol' = protocol
        /\ frame' = Empty(NextType(w.type, FALSE, protocol))
        /\ expires' = FALSE /\ loop' = "decode"
    BY DEF Release
  <1>4. NextType(w.type, FALSE, protocol) = other
    BY <1>1 DEF NextType
  <1>5. frame' \in Frame /\ frame'.type = other /\ frame'.data = <<>>
    <2>1. frame' = Empty(other) /\ other \in FrameType
      BY <1>3, <1>4 DEF FrameType
    <2> HIDE DEF other
    <2> QED
      BY <2>1 DEF Empty, Frame
  <1>6. N \in 0..N /\ ~ (N < N) /\ sent' = N /\ Len(unit'.data) = N
    BY <1>2
  <1> HIDE DEF N
  <1>7. Types'
    BY <1>5, <1>6 DEF Types, N
  <1>8. FramesAreUnits' /\ WhileDown' /\ WhileMute' /\ WhileAnswering' /\ WhileT0'
    BY <1>2, <1>3 DEF FramesAreUnits, WhileDown, WhileMute, WhileAnswering, WhileT0
  <1>9. WhileTalking'
    BY <1>1, <1>3, <1>5, <1>6 DEF WhileTalking
  <1>10. WhileT1'
    BY <1>1, <1>3, <1>5, <1>6 DEF WhileT1
  <1> QED
    BY <1>7, <1>8, <1>9, <1>10 DEF SessionInv

(* A block is a frame of who sends it, at its epilogue. *)
LEMMA BlockCharacter ==
  ASSUME SessionInv, NEW u, NEW k, Speaking(u, k), stage = "T1", Stands(u, k)
  PROVE  SessionInv'
  <1> DEFINE text == u.data
             data == SubSeq(text, 1, k)
  <1>1. /\ u \in Frame /\ u = [type |-> u.type, data |-> text] /\ text \in Seq(Byte)
        /\ Len(text) \in Nat /\ k \in 1..Len(text) /\ frame \in Frame
        /\ SubSeq(text, 1, Len(text)) = text /\ Append(frame.data, text[k]) = data
        /\ data \in Seq(Byte) /\ Len(data) = k /\ u \in Said("T1")
        /\ tech /\ loop = "decode" /\ mode # "reset" /\ lines = "high"
    BY NextByte
  <1>2. u.type \in {"Request", "Response"} /\ text \in Blocks
    BY <1>1, SaidForms
  <1>3. /\ IsBlock(data) <=> k = Len(text)
        /\ ~IsPPS(data) /\ data[1].is # "ff"
        /\ Len(text) <= MaximumInformationSize + 4
    <2>1. IsWhole(text)
      BY <1>2, SessionAssumption
    <2>2. Len(text) <= MaximumInformationSize + 4
      BY <1>1, <2>1, SizeAssumption DEF IsWhole
    <2> HIDE DEF text
    <2> QED
      BY <1>1, <2>1, <2>2, BlockKnown
  <1>4. /\ protocol = [type |-> 1, change |-> FALSE] /\ frame.type = u.type
    BY <1>1 DEF SessionInv, WhileT1, Speaking
  <1>5. /\ IF IsPPS(data) \/ IsBlock(data) \/ k >= MaximumInformationSize + 4
           THEN Release(frame.type, data)
           ELSE Keep(data, TRUE)
        /\ UNCHANGED <<tech, mode>>
    <2>1. protocol.type = 1
      BY <1>4
    <2>2. DecodeFrameT1(text[k])
      BY <1>1, <2>1 DEF Stands, Character, DecodeNothing, DetectTS, DetectATR, DecodeFrameT0
    <2> HIDE DEF data, text
    <2> QED
      BY <1>1, <2>2 DEF DecodeFrameT1
  <1>6. /\ unit' = u /\ sent' = k /\ again' = FALSE /\ stage' = "T1" /\ UNCHANGED lines
    BY DEF Stands, StageAfter
  <1>7. CASE k = Len(text)
    <2>1. Release(u.type, text) /\ text[1].is # "ff"
      BY <1>1, <1>3, <1>4, <1>5, <1>7
    <2>2. done' = <<u>> /\ sent' = Len(u.data)
      BY <1>6, <1>7 DEF Stands
    <2> QED
      BY <1>1, <1>2, <1>5, <1>6, <2>1, <2>2, Turns
  <1>8. CASE k # Len(text)
    <2>1. k < Len(text)
      BY <1>1, <1>8
    <2>2. Keep(data, TRUE)
      <3>1. ~ (k >= MaximumInformationSize + 4)
        BY <1>1, <1>3, <2>1, SizeAssumption
      <3> QED
        BY <1>3, <1>5, <1>8, <3>1
    <2>3. /\ frame' = [frame EXCEPT !.data = data] /\ expires' = TRUE /\ output' = <<>>
          /\ UNCHANGED <<loop, protocol>> /\ done' = <<>>
      BY <1>8, <2>2 DEF Keep, Stands
    <2>4. frame' \in Frame /\ frame'.data = SubSeq(unit'.data, 1, sent') /\ frame'.type = unit'.type
      BY <1>1, <1>4, <1>6, <2>3 DEF Frame
    <2>5. sent' > 0 /\ sent' < Len(unit'.data) /\ sent' # Len(unit'.data) /\ sent' \in 0..Len(unit'.data)
      BY <1>1, <1>6, <2>1
    <2>6. Types'
      BY <1>1, <1>6, <2>4, <2>5 DEF Types
    <2>7. FramesAreUnits' /\ WhileDown' /\ WhileMute' /\ WhileAnswering' /\ WhileT0'
      BY <1>1, <1>6, <2>3 DEF FramesAreUnits, WhileDown, WhileMute, WhileAnswering, WhileT0
    <2>8. WhileTalking'
      <3>1. unit' \in Said(stage')
        BY <1>1, <1>6
      <3> QED
        BY <1>1, <1>5, <2>3, <2>4, <2>5, <3>1 DEF WhileTalking, Said, Say
    <2>9. WhileT1'
      BY <1>2, <1>4, <1>6, <2>3, <2>4, <2>5 DEF WhileT1
    <2> QED
      BY <2>6, <2>7, <2>8, <2>9 DEF SessionInv
  <1> QED
    BY <1>7, <1>8

(* A character stands or, but in T=1, is repeated. *)
LEMMA PutSends ==
  ASSUME NEW u, NEW k, Put(u, k)
  PROVE  Stands(u, k) \/ (stage # "T1" /\ Fails(u, k))
  <1>1. PICK ok \in {TRUE, stage = "T1"} :
          /\ Character(u.data[k], ok)
          /\ unit' = u
          /\ sent' = IF ok THEN k ELSE k - 1
          /\ again' = ~ok
          /\ IF ok /\ k = Len(u.data) THEN done' = <<u>> /\ stage' = StageAfter(u)
                                      ELSE done' = <<>> /\ UNCHANGED stage
          /\ UNCHANGED lines
    BY DEF Put
  <1>4. \/ ok = TRUE
        \/ stage # "T1" /\ ok = FALSE
    <2>1. ok = TRUE \/ ok = (stage = "T1")
      BY Zenon
    <2>2. CASE stage = "T1"
      BY <2>1, <2>2, Zenon
    <2>3. CASE stage # "T1"
      BY <2>1, <2>3, Zenon
    <2> QED
      BY <2>2, <2>3, Zenon
  <1>2. CASE ok = TRUE
    BY <1>1, <1>2, Zenon DEF Stands
  <1>3. CASE ok = FALSE
    <2>1. stage # "T1"
      BY <1>3, <1>4
    <2>2. /\ Character(u.data[k], FALSE)
          /\ unit' = u /\ sent' = k - 1 /\ again' = TRUE
          /\ done' = <<>> /\ UNCHANGED <<stage, lines>>
      BY <1>1, <1>3, Zenon
    <2> QED
      BY <2>1, <2>2, Zenon DEF Fails
  <1> QED
    BY <1>2, <1>3, <1>4, Zenon

(* Whatever is said, and wherever it stands. *)
LEMMA Puts ==
  ASSUME SessionInv, NEW u, NEW k, Speaking(u, k), Put(u, k)
  PROVE  SessionInv'
  <1>1. CASE stage = "answer"
    BY <1>1, AnswerCharacter
  <1>2. Stands(u, k) \/ (stage # "T1" /\ Fails(u, k))
    BY PutSends
  <1>3. stage \in {"answer", "first", "asked", "T0", "T1"} /\ u \in Said(stage)
    BY DEF SessionInv, Types, Speaking
  <1>4. CASE stage = "T1"
    BY <1>2, <1>4, BlockCharacter
  <1>5. CASE stage \in {"first", "asked", "T0"}
    <2>1. CASE Stands(u, k)
      <3>1. CASE u.type = "Exchange" /\ u.data \in Exchanges /\ stage # "asked"
        BY <1>5, <2>1, <3>1, ExchangeCharacter
      <3>2. CASE stage = "first" /\ u.type = "Request" /\ \E t \in {0, 1} : u.data = PPS(t, TRUE)
        <4>1. PICK t \in {0, 1} : u.data = PPS(t, TRUE)
          BY <3>2
        <4> QED
          BY <2>1, <3>2, <4>1, SelectionCharacter
      <3>3. CASE /\ stage = "asked" /\ u.type = "Response"
                 /\ u.data \in {PPS(0, TRUE), PPS(0, FALSE), PPS(1, TRUE)}
        <4>1. PICK t \in {0, 1}, more \in BOOLEAN : u.data = PPS(t, more) /\ (more \/ t = 0)
          BY <3>3
        <4> QED
          BY <2>1, <3>3, <4>1, SelectionCharacter
      <3> QED
        BY <1>3, <1>5, <3>1, <3>2, <3>3, SaidForms
    <2>2. CASE Fails(u, k)
      BY <1>5, <2>2, Repeats
    <2> QED
      BY <1>2, <2>1, <2>2
  <1> QED
    BY <1>1, <1>3, <1>4, <1>5

(* What is begun may be said, and in T=1 the turn is kept. *)
LEMMA BeginSpeaks ==
  ASSUME SessionInv, ~PlainPPS, ~ImplicitT1, lines = "high", sent = Len(unit.data),
         NEW u \in Units
  PROVE  Speaking(u, 1)
  <1>1. stage \in {"answer", "first", "asked", "T0", "T1"} /\ unit \in Frame
    BY DEF SessionInv, Types
  <1>2. Len(unit.data) \in Nat
    BY <1>1 DEF Frame
  <1>3. ~ (sent < Len(unit.data))
    BY <1>2
  <1>4. CASE stage = "answer"
    <2>1. u \in Said(stage)
      BY <1>4 DEF Units, Said
    <2>2. mode = "sync"
      BY <1>2, <1>3, <1>4 DEF SessionInv, WhileAnswering
    <2>3. 1 \in 1..Len(u.data)
      <3>1. u.data \in Seq(Byte) /\ Len(u.data) >= 2
        BY <2>1, SaidForms
      <3> QED
        BY <3>1
    <2> QED
      BY <1>4, <2>1, <2>2, <2>3 DEF Speaking
  <1>5. CASE stage # "answer"
    <2>1. frame.data = <<>>
      BY <1>3, <1>5 DEF SessionInv, WhileTalking
    <2>2. u \in Said(stage)
      <3>1. CASE stage = "first"
        <4>1. u \in Say("Request", {PPS(t, more) : t \in {0, 1}, more \in {TRUE, ~PlainPPS}})
                \cup Say("Exchange", IF Offer(unit.data) = 0 THEN Exchanges ELSE {})
                \cup Say("Request", IF Offer(unit.data) = 1 /\ ImplicitT1 THEN Blocks ELSE {})
          BY <3>1 DEF Units
        <4>2. ASSUME u \in Say("Request", {PPS(t, more) : t \in {0, 1}, more \in {TRUE, ~PlainPPS}})
              PROVE  u \in Say("Request", {PPS(0, TRUE), PPS(1, TRUE)})
          <5> DEFINE M == {TRUE, ~PlainPPS}
                     S == {PPS(t, more) : t \in {0, 1}, more \in M}
          <5>a. u \in Say("Request", S)
            BY <4>2
          <5> HIDE DEF M, S
          <5>b. u.data \in S /\ u.type = "Request" /\ u = [type |-> u.type, data |-> u.data]
            BY <5>a DEF Say
          <5>1. PICK t \in {0, 1}, more \in M : u.data = PPS(t, more)
            BY <5>b DEF S
          <5>2. more = TRUE
            BY Zenon DEF M
          <5>3. u.data = PPS(t, TRUE)
            BY <5>1, <5>2, Zenon
          <5>4. u.data \in {PPS(0, TRUE), PPS(1, TRUE)}
            BY <5>3
          <5> HIDE DEF S
          <5> QED
            BY <5>4, <5>b DEF Say
        <4>3. Say("Request", IF Offer(unit.data) = 1 /\ ImplicitT1 THEN Blocks ELSE {}) = {}
          BY DEF Say
        <4>4. Say("Exchange", IF Offer(unit.data) = 0 THEN Exchanges ELSE {}) \subseteq Say("Exchange", Exchanges)
          BY DEF Say
        <4>5. u \in Say("Request", {PPS(0, TRUE), PPS(1, TRUE)}) \cup Say("Exchange", Exchanges)
          <5> DEFINE A == Say("Request", {PPS(t, more) : t \in {0, 1}, more \in {TRUE, ~PlainPPS}})
                     B == Say("Exchange", IF Offer(unit.data) = 0 THEN Exchanges ELSE {})
                     C == Say("Request", IF Offer(unit.data) = 1 /\ ImplicitT1 THEN Blocks ELSE {})
                     D == Say("Request", {PPS(0, TRUE), PPS(1, TRUE)})
                     E == Say("Exchange", Exchanges)
          <5>1. u \in A \cup B \cup C /\ C = {} /\ B \subseteq E /\ (u \in A => u \in D)
            BY <4>1, <4>2, <4>3, <4>4
          <5> HIDE DEF A, B, C, D, E
          <5>2. u \in D \cup E
            BY <5>1
          <5> QED
            BY <5>2 DEF D, E
        <4> QED
          BY <3>1, <4>5 DEF Said
      <3>2. CASE stage = "asked"
        <4>1. u \in Say("Response", Replies(unit.data))
          BY <3>2 DEF Units
        <4>2. unit.data \in {PPS(0, TRUE), PPS(1, TRUE)} /\ lines = "high"
          BY <3>2 DEF SessionInv, WhileT0
        <4>3. PICK t \in {0, 1} : unit.data = PPS(t, TRUE)
          BY <4>2
        <4>4. unit.data[2].t = t /\ unit.data[2].more = TRUE
          <5>1. t \in Nat
            OBVIOUS
          <5> QED
            BY <4>3, <5>1, PPSParts
        <4>5. PICK more \in {TRUE, TRUE /\ t = 1} : u.data = PPS(t, more) /\ u.type = "Response"
          BY <4>1, <4>4 DEF Replies, Say
        <4>6. u.data \in {PPS(0, TRUE), PPS(0, FALSE), PPS(1, TRUE)}
          <5>1. CASE t = 1
            <6>1. more = TRUE
              BY <4>5, <5>1, Zenon
            <6> QED
              BY <4>5, <5>1, <6>1, Zenon
          <5>2. CASE t = 0
            <6>1. more = TRUE \/ more = FALSE
              BY <4>5, <5>2, Zenon
            <6> QED
              BY <4>5, <5>2, <6>1, Zenon
          <5> QED
            BY <5>1, <5>2
        <4>7. u \in [type : {"Response"}, data : {PPS(0, TRUE), PPS(0, FALSE), PPS(1, TRUE)}]
          BY <4>1, <4>6 DEF Say
        <4> QED
          BY <3>2, <4>7 DEF Said, Say
      <3>3. CASE stage = "T0"
        BY <3>3 DEF Units, Said
      <3>4. CASE stage = "T1"
        BY <3>4 DEF Units, Said, Say
      <3> QED
        BY <1>1, <1>5, <3>1, <3>2, <3>3, <3>4
    <2>3. u.data \in Seq(Byte) /\ Len(u.data) >= 2
      BY <2>2, SaidForms
    <2>4. 1 \in 1..Len(u.data) /\ SubSeq(u.data, 1, 1 - 1) = <<>>
      BY <2>3
    <2>5. stage = "T1" => frame.type = u.type
      <3> SUFFICES ASSUME stage = "T1" PROVE frame.type = u.type
        OBVIOUS
      <3>1. frame.type = IF unit.type = "Request" THEN "Response" ELSE "Request"
        BY <1>3 DEF SessionInv, WhileT1
      <3>2. u.type = IF unit.type = "Request" THEN "Response" ELSE "Request"
        BY DEF Units, Say
      <3> QED
        BY <3>1, <3>2
    <2> QED
      BY <1>5, <2>1, <2>2, <2>4, <2>5 DEF Speaking
  <1> QED
    BY <1>4, <1>5

(* What is continued is what was begun, with the characters before in the frame. *)
LEMMA ContinueSpeaks ==
  ASSUME SessionInv, lines = "high", sent < Len(unit.data)
  PROVE  Speaking(unit, sent + 1)
  <1> DEFINE N == Len(unit.data)
             k == sent + 1
  <1>1. sent \in 0..N /\ unit.data \in Seq(Byte) /\ N \in Nat
        /\ stage \in {"answer", "first", "asked", "T0", "T1"}
    <2>1. unit \in Frame
      BY DEF SessionInv, Types
    <2>2. unit.data \in Seq(Byte)
      BY <2>1 DEF Frame
    <2> QED
      BY <2>2 DEF SessionInv, Types
  <1>2. k \in 1..N /\ k - 1 = sent /\ (k = 1 <=> sent = 0) /\ (k # 1 <=> sent > 0) /\ sent # N
    BY <1>1
  <1>3. unit \in Said(stage)
    <2>1. CASE stage = "answer"
      BY <2>1 DEF SessionInv, WhileAnswering
    <2>2. CASE stage # "answer"
      BY <2>2 DEF SessionInv, WhileTalking
    <2> QED
      BY <2>1, <2>2
  <1>4. stage = "answer" => IF k = 1 THEN mode = "sync"
                            ELSE mode = "ATR" /\ frame.data = SubSeq(unit.data, 1, k - 1)
    <2> SUFFICES ASSUME stage = "answer"
                 PROVE  IF k = 1 THEN mode = "sync"
                        ELSE mode = "ATR" /\ frame.data = SubSeq(unit.data, 1, k - 1)
      OBVIOUS
    <2>1. /\ sent = 0 => mode = "sync"
          /\ sent > 0 => mode = "ATR" /\ frame.data = SubSeq(unit.data, 1, sent)
      BY DEF SessionInv, WhileAnswering
    <2> HIDE DEF k
    <2> QED
      BY <1>2, <2>1
  <1>5. stage # "answer" => frame.data = SubSeq(unit.data, 1, k - 1)
    <2>1. stage # "answer" => frame.data = SubSeq(unit.data, 1, sent)
      BY DEF SessionInv, WhileTalking
    <2> HIDE DEF k
    <2> QED
      BY <1>2, <2>1
  <1>6. stage = "T1" => frame.type = unit.type
    BY DEF SessionInv, WhileT1
  <1> HIDE DEF k, N
  <1>7. Speaking(unit, k)
    BY <1>2, <1>3, <1>4, <1>5, <1>6 DEF Speaking, N
  <1> QED
    BY <1>7 DEF k

(* While nothing changes for reader and card, what is assumed of the decoder *)
(* may only be left out or hold again.                                       *)
LEMMA Rests ==
  ASSUME SessionInv, Quiet, UNCHANGED <<lines, loop, tech, mode, protocol, frame, expires>>,
         output' = <<>>
  PROVE  SessionInv'
  BY DEF SessionInv, Quiet, Types, FramesAreUnits, WhileDown, WhileMute, WhileAnswering,
         WhileTalking, WhileT0, WhileT1, Said, Say, DefaultProtocol

(* A pause, after which a card that has stopped in its answer is mute, and a *)
(* block of T=1 ends where it broke off.                                     *)
LEMMA Pauses ==
  ASSUME SessionInv, Pause
  PROVE  SessionInv'
  <1>1. /\ lines = "high" /\ ~again /\ Silence
        /\ unit \in Frame /\ unit.data \in Seq(Byte) /\ Len(unit.data) \in Nat
        /\ sent \in 0..Len(unit.data) /\ frame \in Frame
        /\ stage \in {"answer", "first", "asked", "T0", "T1"}
    BY DEF Pause, SessionInv, Types, Frame
  <1>2. sent = Len(unit.data) \/ (sent < Len(unit.data) /\ sent # Len(unit.data))
    BY <1>1
  <1>3. CASE stage \in {"first", "asked", "T0"}
    <2>1. ~expires
      BY <1>1, <1>3 DEF SessionInv, WhileT0
    <2>2. Ignore
      BY <1>1, <2>1 DEF Silence
    <2>3. Quiet /\ UNCHANGED lines
      BY <1>3 DEF Pause
    <2> QED
      BY <2>2, <2>3, Rests DEF Ignore
  <1>4. CASE stage = "answer"
    <2>1. CASE sent = Len(unit.data)
      <3>1. sent = 0
        BY <1>1, <1>4, <2>1 DEF SessionInv, WhileAnswering
      <3>2. ~expires
        BY <1>1, <1>4, <3>1 DEF SessionInv, WhileAnswering
      <3>3. Ignore
        BY <1>1, <3>2 DEF Silence
      <3>4. Quiet /\ UNCHANGED lines
        BY <2>1 DEF Pause
      <3> QED
        BY <3>3, <3>4, Rests DEF Ignore
    <2>2. CASE sent < Len(unit.data) /\ sent # Len(unit.data)
      <3>1. Quiet /\ lines' = "mute"
        BY <1>4, <2>2 DEF Pause
      <3>2. ~tech /\ loop = "detect" /\ mode \in {"sync", "ATR"}
        BY <1>1, <1>4 DEF SessionInv, WhileAnswering
      <3>3. /\ output' = <<>> /\ UNCHANGED <<loop, tech, protocol, frame>>
            /\ mode' # "reset"
        BY <1>1, <3>2 DEF Silence, Ignore
      <3>4. Types'
        BY <1>1, <3>1, <3>3 DEF Types, Quiet
      <3> QED
        BY <3>1, <3>2, <3>3, <3>4 DEF SessionInv, Quiet, FramesAreUnits, WhileDown, WhileMute,
           WhileAnswering, WhileTalking, WhileT0, WhileT1
    <2> QED
      BY <1>2, <2>1, <2>2
  <1>5. CASE stage = "T1"
    <2>1. CASE sent = Len(unit.data)
      <3>1. ~expires
        BY <1>1, <1>5, <2>1 DEF SessionInv, WhileT1
      <3>2. Ignore
        BY <1>1, <3>1 DEF Silence
      <3>3. Quiet /\ UNCHANGED lines
        BY <2>1 DEF Pause
      <3> QED
        BY <3>2, <3>3, Rests DEF Ignore
    <2>2. CASE sent < Len(unit.data) /\ sent # Len(unit.data)
      <3> DEFINE part == SubSeq(unit.data, 1, sent)
                 w == [unit EXCEPT !.data = part]
      <3>1. /\ expires /\ loop = "decode" /\ frame.type = unit.type /\ sent > 0
            /\ frame.data = part /\ unit \in Said("T1")
        BY <1>1, <1>5, <2>2 DEF SessionInv, WhileT1, WhileTalking
      <3>2. /\ unit' = w /\ done' = <<w>> /\ UNCHANGED <<lines, stage, sent, again>>
        BY <1>5, <2>2 DEF Pause
      <3>3. /\ unit.type \in {"Request", "Response"} /\ IsWhole(unit.data)
        <4>1. unit.type \in {"Request", "Response"} /\ unit.data \in Blocks
          BY <3>1 DEF Said, Say
        <4> QED
          BY <4>1, SessionAssumption
      <3>4. part \in Seq(Byte) /\ Len(part) = sent /\ part[1] = unit.data[1] /\ part # <<>>
        <4>1. sent \in 0..Len(unit.data) /\ 1 \in 1..sent
          BY <1>1, <3>1
        <4>2. part \in Seq(Byte) /\ Len(part) = sent /\ \A i \in 1..sent : part[i] = unit.data[i]
          BY <1>1, <4>1, Prefix
        <4> HIDE DEF part
        <4>3. part # <<>>
          BY <3>1, <4>2
        <4> QED
          BY <4>1, <4>2, <4>3
      <3> HIDE DEF part
      <3>5. w \in Frame /\ w.type = unit.type /\ w.data = part
        BY <1>1, <3>4 DEF Frame
      <3> HIDE DEF w
      <3>6. Release(w.type, w.data) /\ UNCHANGED <<tech, mode>>
        BY <1>1, <3>1, <3>4, <3>5 DEF Silence
      <3>7. w.data[1].is # "ff"
        BY <3>3, <3>4, <3>5 DEF IsWhole
      <3>8. ~again' /\ sent' = Len(w.data)
        BY <1>1, <3>2, <3>4, <3>5
      <3>9. w.type \in {"Request", "Response"}
        BY <3>3, <3>5
      <3>10. unit' = w /\ done' = <<w>> /\ UNCHANGED <<tech, mode, stage, lines>>
        BY <3>2, <3>6
      <3> QED
        BY <1>1, <1>5, <3>5, <3>6, <3>7, <3>8, <3>9, <3>10, Turns
    <2> QED
      BY <1>2, <2>1, <2>2
  <1> QED
    BY <1>1, <1>3, <1>4, <1>5

(* A reset ends whatever was being said, for the decoder as well. *)
LEMMA Resets ==
  ASSUME SessionInv, Reset
  PROVE  SessionInv'
  <1>1. /\ lines \in {"high", "mute"} /\ lines' = "low" /\ stage' = "answer"
        /\ unit' = Empty("ATR") /\ sent' = 0 /\ again' = FALSE /\ done' = <<>> /\ GoesLow
    BY DEF Reset
  <1>2. ~ (loop = "detect" /\ mode = "reset")
    <2>1. CASE lines = "mute"
      BY <2>1 DEF SessionInv, WhileMute
    <2>2. CASE lines = "high" /\ stage = "answer"
      <3>1. sent = 0 \/ sent > 0
        <4>1. unit \in Frame /\ sent \in 0..Len(unit.data)
          BY DEF SessionInv, Types
        <4>2. Len(unit.data) \in Nat
          BY <4>1 DEF Frame
        <4> QED
          BY <4>1, <4>2
      <3> QED
        BY <2>2, <3>1 DEF SessionInv, WhileAnswering
    <2>3. CASE lines = "high" /\ stage # "answer"
      BY <2>3 DEF SessionInv, WhileTalking
    <2> QED
      BY <1>1, <2>1, <2>2, <2>3
  <1>3. /\ tech' = FALSE /\ mode' = "reset" /\ protocol' = DefaultProtocol
        /\ frame' = Empty("ATR") /\ expires' = FALSE /\ output' = <<>>
    BY <1>1, <1>2 DEF GoesLow, ResetModulation
  <1>4. Empty("ATR") \in Frame /\ 0 \in 0..Len(Empty("ATR").data) /\ Empty("ATR").data = <<>>
    BY DEF Empty, Frame, FrameType
  <1>5. Types'
    BY <1>1, <1>3, <1>4 DEF Types
  <1> QED
    BY <1>1, <1>3, <1>4, <1>5 DEF SessionInv, FramesAreUnits, WhileDown, WhileMute, WhileAnswering,
       WhileTalking, WhileT0, WhileT1, DefaultProtocol

(* The supply falls: the decoder is or comes back in the loop that waits. *)
LEMMA Deactivates ==
  ASSUME SessionInv, Deactivate
  PROVE  SessionInv'
  <1>1. /\ lines \in {"low", "held"} /\ lines' = "off" /\ Quiet
        /\ Character(Plain("data"), FALSE)
    BY Zenon DEF Deactivate
  <1>2. /\ stage = "answer" /\ unit.data = <<>> /\ sent = 0 /\ ~again
        /\ ~tech /\ mode = "reset" /\ protocol = DefaultProtocol /\ ~expires
    BY <1>1 DEF SessionInv, WhileDown
  <1>3. (loop = "detect" /\ Ignore) \/ DecodeNothing
    BY <1>1, <1>2 DEF Character, DropCharacter
  <1>4. /\ loop' = "detect" /\ mode' = "reset" /\ ~expires' /\ output' = <<>>
        /\ UNCHANGED <<tech, protocol>> /\ frame' \in {frame, Empty("Exchange")}
    BY <1>2, <1>3 DEF Ignore, DecodeNothing
  <1>5. Empty("Exchange") \in Frame
    BY DEF Empty, Frame, FrameType
  <1>6. Types'
    BY <1>1, <1>4, <1>5 DEF SessionInv, Types, Quiet
  <1> QED
    BY <1>1, <1>2, <1>4, <1>6 DEF SessionInv, Quiet, FramesAreUnits, WhileDown, WhileMute,
       WhileAnswering, WhileTalking, WhileT0, WhileT1, DefaultProtocol

(* RST rises: the decoder waits for the answer. *)
LEMMA Rises ==
  ASSUME SessionInv, ~WarmResets, Rise
  PROVE  SessionInv'
  <1>1. /\ lines \in {"off", "held"} /\ lines' = "high" /\ Quiet /\ GoesHigh
    <2>1. IF lines = "low" THEN WarmResets ELSE lines \in {"off", "held"}
      BY DEF Rise
    <2>2. lines \in {"off", "held"}
      BY <2>1, Zenon
    <2> QED
      BY <2>2 DEF Rise
  <1>2. /\ stage = "answer" /\ unit.data = <<>> /\ sent = 0 /\ ~again /\ loop = "detect"
        /\ ~tech /\ mode = "reset" /\ protocol = DefaultProtocol /\ ~expires
    BY <1>1 DEF SessionInv, WhileDown
  <1>3. /\ mode' = "sync" /\ output' = <<>> /\ UNCHANGED <<loop, tech, protocol, frame, expires>>
    BY <1>1, <1>2 DEF GoesHigh
  <1>4. Types'
    BY <1>1, <1>3 DEF SessionInv, Types, Quiet
  <1> QED
    <2>1. WhileAnswering'
      <3>1. unit'.data = <<>> /\ sent' = 0 /\ ~ (sent' > 0)
        BY <1>1, <1>2 DEF Quiet
      <3>2. ~ (sent' < Len(unit'.data))
        BY <3>1
      <3> QED
        BY <1>1, <1>2, <1>3, <3>1, <3>2 DEF WhileAnswering, Quiet, DefaultProtocol
    <2>2. /\ FramesAreUnits' /\ WhileDown' /\ WhileMute' /\ WhileTalking' /\ WhileT0' /\ WhileT1'
      BY <1>1, <1>2, <1>3 DEF Quiet, FramesAreUnits, WhileDown, WhileMute, WhileTalking,
         WhileT0, WhileT1
    <2> QED
      BY <1>4, <2>1, <2>2 DEF SessionInv

(* The end of a buffer chooses the loop that runs already, or that waits. *)
LEMMA Cuts ==
  ASSUME SessionInv, Cut
  PROVE  SessionInv'
  <1>1. /\ BufferEnds /\ Quiet /\ lines' = IF lines = "low" THEN "held" ELSE lines
    BY DEF Cut
  <1>2. /\ loop' = IF tech THEN "decode" ELSE "detect"
        /\ output' = <<>> /\ UNCHANGED <<tech, mode, protocol, frame, expires>>
    BY <1>1 DEF BufferEnds
  <1>3. lines \in {"off", "low", "held", "high", "mute"}
        /\ stage \in {"answer", "first", "asked", "T0", "T1"}
    BY DEF SessionInv, Types
  <1>4. CASE lines \in {"off", "low", "held"}
    <2>1. /\ lines' \in {"off", "held"} /\ ~tech /\ loop' = "detect"
      BY <1>1, <1>2, <1>4 DEF SessionInv, WhileDown
    <2>2. Types'
      BY <1>1, <1>2, <2>1 DEF SessionInv, Types, Quiet
    <2> QED
      BY <1>1, <1>2, <1>4, <2>1, <2>2 DEF SessionInv, Quiet, FramesAreUnits, WhileDown, WhileMute,
         WhileAnswering, WhileTalking, WhileT0, WhileT1, DefaultProtocol
  <1>5. CASE lines = "high" /\ stage # "answer"
    <2>1. UNCHANGED <<lines, loop>>
      BY <1>1, <1>2, <1>5 DEF SessionInv, WhileTalking
    <2> QED
      BY <1>1, <1>2, <2>1, Rests
  <1>6. CASE lines = "mute" \/ (lines = "high" /\ stage = "answer")
    <2>1. UNCHANGED <<lines, loop>>
      BY <1>1, <1>2, <1>6 DEF SessionInv, WhileAnswering, WhileMute
    <2> QED
      BY <1>1, <1>2, <2>1, Rests
  <1> QED
    BY <1>3, <1>4, <1>5, <1>6

(* The decoder follows reader and card from the start, ... *)
LEMMA SessionBegins ==
  ASSUME Init
  PROVE  SessionInv
  <1>1. Empty("ATR") \in Frame /\ 0 \in 0..Len(Empty("ATR").data) /\ Empty("ATR").data = <<>>
    BY DEF Empty, Frame, FrameType
  <1>2. Types
    BY <1>1 DEF Init, DecoderInit, Types
  <1> QED
    BY <1>1, <1>2 DEF Init, DecoderInit, SessionInv, FramesAreUnits, WhileDown, WhileMute,
       WhileAnswering, WhileTalking, WhileT0, WhileT1

(* ... and with every step. *)
LEMMA SessionGoesOn ==
  ASSUME ~WarmResets, ~PlainPPS, ~ImplicitT1, SessionInv, [Next]_vars
  PROVE  SessionInv'
  <1>1. CASE Begin
    <2>1. PICK u \in Units : lines = "high" /\ sent = Len(unit.data) /\ Put(u, 1)
      BY <1>1 DEF Begin
    <2>2. Speaking(u, 1)
      BY <2>1, BeginSpeaks
    <2> QED
      BY <2>1, <2>2, Puts
  <1>2. CASE Continue
    <2>1. lines = "high" /\ sent < Len(unit.data) /\ Put(unit, sent + 1)
      BY <1>2 DEF Continue
    <2>2. Speaking(unit, sent + 1)
      BY <2>1, ContinueSpeaks
    <2> DEFINE u == unit
               k == sent + 1
    <2>3. Speaking(u, k) /\ Put(u, k)
      BY <2>1, <2>2
    <2> HIDE DEF u, k
    <2> QED
      BY <2>3, Puts
  <1>3. CASE Pause
    BY <1>3, Pauses
  <1>4. CASE Reset
    BY <1>4, Resets
  <1>5. CASE Deactivate
    BY <1>5, Deactivates
  <1>6. CASE Rise
    BY <1>6, Rises
  <1>7. CASE Cut
    BY <1>7, Cuts
  <1>8. CASE UNCHANGED vars
    BY <1>8 DEF vars, decoderVars, sessionVars, SessionInv, Types, FramesAreUnits, WhileDown,
       WhileMute, WhileAnswering, WhileTalking, WhileT0, WhileT1, Said, Say, DefaultProtocol
  <1> QED
    BY <1>1, <1>2, <1>3, <1>4, <1>5, <1>6, <1>7, <1>8 DEF Next

(* Every answer, selection, exchange and block is one frame of the list, with  *)
(* its type and all of its bytes, at its last character, and there is no       *)
(* other frame: whatever the texts are, as long as they are well-formed, and   *)
(* wherever resets, repeated characters, breaks and ends of buffers fall.      *)
THEOREM FramesTrue ==
  ASSUME ~WarmResets, ~PlainPPS, ~ImplicitT1
  PROVE  Spec => []FramesAreUnits
  <1>1. Init => SessionInv
    BY SessionBegins
  <1>2. SessionInv /\ [Next]_vars => SessionInv'
    BY SessionGoesOn
  <1>3. SessionInv => FramesAreUnits
    BY DEF SessionInv
  <1> QED
    BY <1>1, <1>2, <1>3, PTL DEF Spec

(* When RST has risen on a card the decoder waits for the first character of *)
(* the answer, whatever was said or cut short before.                        *)
THEOREM ResetHeard ==
  ASSUME ~WarmResets, ~PlainPPS, ~ImplicitT1
  PROVE  Spec => []ResetIsHeard
  <1>1. Init => SessionInv
    BY SessionBegins
  <1>2. SessionInv /\ [Next]_vars => SessionInv'
    BY SessionGoesOn
  <1>3. SessionInv => ResetIsHeard
    BY DEF SessionInv, WhileAnswering, ResetIsHeard
  <1> QED
    BY <1>1, <1>2, <1>3, PTL DEF Spec
=============================================================================
