-------------------------- MODULE TraceCaptureProofs --------------------------
(***************************************************************************)
(* A capture of any length, with any number of samples in a block, entries *)
(* in a chunk and commands of the user.                                    *)
(*                                                                         *)
(* Among the threads of a capture the resampling task behaves as it does   *)
(* alone, so what is proved of it holds of the whole.  What is said of the *)
(* trace storage needs more: CaptureInv relates the cache, the save or the *)
(* load at work, the file and the plot, and that every step keeps it       *)
(* rests on                                                                *)
(*   Ahead    the user's range is of signal the storage was told long ago, *)
(*            so what is cached during a save lies beyond it,              *)
(*   Chain    the cache is one sequence of near points, whatever buffers   *)
(*            and chunks it was made of, and what comes next is near it,   *)
(*   Saving, Coded   how much of its range a save has counted and written, *)
(*   Loading  how much of its file a load has cached,                      *)
(*   Covered  that what is cached is in the plot or on its way to it.      *)
(* A range selected by the row of a frame may reach beyond the signal that *)
(* is cached: with SelectFrames Ahead fails and HeaderCountsBody with it,  *)
(* so what depends on it is proved without.                                *)
(***************************************************************************)
EXTENDS TraceCapture, SignalResamplingProofs, SequenceTheorems, WellFoundedInduction
(* No other thread writes what the resampling task works on. *)
LEMMA StepResamples == [Next]_vars => [ResamplerNext]_resamplerVars
  <1> SUFFICES ASSUME [Next]_vars PROVE [ResamplerNext]_resamplerVars
    OBVIOUS
  <1>1. CASE Produce \/ Stop \/ DecodeFrame
    BY <1>1 DEF Produce, Stop, DecodeFrame
  <1>2. CASE TakeBuffer
    BY <1>2 DEF TakeBuffer, ResamplerNext
  <1>3. CASE ScanBuffer
    BY <1>3 DEF ScanBuffer, ResamplerNext
  <1>4. CASE CacheSignal \/ PostSignal
    BY <1>4 DEF CacheSignal, PostSignal, ResamplerNext
  <1>5. CASE StorageThread \/ LoadChunk
    BY <1>5 DEF StorageThread, LoadChunk
  <1>6. CASE GuiThread \/ User \/ Open
    BY <1>6 DEF GuiThread, User, Open
  <1>7. CASE UNCHANGED vars
    BY <1>7 DEF vars
  <1> QED
    BY <1>1, <1>2, <1>3, <1>4, <1>5, <1>6, <1>7 DEF Next

(* A capture implements the resampling task: the storage, the window and the  *)
(* user only see its buffers.                                                 *)
THEOREM CaptureResamples == Spec => ResamplerSpec
  <1>1. Init => ResamplerInit
    BY DEF Init
  <1> QED
    BY <1>1, StepResamples, PTL DEF Spec, ResamplerSpec

(* Whatever saves, clears and loads run beside it, the distances of a         *)
(* resampled buffer fit the byte of the trace file.                           *)
THEOREM CaptureDistancesFit == Spec => []GapsFitByte
  BY CaptureResamples, DistancesFit, PTL

(* Whatever saves, clears and loads run beside it, no edge is lost.           *)
THEOREM CaptureNoEdgeLost == Spec => []EdgesKept
  BY CaptureResamples, NoEdgeLost, PTL

(* Whatever saves, clears and loads run beside it, no buffer is overrun.      *)
THEOREM CaptureRoomSuffices == Spec => []PointsFitBuffer
  BY CaptureResamples, RoomSuffices, PTL

-----------------------------------------------------------------------------
(***************************************************************************)
(* Induction over data.  The theorems of the library that take a predicate *)
(* are of no use to the provers; that the naturals are well-founded is a   *)
(* fact about sets, and does as well.                                      *)
(***************************************************************************)

(* A set of naturals has a smallest one. *)
LEMMA Smallest ==
  ASSUME NEW T, T \subseteq Nat, T # {}
  PROVE  \E n \in T : \A m \in T : n <= m
  <1> DEFINE Less == {pair \in Nat \X Nat : pair[1] < pair[2]}
  <1>1. IsWellFoundedOn(Less, Nat)
    BY NatLessThanWellFounded DEF OpToRel
  <1>2. \A m, n \in Nat : <<m, n>> \in Less <=> m < n
    OBVIOUS
  <1> HIDE DEF Less
  <1>3. \E n \in T : \A m \in T : ~ (<<m, n>> \in Less)
    BY <1>1, WFMin, Zenon
  <1>4. PICK n \in T : \A m \in T : ~ (<<m, n>> \in Less)
    BY <1>3
  <1>5. \A m \in T : ~ (m < n)
    BY <1>2, <1>4
  <1>6. \A m \in T : n <= m
    BY <1>5
  <1> QED
    BY <1>6

(* What holds of 0, and of a number's successor with it, holds up to N. *)
LEMMA UpTo ==
  ASSUME NEW N \in Nat, NEW T, 0 \in T, \A n \in 1..N : n - 1 \in T => n \in T
  PROVE  0..N \subseteq T
  <1> DEFINE Others == (0..N) \ T
  <1> SUFFICES ASSUME Others # {} PROVE FALSE
    OBVIOUS
  <1>1. Others \subseteq Nat
    OBVIOUS
  <1>2. PICK n \in Others : \A m \in Others : n <= m
    BY <1>1, Smallest
  <1>3. n \in 1..N /\ n - 1 \in 0..N
    BY <1>2
  <1>4. n - 1 \notin Others
    BY <1>2, <1>3
  <1> QED
    BY <1>2, <1>3, <1>4

(* step[n] makes a value of S of one, and f is built up by it from base *)
StaysIn(S, step, N) == \A n \in 1..N, t \in S : step[n][t] \in S
BuiltUp(f, base, step, N) == f[0] = base /\ \A n \in 1..N : f[n] = step[n][f[n - 1]]

(* A function that is built up step by step exists. *)
LEMMA Recursion ==
  ASSUME NEW N \in Nat, NEW S, NEW base \in S, NEW step, StaysIn(S, step, N)
  PROVE  \E f \in [0..N -> S] : BuiltUp(f, base, step, N)
  <1> DEFINE Builds(f, k) == f[0] = base /\ \A n \in 1..k : f[n] = step[n][f[n - 1]]
             T == {k \in 0..N : \E f \in [0..N -> S] : Builds(f, k)}
  <1>0. \A n \in 1..N, t \in S : step[n][t] \in S
    BY DEF StaysIn
  <1>1. 0 \in T
    <2>1. [n \in 0..N |-> base] \in [0..N -> S] /\ [n \in 0..N |-> base][0] = base
      OBVIOUS
    <2>2. Builds([n \in 0..N |-> base], 0)
      BY <2>1
    <2> HIDE DEF Builds
    <2> QED
      BY <2>1, <2>2
  <1>2. ASSUME NEW k \in 1..N, k - 1 \in T PROVE k \in T
    <2>1. PICK f \in [0..N -> S] : Builds(f, k - 1)
      BY <1>2
    <2> DEFINE g == [f EXCEPT ![k] = step[k][f[k - 1]]]
    <2>2. k - 1 \in 0..N /\ f[k - 1] \in S /\ step[k][f[k - 1]] \in S
      BY <1>0
    <2>3. g \in [0..N -> S] /\ g[k] = step[k][f[k - 1]] /\ \A n \in 0..N : n # k => g[n] = f[n]
      BY <2>2
    <2> HIDE DEF g
    <2>4. g[0] = base
      BY <2>1, <2>3
    <2>5. ASSUME NEW n \in 1..k PROVE g[n] = step[n][g[n - 1]]
      <3>1. n - 1 \in 0..N /\ n - 1 # k /\ n \in 0..N
        OBVIOUS
      <3>2. CASE n = k
        BY <2>3, <3>1, <3>2
      <3>3. CASE n # k
        <4>1. n \in 1..k - 1
          BY <3>3
        <4>2. f[n] = step[n][f[n - 1]]
          BY <2>1, <4>1
        <4> QED
          BY <2>3, <3>1, <3>3, <4>2
      <3> QED
        BY <3>2, <3>3
    <2>6. Builds(g, k)
      BY <2>4, <2>5
    <2> HIDE DEF Builds
    <2> QED
      BY <2>3, <2>6
  <1> HIDE DEF T
  <1>3. \A k \in 1..N : k - 1 \in T => k \in T
    BY <1>2
  <1>4. N \in T
    BY <1>1, <1>3, UpTo
  <1> QED
    BY <1>4 DEF T, BuiltUp

(* ... and is the only one. *)
LEMMA SameSteps ==
  ASSUME NEW N \in Nat, NEW f, NEW g, f[0] = g[0],
         \A n \in 1..N : f[n - 1] = g[n - 1] => f[n] = g[n]
  PROVE  f[N] = g[N]
  <1> DEFINE T == {n \in 0..N : f[n] = g[n]}
  <1>1. 0 \in T /\ \A n \in 1..N : n - 1 \in T => n \in T
    OBVIOUS
  <1> HIDE DEF T
  <1>2. N \in T
    BY <1>1, UpTo
  <1> QED
    BY <1>2 DEF T

(* f[n] joins the first n parts of s *)
Joins(f, s) == f[0] = <<>> /\ \A n \in 1..Len(s) : f[n] = f[n - 1] \o s[n]

(* A flattened sequence is built up part by part, ... *)
LEMMA Flattened ==
  ASSUME NEW S, NEW s \in Seq(Seq(S))
  PROVE  \E f \in [0..Len(s) -> Seq(S)] : Joins(f, s) /\ FlattenSeq(s) = f[Len(s)]
  <1> DEFINE N == Len(s)
             step == [n \in 1..N |-> [t \in Seq(S) |-> t \o s[n]]]
  <1>1. N \in Nat /\ <<>> \in Seq(S) /\ \A n \in 1..N : s[n] \in Seq(S)
    OBVIOUS
  <1>2. \A n \in 1..N, t \in Seq(S) : step[n][t] = t \o s[n]
    OBVIOUS
  <1>3. StaysIn(Seq(S), step, N)
    <2> SUFFICES ASSUME NEW n \in 1..N, NEW t \in Seq(S) PROVE step[n][t] \in Seq(S)
      BY DEF StaysIn
    <2> QED
      BY <1>1, <1>2
  <1> HIDE DEF step
  <1>a. PICK f \in [0..N -> Seq(S)] : BuiltUp(f, <<>>, step, N)
    BY <1>1, <1>3, Recursion
  <1>4. f[0] = <<>> /\ \A n \in 1..N : f[n] = step[n][f[n - 1]]
    BY <1>a DEF BuiltUp
  <1>5. ASSUME NEW n \in 1..N PROVE n - 1 \in 0..N /\ f[n - 1] \in Seq(S)
    <2>1. n - 1 \in 0..N
      BY <1>1
    <2> QED
      BY <2>1
  <1>6. \A n \in 1..N : f[n] = f[n - 1] \o s[n]
    BY <1>2, <1>4, <1>5
  <1>b. Joins(f, s)
    BY <1>4, <1>6 DEF Joins
  <1>7. CASE N = 0
    <2>1. FlattenSeq(s) = s
      BY <1>7, Zenon DEF FlattenSeq
    <2>2. s = <<>>
      BY <1>7
    <2> QED
      BY <1>4, <1>b, <1>7, <2>1, <2>2
  <1>8. CASE N # 0
    <2> DEFINE Flat(h) == [i \in 1..Len(s) |-> IF i = 1 THEN s[i] ELSE h[i - 1] \o s[i]]
               flat == CHOOSE h : h = Flat(h)
               g == [i \in 1..N |-> f[i]]
    <2>1. FlattenSeq(s) = flat[Len(s)]
      BY <1>8, Zenon DEF FlattenSeq
    <2>2. f[1] = s[1]
      <3>1. 1 \in 1..N /\ 1 - 1 = 0
        BY <1>1, <1>8
      <3>2. f[1] = f[0] \o s[1]
        BY <1>6, <3>1
      <3> QED
        BY <1>1, <1>4, <3>1, <3>2
    <2>3. g = Flat(g)
      <3> SUFFICES ASSUME NEW i \in 1..N PROVE f[i] = IF i = 1 THEN s[i] ELSE g[i - 1] \o s[i]
        OBVIOUS
      <3>1. i # 1 => i - 1 \in 1..N
        OBVIOUS
      <3> QED
        BY <1>6, <2>2, <3>1
    <2>4. flat = Flat(flat)
      BY <2>3, Zenon
    <2> HIDE DEF flat
    <2> DEFINE T == {n \in 0..N : n # 0 => flat[n] = f[n]}
    <2>5. \A n \in 1..N : flat[n] = IF n = 1 THEN s[n] ELSE flat[n - 1] \o s[n]
      BY <2>4
    <2>6. 0 \in T
      BY <1>1
    <2>7. ASSUME NEW n \in 1..N, n - 1 \in T PROVE n \in T
      <3>1. n # 1 => flat[n - 1] = f[n - 1]
        BY <2>7
      <3>2. flat[n] = f[n]
        BY <1>6, <2>2, <2>5, <3>1
      <3> QED
        BY <3>2
    <2> HIDE DEF T
    <2>8. \A n \in 1..N : n - 1 \in T => n \in T
      BY <2>7
    <2>9. 0..N \subseteq T
      BY <1>1, <2>6, <2>8, UpTo, Zenon
    <2>10. N \in T
      BY <1>1, <2>9
    <2> QED
      BY <1>b, <1>8, <2>1, <2>10 DEF T
  <1> QED
    BY <1>7, <1>8

(* ... is a sequence of their elements, ... *)
LEMMA Flattens ==
  ASSUME NEW S, NEW s \in Seq(Seq(S))
  PROVE  FlattenSeq(s) \in Seq(S)
  <1>1. PICK f \in [0..Len(s) -> Seq(S)] : Joins(f, s) /\ FlattenSeq(s) = f[Len(s)]
    BY Flattened
  <1>2. Len(s) \in 0..Len(s)
    OBVIOUS
  <1> QED
    BY <1>1, <1>2

(* ... and so one more part adds its elements. *)
LEMMA FlattenAppend ==
  ASSUME NEW S, NEW s \in Seq(Seq(S)), NEW e \in Seq(S)
  PROVE  FlattenSeq(Append(s, e)) = FlattenSeq(s) \o e
  <1> DEFINE more == Append(s, e)
  <1>1. /\ Len(s) \in Nat /\ more \in Seq(Seq(S)) /\ Len(more) = Len(s) + 1
        /\ more[Len(s) + 1] = e /\ \A n \in 1..Len(s) : more[n] = s[n]
    OBVIOUS
  <1> HIDE DEF more
  <1>a. PICK f \in [0..Len(s) -> Seq(S)] : Joins(f, s) /\ FlattenSeq(s) = f[Len(s)]
    BY Flattened
  <1>b. PICK g \in [0..Len(more) -> Seq(S)] : Joins(g, more) /\ FlattenSeq(more) = g[Len(more)]
    BY <1>1, Flattened
  <1>2. f[0] = <<>> /\ \A n \in 1..Len(s) : f[n] = f[n - 1] \o s[n]
    BY <1>a DEF Joins
  <1>3. g[0] = <<>> /\ \A n \in 1..Len(more) : g[n] = g[n - 1] \o more[n]
    BY <1>b DEF Joins
  <1>4. \A n \in 1..Len(s) : n \in 1..Len(more)
    BY <1>1
  <1>5. g[0] = f[0] /\ \A n \in 1..Len(s) : g[n - 1] = f[n - 1] => g[n] = f[n]
    BY <1>1, <1>2, <1>3, <1>4
  <1>6. g[Len(s)] = f[Len(s)]
    BY <1>1, <1>5, SameSteps
  <1>7. Len(s) + 1 \in 1..Len(more) /\ Len(s) + 1 - 1 = Len(s)
    BY <1>1
  <1>8. g[Len(s) + 1] = g[Len(s)] \o e
    <2> DEFINE last == Len(s) + 1
    <2>1. last \in 1..Len(more) /\ last - 1 = Len(s) /\ more[last] = e
      BY <1>1, <1>7
    <2> HIDE DEF last
    <2>2. g[last] = g[last - 1] \o more[last]
      BY <1>3, <2>1
    <2>3. g[last] = g[Len(s)] \o e
      BY <2>1, <2>2
    <2> QED
      BY <2>3 DEF last
  <1> QED
    BY <1>1, <1>a, <1>b, <1>6, <1>8 DEF more

(* f[n] holds the points of the range among the first n *)
Picks(f, points, start, end) ==
  /\ f[0] = <<>>
  /\ \A n \in 1..Len(points) :
       f[n] = IF start <= points[n].at /\ points[n].at <= end
              THEN Append(f[n - 1], points[n]) ELSE f[n - 1]

(* The points of a range are found point by point, ... *)
LEMMA Selected ==
  ASSUME NEW P, NEW points \in Seq(P), NEW start, NEW end
  PROVE  \E f \in [0..Len(points) -> Seq(P)] :
           Picks(f, points, start, end) /\ Within(points, start, end) = f[Len(points)]
  <1> DEFINE N == Len(points)
             Taken(n) == start <= points[n].at /\ points[n].at <= end
             step == [n \in 1..N |-> [t \in Seq(P) |-> IF Taken(n) THEN Append(t, points[n]) ELSE t]]
  <1>1. N \in Nat /\ <<>> \in Seq(P) /\ \A n \in 1..N : points[n] \in P
    OBVIOUS
  <1>2. \A n \in 1..N, t \in Seq(P) : step[n][t] = IF Taken(n) THEN Append(t, points[n]) ELSE t
    OBVIOUS
  <1>3. StaysIn(Seq(P), step, N)
    <2> SUFFICES ASSUME NEW n \in 1..N, NEW t \in Seq(P) PROVE step[n][t] \in Seq(P)
      BY DEF StaysIn
    <2> QED
      BY <1>1, <1>2
  <1> HIDE DEF step
  <1>a. PICK f \in [0..N -> Seq(P)] : BuiltUp(f, <<>>, step, N)
    BY <1>1, <1>3, Recursion
  <1>4. f[0] = <<>> /\ \A n \in 1..N : f[n] = step[n][f[n - 1]]
    BY <1>a DEF BuiltUp
  <1>5. \A n \in 1..N : n - 1 \in 0..N /\ f[n - 1] \in Seq(P)
    OBVIOUS
  <1>6. \A n \in 1..N : f[n] = IF Taken(n) THEN Append(f[n - 1], points[n]) ELSE f[n - 1]
    BY <1>2, <1>4, <1>5
  <1> DEFINE Keep(h) == [n \in 0..Len(points) |->
                           IF n = 0 THEN <<>>
                           ELSE IF start <= points[n].at /\ points[n].at <= end
                                THEN Append(h[n - 1], points[n]) ELSE h[n - 1]]
             kept == CHOOSE h : h = Keep(h)
  <1>7. Within(points, start, end) = kept[Len(points)]
    BY Zenon DEF Within
  <1>8. f = Keep(f)
    <2> SUFFICES ASSUME NEW n \in 0..N
                 PROVE  f[n] = IF n = 0 THEN <<>>
                               ELSE IF Taken(n) THEN Append(f[n - 1], points[n]) ELSE f[n - 1]
      OBVIOUS
    <2>1. n # 0 => n \in 1..N
      BY <1>1
    <2> QED
      BY <1>4, <1>6, <2>1
  <1>9. kept = Keep(kept)
    BY <1>8, Zenon
  <1> HIDE DEF kept
  <1>10. /\ kept[0] = <<>>
         /\ \A n \in 1..N : kept[n] = IF Taken(n) THEN Append(kept[n - 1], points[n]) ELSE kept[n - 1]
    <2>1. 0 \in 0..N /\ \A n \in 1..N : n \in 0..N /\ n # 0
      BY <1>1
    <2>2. ASSUME NEW n \in 0..N
          PROVE  kept[n] = IF n = 0 THEN <<>>
                           ELSE IF Taken(n) THEN Append(kept[n - 1], points[n]) ELSE kept[n - 1]
      BY <1>9, Zenon
    <2> QED
      BY <2>1, <2>2
  <1>11. kept[0] = f[0] /\ \A n \in 1..N : kept[n - 1] = f[n - 1] => kept[n] = f[n]
    BY <1>4, <1>6, <1>10
  <1>12. kept[N] = f[N]
    BY <1>1, <1>11, SameSteps
  <1>13. Picks(f, points, start, end)
    BY <1>4, <1>6 DEF Picks
  <1> QED
    BY <1>7, <1>12, <1>13

(* ... of no points there are none, ... *)
LEMMA WithinNothing ==
  ASSUME NEW start, NEW end
  PROVE  Within(<<>>, start, end) = <<>>
  <1> DEFINE none == <<>>
             P == {none}
  <1>0. none \in Seq(P)
    OBVIOUS
  <1>1. Len(none) = 0
    OBVIOUS
  <1> HIDE DEF none, P
  <1>2. PICK f \in [0..Len(none) -> Seq(P)] :
           Picks(f, none, start, end) /\ Within(none, start, end) = f[Len(none)]
    BY <1>0, Selected
  <1>3. f[0] = <<>>
    BY <1>2 DEF Picks
  <1>4. Within(none, start, end) = <<>>
    BY <1>1, <1>2, <1>3
  <1> QED
    BY <1>4 DEF none

(* ... those chosen are some of the points, ... *)
LEMMA WithinIn ==
  ASSUME NEW P, NEW points \in Seq(P), NEW start, NEW end
  PROVE  Within(points, start, end) \in Seq(P)
  <1>1. PICK f \in [0..Len(points) -> Seq(P)] :
           Picks(f, points, start, end) /\ Within(points, start, end) = f[Len(points)]
    BY Selected
  <1>2. Len(points) \in 0..Len(points)
    OBVIOUS
  <1> QED
    BY <1>1, <1>2

(* ... and one more is taken if it is in the range. *)
LEMMA WithinAppend ==
  ASSUME NEW P, NEW points \in Seq(P), NEW e \in P, NEW start, NEW end
  PROVE  Within(Append(points, e), start, end) =
           IF start <= e.at /\ e.at <= end THEN Append(Within(points, start, end), e)
           ELSE Within(points, start, end)
  <1> DEFINE more == Append(points, e)
             Taken(q, n) == start <= q[n].at /\ q[n].at <= end
  <1>1. /\ Len(points) \in Nat /\ more \in Seq(P) /\ Len(more) = Len(points) + 1
        /\ more[Len(points) + 1] = e /\ \A n \in 1..Len(points) : more[n] = points[n]
    OBVIOUS
  <1> HIDE DEF more
  <1>a. PICK f \in [0..Len(points) -> Seq(P)] :
           Picks(f, points, start, end) /\ Within(points, start, end) = f[Len(points)]
    BY Selected
  <1>b. PICK g \in [0..Len(more) -> Seq(P)] :
           Picks(g, more, start, end) /\ Within(more, start, end) = g[Len(more)]
    BY <1>1, Selected
  <1>2. /\ f[0] = <<>>
        /\ \A n \in 1..Len(points) :
             f[n] = IF Taken(points, n) THEN Append(f[n - 1], points[n]) ELSE f[n - 1]
    BY <1>a DEF Picks
  <1>3. /\ g[0] = <<>>
        /\ \A n \in 1..Len(more) :
             g[n] = IF Taken(more, n) THEN Append(g[n - 1], more[n]) ELSE g[n - 1]
    BY <1>b DEF Picks
  <1>4. \A n \in 1..Len(points) : n \in 1..Len(more)
    BY <1>1
  <1>5. g[0] = f[0] /\ \A n \in 1..Len(points) : g[n - 1] = f[n - 1] => g[n] = f[n]
    BY <1>1, <1>2, <1>3, <1>4
  <1>6. g[Len(points)] = f[Len(points)]
    BY <1>1, <1>5, SameSteps
  <1>7. Len(points) + 1 \in 1..Len(more) /\ Len(points) + 1 - 1 = Len(points)
    BY <1>1
  <1>8. g[Len(points) + 1] = IF start <= e.at /\ e.at <= end THEN Append(g[Len(points)], e)
                             ELSE g[Len(points)]
    BY <1>1, <1>3, <1>7
  <1> QED
    BY <1>1, <1>a, <1>b, <1>6, <1>8 DEF more

(* The first N entries hold a number in this field. *)
Numbers(entries, N, field) == \A k \in 1..N : entries[k][field] \in Int

(* A sum grows entry by entry. *)
LEMMA SumStep ==
  ASSUME NEW entries, NEW field, NEW N \in Nat, Numbers(entries, N, field)
  PROVE  /\ SumOf(entries, 0, field) = 0
         /\ \A n \in 0..N : SumOf(entries, n, field) \in Int
         /\ \A n \in 1..N : SumOf(entries, n, field) = SumOf(entries, n - 1, field) + entries[n][field]
  <1> DEFINE step == [n \in 1..N |-> [t \in Int |-> t + entries[n][field]]]
  <1>2. \A n \in 1..N, t \in Int : step[n][t] = t + entries[n][field]
    OBVIOUS
  <1>3. 0 \in Int /\ StaysIn(Int, step, N)
    BY <1>2 DEF StaysIn, Numbers
  <1> HIDE DEF step
  <1>a. PICK f \in [0..N -> Int] : BuiltUp(f, 0, step, N)
    BY <1>3, Recursion
  <1>4. f[0] = 0 /\ \A n \in 1..N : f[n] = step[n][f[n - 1]]
    BY <1>a DEF BuiltUp
  <1>5. \A n \in 1..N : n - 1 \in 0..N /\ f[n - 1] \in Int
    OBVIOUS
  <1>6. \A n \in 1..N : f[n] = f[n - 1] + entries[n][field]
    BY <1>2, <1>4, <1>5
  <1>7. ASSUME NEW n \in 0..N PROVE SumOf(entries, n, field) = f[n]
    <2> DEFINE Add(h) == [k \in 0..n |-> IF k = 0 THEN 0 ELSE h[k - 1] + entries[k][field]]
               sum == CHOOSE h : h = Add(h)
               g == [k \in 0..n |-> f[k]]
    <2>1. SumOf(entries, n, field) = sum[n]
      BY Zenon DEF SumOf
    <2>2. g = Add(g)
      <3> SUFFICES ASSUME NEW k \in 0..n
                   PROVE  f[k] = IF k = 0 THEN 0 ELSE g[k - 1] + entries[k][field]
        OBVIOUS
      <3>1. k # 0 => k - 1 \in 0..n /\ k \in 1..N
        OBVIOUS
      <3> QED
        BY <1>4, <1>6, <3>1
    <2>3. sum = Add(sum)
      BY <2>2, Zenon
    <2> HIDE DEF sum
    <2>4. sum[0] = 0 /\ \A k \in 1..n : sum[k] = sum[k - 1] + entries[k][field]
      BY <2>3
    <2>5. \A k \in 1..n : k \in 1..N
      OBVIOUS
    <2>6. sum[0] = f[0] /\ \A k \in 1..n : sum[k - 1] = f[k - 1] => sum[k] = f[k]
      BY <1>4, <1>6, <2>4, <2>5
    <2>7. sum[n] = f[n]
      <3>1. n \in Nat
        OBVIOUS
      <3> QED
        BY <2>6, <3>1, SameSteps, Zenon
    <2> QED
      BY <2>1, <2>7
  <1> QED
    BY <1>4, <1>5, <1>6, <1>7
(* The remainder of a division, ... *)
LEMMA Divided ==
  ASSUME NEW m \in Nat \ {0}, NEW a \in Int
  PROVE  \E q \in Int, r \in 0..m - 1 : a = m * q + r /\ a % m = r
  <1>1. a % m \in 0..m - 1 /\ a \div m \in Int /\ a = m * (a \div m) + (a % m)
    OBVIOUS
  <1> QED
    BY <1>1

(* ... of which there is one, ... *)
LEMMA Remainder ==
  ASSUME NEW m \in Nat \ {0}, NEW q \in Int, NEW r \in 0..m - 1
  PROVE  (m * q + r) % m = r
  OBVIOUS

(* ... a number below the divisor is its own, ... *)
LEMMA SmallRemainder ==
  ASSUME NEW m \in Nat \ {0}, NEW r \in 0..m - 1
  PROVE  r % m = r
  OBVIOUS

(* ... and that is all a sum has to keep. *)
LEMMA RemainderOfSum ==
  ASSUME NEW m \in Nat \ {0}, NEW a \in Int, NEW b \in Int
  PROVE  /\ (a % m) \in 0..m - 1
         /\ ((a % m) + b) % m = (a + b) % m
         /\ (a + (b % m)) % m = (a + b) % m
  <1>1. ASSUME NEW x \in Int, NEW y \in Int PROVE ((x % m) + y) % m = (x + y) % m
    <2>1. PICK q \in Int, r \in 0..m - 1 : x = m * q + r /\ x % m = r
      BY Divided
    <2>2. r + y \in Int
      OBVIOUS
    <2>3. PICK p \in Int, u \in 0..m - 1 : r + y = m * p + u /\ (r + y) % m = u
      BY <2>2, Divided
    <2>4. q + p \in Int /\ x + y = m * (q + p) + u
      BY <2>1, <2>3
    <2>5. (m * (q + p) + u) % m = u
      BY <2>4, Remainder
    <2> QED
      BY <2>1, <2>3, <2>4, <2>5
  <1>2. ((a % m) + b) % m = (a + b) % m /\ ((b % m) + a) % m = (b + a) % m
    BY <1>1
  <1>3. (a % m) \in 0..m - 1 /\ (b % m) \in 0..m - 1
    OBVIOUS
  <1>4. a + (b % m) = (b % m) + a /\ a + b = b + a
    BY <1>3
  <1> QED
    BY <1>2, <1>3, <1>4

-----------------------------------------------------------------------------
(* Induction over sequences: what holds of the empty one, and with a         *)
(* sequence of the one that has an element more, holds of all.               *)
Grows(T, S) == <<>> \in T /\ \A u \in Seq(S), e \in S : u \in T => Append(u, e) \in T

(* The shortest exception would be an element longer than one that is none. *)
LEMMA EverySequence ==
  ASSUME NEW S, NEW T, Grows(T, S), NEW s \in Seq(S)
  PROVE  s \in T
  <1> DEFINE K == {k \in 0..Len(s) : SubSeq(s, 1, k) \in T}
  <1>1. Len(s) \in Nat /\ SubSeq(s, 1, 0) = <<>> /\ SubSeq(s, 1, Len(s)) = s
    OBVIOUS
  <1>2. 0 \in K
    <2>1. <<>> \in T
      BY DEF Grows
    <2>2. SubSeq(s, 1, 0) \in T
      BY <1>1, <2>1, Zenon
    <2>3. 0 \in 0..Len(s)
      BY <1>1
    <2> QED
      BY <2>2, <2>3
  <1>3. ASSUME NEW k \in 1..Len(s), k - 1 \in K PROVE k \in K
    <2>1. SubSeq(s, 1, k - 1) \in Seq(S) /\ s[k] \in S
      <3>1. k - 1 \in 0..Len(s)
        BY <1>1
      <3>2. \A n \in 1..k - 1 : n \in 1..Len(s)
        BY <1>1
      <3> QED
        BY <1>1, <3>1, <3>2
    <2>2. Append(SubSeq(s, 1, k - 1), s[k]) \in T
      BY <1>3, <2>1 DEF Grows
    <2>3. SubSeq(s, 1, k) = Append(SubSeq(s, 1, k - 1), s[k])
      <3>1. 1 \in 1..Len(s) + 1 /\ k \in 1..Len(s)
        BY <1>1
      <3> QED
        BY <1>1, <3>1, SubSeqRecursiveSecond
    <2>4. SubSeq(s, 1, k) \in T
      BY <2>2, <2>3, Zenon
    <2>5. k \in 0..Len(s)
      BY <1>1
    <2> QED
      BY <2>4, <2>5
  <1> HIDE DEF K
  <1>4. \A k \in 1..Len(s) : k - 1 \in K => k \in K
    BY <1>3
  <1>5. Len(s) \in K
    BY <1>1, <1>2, <1>4, UpTo
  <1> QED
    BY <1>1, <1>5 DEF K

(* The points of two sequences in a range are those of both. *)
LEMMA WithinConcat ==
  ASSUME NEW P, NEW s \in Seq(P), NEW t \in Seq(P), NEW start, NEW end
  PROVE  Within(s \o t, start, end) = Within(s, start, end) \o Within(t, start, end)
  <1> DEFINE W(u) == Within(u, start, end)
             T == {u \in Seq(P) : W(s \o u) = W(s) \o W(u)}
  <1>1. \A u \in Seq(P) : W(u) \in Seq(P)
    BY WithinIn
  <1>2. <<>> \in T
    <2>1. W(<<>>) = <<>>
      BY WithinNothing
    <2> HIDE DEF W
    <2>2. s \o <<>> = s /\ W(s) \o <<>> = W(s) /\ <<>> \in Seq(P)
      BY <1>1
    <2>3. W(s \o <<>>) = W(s) \o W(<<>>)
      BY <2>1, <2>2
    <2> QED
      BY <2>2, <2>3
  <1>3. ASSUME NEW u \in Seq(P), NEW e \in P, u \in T PROVE Append(u, e) \in T
    <2>1. Append(u, e) \in Seq(P) /\ s \o Append(u, e) = Append(s \o u, e) /\ s \o u \in Seq(P)
      OBVIOUS
    <2>2. W(Append(u, e)) = IF start <= e.at /\ e.at <= end THEN Append(W(u), e) ELSE W(u)
      BY WithinAppend
    <2>3. W(Append(s \o u, e)) = IF start <= e.at /\ e.at <= end THEN Append(W(s \o u), e) ELSE W(s \o u)
      <3> DEFINE both == s \o u
      <3>1. both \in Seq(P)
        BY <2>1
      <3> HIDE DEF both
      <3>2. W(Append(both, e)) = IF start <= e.at /\ e.at <= end THEN Append(W(both), e) ELSE W(both)
        BY <3>1, WithinAppend
      <3> QED
        BY <3>2 DEF both
    <2> HIDE DEF W
    <2>4. W(s) \o Append(W(u), e) = Append(W(s) \o W(u), e)
      BY <1>1
    <2> QED
      BY <1>3, <2>1, <2>2, <2>3, <2>4
  <1> HIDE DEF T
  <1>4. Grows(T, P)
    BY <1>2, <1>3 DEF Grows
  <1>5. t \in T
    BY <1>4, EverySequence
  <1> QED
    BY <1>5 DEF T

-----------------------------------------------------------------------------
(* Points in order and near each other.                                      *)
Spots == [value : Int, at : Int]

Gaps(points) == \A n \in 1..Len(points) - 1 : points[n + 1].at - points[n].at \in 0..Interval

Ends(points) == points[Len(points)].at

(* One more point, near the last. *)
LEMMA GapsAppend ==
  ASSUME NEW points \in Seq(Spots), NEW e \in Spots
  PROVE  /\ Gaps(Append(points, e)) =>
              Gaps(points) /\ (points # <<>> => e.at - Ends(points) \in 0..Interval)
         /\ Gaps(points) /\ (points # <<>> => e.at - Ends(points) \in 0..Interval) =>
              Gaps(Append(points, e))
         /\ Ends(Append(points, e)) = e.at
  <1> DEFINE more == Append(points, e)
  <1>1. /\ Len(points) \in Nat /\ Len(more) = Len(points) + 1 /\ more[Len(points) + 1] = e
        /\ \A n \in 1..Len(points) : more[n] = points[n]
    OBVIOUS
  <1>2. points # <<>> => Len(points) # 0
    OBVIOUS
  <1> HIDE DEF more
  <1>3. ASSUME Gaps(more) PROVE Gaps(points)
    <2> SUFFICES ASSUME NEW n \in 1..Len(points) - 1
                 PROVE  points[n + 1].at - points[n].at \in 0..Interval
      BY DEF Gaps
    <2>1. n \in 1..Len(more) - 1 /\ n \in 1..Len(points) /\ n + 1 \in 1..Len(points)
      BY <1>1
    <2>2. more[n + 1].at - more[n].at \in 0..Interval
      BY <1>3, <2>1 DEF Gaps
    <2> QED
      BY <1>1, <2>1, <2>2
  <1>4. ASSUME Gaps(more), points # <<>> PROVE e.at - Ends(points) \in 0..Interval
    <2>1. Len(points) \in 1..Len(more) - 1 /\ Len(points) \in 1..Len(points)
      BY <1>1, <1>2, <1>4
    <2>2. more[Len(points) + 1].at - more[Len(points)].at \in 0..Interval
      BY <1>4, <2>1 DEF Gaps
    <2> QED
      BY <1>1, <2>1, <2>2 DEF Ends
  <1>5. ASSUME Gaps(points), points # <<>> => e.at - Ends(points) \in 0..Interval PROVE Gaps(more)
    <2> SUFFICES ASSUME NEW n \in 1..Len(more) - 1
                 PROVE  more[n + 1].at - more[n].at \in 0..Interval
      BY DEF Gaps
    <2>1. n \in 1..Len(points) /\ more[n] = points[n]
      BY <1>1
    <2>2. CASE n = Len(points)
      <3>1. points # <<>>
        BY <1>1, <2>1
      <3> QED
        BY <1>1, <1>5, <2>1, <2>2, <3>1 DEF Ends
    <2>3. CASE n # Len(points)
      <3>1. n \in 1..Len(points) - 1 /\ n + 1 \in 1..Len(points)
        BY <1>1, <2>1, <2>3
      <3>2. points[n + 1].at - points[n].at \in 0..Interval
        BY <1>5, <3>1 DEF Gaps
      <3> QED
        BY <1>1, <2>1, <3>1, <3>2
    <2> QED
      BY <2>2, <2>3
  <1>6. Ends(more) = e.at
    BY <1>1 DEF Ends
  <1> QED
    BY <1>3, <1>4, <1>5, <1>6 DEF more

(* The points of two sequences, the second near the first. *)
LEMMA GapsConcat ==
  ASSUME NEW s \in Seq(Spots), NEW t \in Seq(Spots), Gaps(s), Gaps(t),
         s # <<>> /\ t # <<>> => t[1].at - Ends(s) \in 0..Interval
  PROVE  Gaps(s \o t)
  <1>1. /\ Len(s) \in Nat /\ Len(t) \in Nat /\ Len(s \o t) = Len(s) + Len(t)
        /\ \A n \in 1..Len(s) : (s \o t)[n] = s[n]
        /\ \A n \in 1..Len(t) : (s \o t)[Len(s) + n] = t[n]
    OBVIOUS
  <1>2. (Len(s) # 0 => s # <<>>) /\ (Len(t) # 0 => t # <<>>)
    OBVIOUS
  <1> DEFINE all == s \o t
  <1> HIDE DEF all
  <1> SUFFICES ASSUME NEW n \in 1..Len(all) - 1
               PROVE  all[n + 1].at - all[n].at \in 0..Interval
    BY DEF Gaps, all
  <1>3. CASE n \in 1..Len(s) - 1
    <2>1. all[n] = s[n] /\ all[n + 1] = s[n + 1]
      BY <1>1, <1>3 DEF all
    <2> QED
      BY <1>3, <2>1 DEF Gaps
  <1>4. CASE n = Len(s)
    <2>1. n \in 1..Len(s) /\ 1 \in 1..Len(t)
      BY <1>1, <1>4 DEF all
    <2>2. all[n] = s[n]
      BY <1>1, <2>1 DEF all
    <2>3. all[n + 1] = t[1]
      BY <1>1, <1>4, <2>1 DEF all
    <2>4. t[1].at - Ends(s) \in 0..Interval
      BY <1>1, <1>2, <2>1
    <2> QED
      BY <1>4, <2>2, <2>3, <2>4 DEF Ends
  <1>5. CASE n \notin 1..Len(s)
    <2> DEFINE m == n - Len(s)
    <2>1. m \in 1..Len(t) - 1 /\ m \in 1..Len(t) /\ m + 1 \in 1..Len(t)
      BY <1>1, <1>5 DEF all
    <2>2. n = Len(s) + m /\ n + 1 = Len(s) + (m + 1)
      BY <1>1
    <2> HIDE DEF m
    <2>3. all[Len(s) + m] = t[m]
      BY <1>1, <2>1 DEF all
    <2>4. all[Len(s) + (m + 1)] = t[m + 1]
      BY <1>1, <2>1 DEF all
    <2>5. t[m + 1].at - t[m].at \in 0..Interval
      BY <2>1 DEF Gaps
    <2> QED
      BY <2>2, <2>3, <2>4, <2>5
  <1> QED
    BY <1>1, <1>3, <1>4, <1>5

(* Points in order lie between the first and the last. *)
LEMMA Sorted ==
  ASSUME NEW points \in Seq(Spots), Gaps(points), NEW n \in 1..Len(points)
  PROVE  points[1].at <= points[n].at /\ points[n].at <= Ends(points)
  <1> DEFINE Between(u) == \A k \in 1..Len(u) : u[1].at <= u[k].at /\ u[k].at <= Ends(u)
             T == {u \in Seq(Spots) : Gaps(u) => Between(u)}
  <1>1. <<>> \in T
    OBVIOUS
  <1>2. ASSUME NEW u \in Seq(Spots), NEW e \in Spots, u \in T PROVE Append(u, e) \in T
    <2> DEFINE more == Append(u, e)
    <2>0. /\ Len(u) \in Nat /\ Len(more) = Len(u) + 1 /\ more[Len(u) + 1] = e /\ more \in Seq(Spots)
          /\ \A k \in 1..Len(u) : more[k] = u[k] /\ u[k] \in Spots
      OBVIOUS
    <2>a. \A p \in Spots : p.at \in Int
      BY DEF Spots
    <2>1. /\ Len(u) \in Nat /\ Len(more) = Len(u) + 1 /\ more[Len(u) + 1] = e /\ more \in Seq(Spots)
          /\ \A k \in 1..Len(u) : more[k] = u[k] /\ u[k].at \in Int
          /\ e.at \in Int
      BY <2>0, <2>a
    <2> SUFFICES ASSUME Gaps(more) PROVE Between(more)
      BY <2>1
    <2>2. Gaps(u) /\ (u # <<>> => e.at - Ends(u) \in 0..Interval) /\ Ends(more) = e.at
      BY GapsAppend
    <2>3. Between(u)
      BY <1>2, <2>2
    <2> HIDE DEF more, T
    <2> SUFFICES ASSUME NEW k \in 1..Len(more)
                 PROVE  more[1].at <= more[k].at /\ more[k].at <= Ends(more)
      OBVIOUS
    <2>4. CASE u = <<>>
      <3>1. k = 1 /\ more[1] = e
        BY <2>1, <2>4
      <3> QED
        BY <2>1, <2>2, <3>1
    <2>5. CASE u # <<>>
      <3>1. Len(u) # 0 /\ 1 \in 1..Len(u) /\ Len(u) \in 1..Len(u)
        BY <2>1, <2>5
      <3>2. more[1] = u[1] /\ u[1].at <= Ends(u) /\ Ends(u) <= e.at /\ Ends(u) \in Int /\ u[1].at \in Int
        BY <2>1, <2>2, <2>3, <2>5, <3>1, ResamplingAssumption DEF Ends
      <3>3. CASE k = Len(u) + 1
        BY <2>1, <2>2, <3>2, <3>3
      <3>4. CASE k # Len(u) + 1
        <4>1. k \in 1..Len(u)
          BY <2>1, <3>4
        <4>2. u[1].at <= u[k].at /\ u[k].at <= Ends(u) /\ more[k] = u[k] /\ u[k].at \in Int
          BY <2>1, <2>3, <4>1
        <4> QED
          BY <2>1, <2>2, <3>2, <4>2
      <3> QED
        BY <3>3, <3>4
    <2> QED
      BY <2>4, <2>5
  <1> HIDE DEF T
  <1>3. Grows(T, Spots)
    BY <1>1, <1>2 DEF Grows
  <1>4. points \in T
    BY <1>3, EverySequence
  <1> QED
    BY <1>4 DEF T

(* Points beyond a range are not in it. *)
LEMMA WithinBeyond ==
  ASSUME NEW points \in Seq(Spots), NEW start \in Int, NEW end \in Int,
         \A n \in 1..Len(points) : end < points[n].at
  PROVE  Within(points, start, end) = <<>>
  <1> DEFINE Beyond(u) == \A n \in 1..Len(u) : end < u[n].at
             T == {u \in Seq(Spots) : Beyond(u) => Within(u, start, end) = <<>>}
  <1>1. <<>> \in T
    BY WithinNothing
  <1>2. ASSUME NEW u \in Seq(Spots), NEW e \in Spots, u \in T PROVE Append(u, e) \in T
    <2> DEFINE more == Append(u, e)
    <2>1. /\ Len(u) \in Nat /\ Len(more) = Len(u) + 1 /\ more[Len(u) + 1] = e /\ more \in Seq(Spots)
          /\ \A k \in 1..Len(u) : more[k] = u[k]
      OBVIOUS
    <2>2. Within(more, start, end) =
            IF start <= e.at /\ e.at <= end THEN Append(Within(u, start, end), e)
            ELSE Within(u, start, end)
      BY WithinAppend
    <2> HIDE DEF more
    <2>3. ASSUME Beyond(more) PROVE Within(more, start, end) = <<>>
      <3>1. Len(u) + 1 \in 1..Len(more) /\ \A k \in 1..Len(u) : k \in 1..Len(more)
        BY <2>1
      <3>2. end < e.at /\ Beyond(u)
        BY <2>1, <2>3, <3>1
      <3>3. e.at \in Int
        BY DEF Spots
      <3> QED
        BY <1>2, <2>2, <3>2, <3>3
    <2> QED
      BY <2>1, <2>3 DEF more
  <1> HIDE DEF T
  <1>3. Grows(T, Spots)
    BY <1>1, <1>2 DEF Grows
  <1>4. points \in T
    BY <1>3, EverySequence
  <1> QED
    BY <1>4 DEF T

(* The points of a range are neighbours, ... *)
LEMMA GapsWithin ==
  ASSUME NEW points \in Seq(Spots), NEW start \in Int, NEW end \in Int, Gaps(points)
  PROVE  Gaps(Within(points, start, end))
  <1> DEFINE W(u) == Within(u, start, end)
             Upper(u) == W(u) # <<>> =>
                           /\ u # <<>> /\ start <= Ends(u)
                           /\ Ends(u) <= end => Ends(W(u)) = Ends(u)
             T == {u \in Seq(Spots) : Gaps(u) => Gaps(W(u)) /\ Upper(u)}
  <1>1. <<>> \in T
    BY WithinNothing DEF Gaps
  <1>2. ASSUME NEW u \in Seq(Spots), NEW e \in Spots, u \in T PROVE Append(u, e) \in T
    <2> DEFINE more == Append(u, e)
    <2>a. more \in Seq(Spots) /\ more # <<>>
      OBVIOUS
    <2>b. W(u) \in Seq(Spots)
      BY WithinIn
    <2>c. e.at \in Int
      BY DEF Spots
    <2>1. more \in Seq(Spots) /\ more # <<>> /\ W(u) \in Seq(Spots) /\ e.at \in Int
      BY <2>a, <2>b, <2>c
    <2>2. W(more) = IF start <= e.at /\ e.at <= end THEN Append(W(u), e) ELSE W(u)
      BY WithinAppend
    <2>3. /\ Gaps(more) => Gaps(u) /\ (u # <<>> => e.at - Ends(u) \in 0..Interval)
          /\ Ends(more) = e.at
      BY GapsAppend
    <2>4. /\ Gaps(W(u)) /\ (W(u) # <<>> => e.at - Ends(W(u)) \in 0..Interval) =>
               Gaps(Append(W(u), e))
          /\ Ends(Append(W(u), e)) = e.at
      BY <2>1, GapsAppend
    <2>5. u # <<>> => Ends(u) \in Int
      <3> SUFFICES ASSUME u # <<>> PROVE Ends(u) \in Int
        OBVIOUS
      <3>1. Len(u) \in 1..Len(u)
        OBVIOUS
      <3>2. u[Len(u)] \in Spots
        BY <3>1
      <3> QED
        BY <3>2 DEF Ends, Spots
    <2> HIDE DEF more, W
    <2>6. ASSUME Gaps(more) PROVE Gaps(W(more)) /\ Upper(more)
      <3>1. Gaps(u) /\ Gaps(W(u)) /\ Upper(u) /\ (u # <<>> => e.at - Ends(u) \in 0..Interval)
        BY <1>2, <2>3, <2>6
      <3>2. u # <<>> => Ends(u) <= e.at
        BY <2>1, <2>5, <3>1, ResamplingAssumption
      <3>3. CASE start <= e.at /\ e.at <= end
        <4>1. W(more) = Append(W(u), e)
          BY <2>2, <3>3
        <4>2. ASSUME W(u) # <<>> PROVE e.at - Ends(W(u)) \in 0..Interval
          <5>1. u # <<>> /\ (Ends(u) <= end => Ends(W(u)) = Ends(u))
            BY <3>1, <4>2
          <5>2. Ends(u) <= end
            BY <2>1, <2>5, <3>2, <3>3, <5>1
          <5> QED
            BY <3>1, <5>1, <5>2
        <4> QED
          BY <2>1, <2>3, <2>4, <3>1, <3>3, <4>1, <4>2
      <3>4. CASE ~ (start <= e.at /\ e.at <= end)
        <4>1. W(more) = W(u)
          BY <2>2, <3>4
        <4>2. ASSUME W(u) # <<>> PROVE start <= e.at /\ ~ (e.at <= end)
          <5>1. u # <<>> /\ start <= Ends(u)
            BY <3>1, <4>2
          <5> QED
            BY <2>1, <2>5, <3>2, <3>4, <5>1
        <4>3. Upper(more)
          BY <2>1, <2>3, <4>1, <4>2
        <4> QED
          BY <3>1, <4>1, <4>3
      <3> QED
        BY <3>3, <3>4
    <2> QED
      BY <2>1, <2>6 DEF more
  <1> HIDE DEF T
  <1>3. Grows(T, Spots)
    BY <1>1, <1>2 DEF Grows
  <1>4. points \in T
    BY <1>3, EverySequence
  <1> QED
    BY <1>4 DEF T

(* The sum over a part is what it adds. *)
LEMMA SumOfPart ==
  ASSUME NEW entries, NEW field, NEW N \in Nat, Numbers(entries, N, field),
         NEW d \in 0..N, NEW m \in d..N
  PROVE  \A n \in 0..m - d :
           SumOf(SubSeq(entries, d + 1, m), n, field) =
             SumOf(entries, d + n, field) - SumOf(entries, d, field)
  <1> DEFINE part == SubSeq(entries, d + 1, m)
             Sum(n) == SumOf(part, n, field)
             All(n) == SumOf(entries, n, field)
             T == {n \in 0..m - d : Sum(n) = All(d + n) - All(d)}
  <1>0. m - d \in Nat /\ d \in Nat /\ m \in Nat
    OBVIOUS
  <1>1. \A k \in 1..m - d : part[k] = entries[d + k] /\ d + k \in 1..N
    OBVIOUS
  <1>2. Numbers(part, m - d, field)
    BY <1>1 DEF Numbers
  <1>3. All(d) \in Int /\ \A n \in 1..N : All(n) = All(n - 1) + entries[n][field]
    <2>1. d \in 0..N
      OBVIOUS
    <2> QED
      BY <2>1, SumStep
  <1>4. /\ Sum(0) = 0 /\ \A n \in 0..m - d : Sum(n) \in Int
        /\ \A n \in 1..m - d : Sum(n) = Sum(n - 1) + part[n][field]
    BY <1>0, <1>2, SumStep
  <1>a. \A n \in 0..N : All(n) \in Int
    BY SumStep
  <1> HIDE DEF part, Sum, All
  <1>5. 0 \in T
    BY <1>0, <1>3, <1>4
  <1>6. ASSUME NEW n \in 1..m - d, n - 1 \in T PROVE n \in T
    <2>1. Sum(n) = Sum(n - 1) + part[n][field] /\ part[n] = entries[d + n] /\ d + n \in 1..N
      BY <1>1, <1>4
    <2>2. All(d + n) = All(d + n - 1) + entries[d + n][field]
      BY <1>3, <2>1
    <2>3. Sum(n - 1) = All(d + (n - 1)) - All(d)
      BY <1>6
    <2>4. d + (n - 1) = d + n - 1 /\ d + n - 1 \in 0..N
      BY <1>0, <2>1
    <2>5. entries[d + n][field] \in Int /\ All(d + n - 1) \in Int
      BY <1>a, <2>1, <2>4 DEF Numbers
    <2>6. Sum(n) = All(d + n) - All(d)
      BY <1>3, <2>1, <2>2, <2>3, <2>4, <2>5
    <2>7. n \in 0..m - d
      BY <1>0
    <2> QED
      BY <2>6, <2>7
  <1> HIDE DEF T
  <1>7. \A n \in 1..m - d : n - 1 \in T => n \in T
    BY <1>6
  <1>8. 0..m - d \subseteq T
    BY <1>0, <1>5, <1>7, UpTo
  <1> QED
    BY <1>8 DEF T, Sum, All, part

-----------------------------------------------------------------------------
(* What the parts of a capture are made of.                                  *)
Buffers == [offset : Int, points : Seq(Spots)]
(* A posted or shown range, and a view, which may be empty. *)
Extents == {r \in [lo : Int, hi : Int] : r.lo <= r.hi}
Views == [lo : Int, hi : Int]

(* The user's commands as the queue holds them. *)
Writes == [op : {"write"}, from : Int, to : Int]
Clears == [op : {"clear"}, then : {<<>>}]
Reads == [op : {"read"}]
Commands == Writes \cup Clears \cup Reads \cup [op : {"clear"}, then : {<<[op |-> "read"]>>}]

(* An entry of a file, whose distance fits its byte. *)
Entries == [delta : 0..Interval, value : Int]

(* A save at work, a load at work, and the file. *)
Saves == [op : {"count", "body"}, start : Int, end : Int, next : Nat \ {0},
          offset : Int, sample : Int]
Loads == [op : {"read"}, position : Int, sample : Int, left : Seq(Entries) \ {<<>>}]
Files == [op : {"writing", "complete"}, frames : {file.frames}, start : Int, total : Nat,
          body : Seq(Entries)]

(* Every part of a capture has its type. *)
PartsOK ==
  /\ signalCache \in Seq(Buffers)
  /\ commandQueue \in Seq(Commands)
  /\ job = Idle \/ job \in Saves \/ job \in Loads
  /\ file = NoFile \/ file \in Files
  /\ events \in Seq(Extents)
  /\ data = NoData \/ data \in Extents
  /\ receivedTime \in Views /\ logicView \in Views /\ radioView \in Views
  /\ streaming \in BOOLEAN /\ produced \in Nat /\ resampling \in 0..produced

-----------------------------------------------------------------------------
(* A block in process() begins with its first sample and ends before the     *)
(* next block.                                                               *)
Whole ==
  /\ phase # "idle" => resampling # 0 /\ resampled # <<>> /\ resampled[1].at = 0
  /\ phase \in {"storage", "control"} =>
       \A n \in 1..Len(resampled) : resampled[n].at < BlockLength

(* The samples before this one have been told to the storage. *)
Told == (IF phase \in {"scan", "storage"} THEN resampling - 1 ELSE resampling) * BlockLength

(* A view shows only what the storage has been told. *)
Early(view) == view.hi < Told \/ view.hi = 0

(* Until the capture is over nobody asks for more of it than the storage has *)
(* been told, and no file is opened.                                         *)
Ahead ==
  ~Drained =>
    /\ events \in Seq({e \in Extents : e.hi < Told})
    /\ data # NoData => data.hi < Told
    /\ events # <<>> \/ data # NoData => Told > 0
    /\ Early(receivedTime) /\ Early(logicView) /\ Early(radioView)
    /\ commandQueue \in Seq({c \in Writes : c.to < Told} \cup Clears)
    /\ job \notin Loads
    /\ job \in Saves => job.end < Told

(* The points of the first n buffers. *)
Joined(cache, n) == FlattenSeq([k \in 1..n |-> Absolute(cache[k])])

(* The cache is in order and near, and what comes next is near its end: the  *)
(* rest of a file, or the next block of the capture.                         *)
Chain ==
  /\ Gaps(Cached)
  /\ job \in Loads /\ Cached # <<>> => job.position = Ends(Cached)
  /\ ~Drained /\ Cached # <<>> => Told - Ends(Cached) \in 0..Interval

(* What a save chooses of the first n buffers. *)
Picked(n) == Within(Joined(signalCache, n), job.start, job.end)

(* How far a save has come: what it has counted, and then what it has written. *)
Saving ==
  job \in Saves =>
    /\ signalCache # <<>> /\ job.next <= Len(signalCache) + 1
    /\ file \in Files /\ file.op = "writing"
    /\ job.op = "count" =>
         /\ file.body = <<>> /\ file.total = Len(Picked(job.next - 1))
         /\ job.offset = job.start /\ job.sample = 0
    /\ job.op = "body" =>
         /\ file.start = StartOffset
         /\ file.total = Len(Selection)
         /\ Len(file.body) = Len(Picked(job.next - 1))

(* A file is written while it is saved, and then holds what it announced. *)
Saved ==
  /\ job \notin Saves => file.op # "writing"
  /\ file.op = "complete" => Len(file.body) = file.total
  /\ file = NoFile => commandQueue \in Seq(Writes \cup Clears) /\ job \notin Loads

(* A point as the file holds it: its distance to the one before, and the     *)
(* difference of their values; at and value stand before the first.          *)
CodeAfter(points, n, at, value) ==
  [delta |-> (points[n].at - (IF n = 1 THEN at ELSE points[n - 1].at)) % DeltaModulus,
   value |-> Difference(points[n].value, IF n = 1 THEN value ELSE points[n - 1].value)]

(* A save starts at the beginning of its range. *)
Code(points, n) == CodeAfter(points, n, job.start, 0)

(* What a save has written are the codes of the points it has chosen. *)
Coded ==
  job.op = "body" =>
    LET points == Picked(job.next - 1) IN
    /\ \A n \in 1..Len(points) : file.body[n] = Code(points, n)
    /\ job.offset = IF points = <<>> THEN job.start ELSE Ends(points)
    /\ job.sample = IF points = <<>> THEN 0 ELSE points[Len(points)].value

(* The point an entry of the file stands for. *)
Entry(n) ==
  Point(IF kind = "radio" THEN SumOf(file.body, n, "value") % SampleModulus
        ELSE file.body[n].value,
        file.start + SumOf(file.body, n, "delta"))

(* What a load has cached are the points of the entries it has read. *)
Loading ==
  job \in Loads =>
    /\ Len(Cached) < Len(file.body)
    /\ job.left = SubSeq(file.body, Len(Cached) + 1, Len(file.body))
    /\ \A n \in 1..Len(Cached) : Cached[n] = Entry(n)
    /\ job.position = file.start + SumOf(file.body, Len(Cached), "delta")
    /\ kind = "radio" => job.sample = SumOf(file.body, Len(Cached), "value") % SampleModulus

(* Samples are shorts. *)
Shorts == kind = "radio" => Cached \in Seq([value : 0..SampleModulus - 1, at : Int])

(* A place in a range, ... *)
Lies(x, r) == r.lo <= x /\ x <= r.hi
(* ... in the plot or on its way to it *)
InSight(x) ==
  \/ data # NoData /\ Lies(x, data)
  \/ \E n \in 1..Len(events) : Lies(x, events[n])
  \/ phase = "control" /\ Lies(x, Extent(Buffer))

(* What is cached is in sight, or about to be cleared. *)
Covered ==
  /\ commandQueue \in Seq(Writes \cup Reads) => \A n \in 1..Len(Cached) : InSight(Cached[n].at)
  /\ data = NoData => receivedTime = Empty
  /\ kind = "logic" /\ data # NoData => receivedTime = data

(* The inductive invariant: the parts that say something of the storage, ... *)
StorageInv ==
  PartsOK /\ Ahead /\ Chain /\ Saving /\ Saved /\ Coded /\ Loading /\ Shorts /\ Covered

(* ... and with those of the resampling task. *)
CaptureInv == Inv /\ Whole /\ StorageInv

-----------------------------------------------------------------------------
(* The points of a buffer at their sample numbers.                           *)
LEMMA AbsoluteOf ==
  ASSUME NEW b \in Buffers
  PROVE  /\ Absolute(b) \in Seq(Spots) /\ Len(b.points) \in Nat /\ Len(Absolute(b)) = Len(b.points)
         /\ \A n \in 1..Len(b.points) :
              /\ b.points[n] \in Spots
              /\ Absolute(b)[n].at = b.points[n].at + b.offset
              /\ Absolute(b)[n].value = b.points[n].value
         /\ Gaps(b.points) => Gaps(Absolute(b))
  <1>1. b.points \in Seq(Spots) /\ b.offset \in Int
    BY DEF Buffers
  <1>2. Len(b.points) \in Nat /\ DOMAIN b.points = 1..Len(b.points)
        /\ \A n \in 1..Len(b.points) : b.points[n] \in Spots
    BY <1>1
  <1>3. \A p \in Spots : /\ [p EXCEPT !.at = @ + b.offset] \in Spots
                         /\ [p EXCEPT !.at = @ + b.offset].at = p.at + b.offset
                         /\ [p EXCEPT !.at = @ + b.offset].value = p.value
                         /\ p.at \in Int
    BY <1>1 DEF Spots
  <1>4. Absolute(b) = [n \in 1..Len(b.points) |-> [b.points[n] EXCEPT !.at = @ + b.offset]]
    BY <1>2 DEF Absolute
  <1>5. \A n \in 1..Len(b.points) : Absolute(b)[n] \in Spots /\ Absolute(b)[n] = [b.points[n] EXCEPT !.at = @ + b.offset]
    BY <1>2, <1>3, <1>4
  <1>6. Absolute(b) \in Seq(Spots) /\ Len(Absolute(b)) = Len(b.points)
    <2>1. Absolute(b) \in [1..Len(b.points) -> Spots]
      BY <1>4, <1>5
    <2> QED
      BY <1>2, <2>1
  <1>7. ASSUME Gaps(b.points) PROVE Gaps(Absolute(b))
    <2> SUFFICES ASSUME NEW n \in 1..Len(b.points) - 1
                 PROVE  Absolute(b)[n + 1].at - Absolute(b)[n].at \in 0..Interval
      BY <1>6 DEF Gaps
    <2>1. n \in 1..Len(b.points) /\ n + 1 \in 1..Len(b.points)
      BY <1>2
    <2>2. b.points[n + 1].at - b.points[n].at \in 0..Interval
      BY <1>7 DEF Gaps
    <2>3. /\ Absolute(b)[n].at = b.points[n].at + b.offset /\ b.points[n].at \in Int
          /\ Absolute(b)[n + 1].at = b.points[n + 1].at + b.offset /\ b.points[n + 1].at \in Int
      BY <1>2, <1>3, <1>5, <2>1
    <2> DEFINE p == b.points[n].at
               q == b.points[n + 1].at
    <2>4. Absolute(b)[n + 1].at - Absolute(b)[n].at = q - p
      <3>1. \A x, y, o \in Int : (x + o) - (y + o) = x - y
        OBVIOUS
      <3>2. p \in Int /\ q \in Int
        BY <2>3
      <3> HIDE DEF p, q
      <3>3. (q + b.offset) - (p + b.offset) = q - p
        BY <1>1, <3>1, <3>2
      <3> QED
        BY <2>3, <3>3 DEF p, q
    <2> QED
      BY <2>2, <2>4
  <1>8. \A n \in 1..Len(b.points) : /\ Absolute(b)[n].at = b.points[n].at + b.offset
                                   /\ Absolute(b)[n].value = b.points[n].value
    BY <1>2, <1>3, <1>5
  <1> QED
    BY <1>2, <1>6, <1>7, <1>8

(* The cache is built up buffer by buffer. *)
LEMMA JoinedNothing ==
  ASSUME NEW cache
  PROVE  Joined(cache, 0) = <<>>
  <1> DEFINE none == <<>>
  <1>1. none \in Seq(Seq(Spots)) /\ Len(none) = 0
    OBVIOUS
  <1>2. [k \in 1..0 |-> Absolute(cache[k])] = none
    OBVIOUS
  <1>3. FlattenSeq(none) = none
    BY <1>1, Zenon DEF FlattenSeq
  <1> HIDE DEF none
  <1>4. Joined(cache, 0) = none
    BY <1>2, <1>3, Zenon DEF Joined
  <1> QED
    BY <1>4 DEF none

(* ... the part of a buffer comes after those before it, ... *)
LEMMA JoinedParts ==
  ASSUME NEW cache \in Seq(Buffers), NEW n \in 0..Len(cache)
  PROVE  /\ [k \in 1..n |-> Absolute(cache[k])] \in Seq(Seq(Spots))
         /\ Joined(cache, n) \in Seq(Spots)
         /\ n # 0 => Joined(cache, n) = Joined(cache, n - 1) \o Absolute(cache[n])
  <1> DEFINE Parts(k) == [j \in 1..k |-> Absolute(cache[j])]
  <1>1. Len(cache) \in Nat /\ \A k \in 1..Len(cache) : cache[k] \in Buffers
    OBVIOUS
  <1>2. \A k \in 1..Len(cache) : Absolute(cache[k]) \in Seq(Spots)
    BY <1>1, AbsoluteOf
  <1>3. ASSUME NEW k \in 0..Len(cache) PROVE Parts(k) \in Seq(Seq(Spots)) /\ Len(Parts(k)) = k
    <2>1. k \in Nat /\ \A j \in 1..k : j \in 1..Len(cache)
      BY <1>1
    <2>2. Parts(k) \in [1..k -> Seq(Spots)]
      BY <1>2, <2>1
    <2> QED
      BY <2>1, <2>2
  <1>4. Joined(cache, n) \in Seq(Spots)
    <2>1. Parts(n) \in Seq(Seq(Spots))
      BY <1>3
    <2> HIDE DEF Parts
    <2>2. FlattenSeq(Parts(n)) \in Seq(Spots)
      BY <2>1, Flattens
    <2> QED
      BY <2>2 DEF Joined, Parts
  <1>5. ASSUME n # 0 PROVE Joined(cache, n) = Joined(cache, n - 1) \o Absolute(cache[n])
    <2>1. n - 1 \in 0..Len(cache) /\ n \in 1..Len(cache) /\ n \in Nat
      BY <1>1, <1>5
    <2>2. Parts(n - 1) \in Seq(Seq(Spots)) /\ Len(Parts(n - 1)) = n - 1
          /\ Parts(n) \in Seq(Seq(Spots)) /\ Len(Parts(n)) = n /\ Absolute(cache[n]) \in Seq(Spots)
      BY <1>2, <1>3, <2>1
    <2>3. \A j \in 1..n - 1 : Parts(n)[j] = Parts(n - 1)[j]
      OBVIOUS
    <2>4. Parts(n)[n] = Absolute(cache[n])
      BY <2>1
    <2> HIDE DEF Parts
    <2>5. Parts(n) = Append(Parts(n - 1), Absolute(cache[n]))
      <3> DEFINE less == Parts(n - 1)
                 e == Absolute(cache[n])
                 more == Append(less, e)
      <3>1. less \in Seq(Seq(Spots)) /\ Len(less) = n - 1 /\ e \in Seq(Spots)
        BY <2>2
      <3> HIDE DEF less, e
      <3>2. /\ more \in Seq(Seq(Spots)) /\ Len(more) = n /\ more[n] = e
            /\ \A j \in 1..n - 1 : more[j] = less[j]
        BY <2>1, <3>1
      <3>3. \A j \in 1..n : Parts(n)[j] = more[j]
        BY <2>1, <2>3, <2>4, <3>2 DEF less, e
      <3> HIDE DEF more
      <3>4. Parts(n) = more
        BY <2>2, <3>2, <3>3, SeqEqual
      <3> QED
        BY <3>4 DEF more, less, e
    <2>6. FlattenSeq(Append(Parts(n - 1), Absolute(cache[n]))) = FlattenSeq(Parts(n - 1)) \o Absolute(cache[n])
      BY <2>2, FlattenAppend
    <2>7. FlattenSeq(Parts(n)) = FlattenSeq(Parts(n - 1)) \o Absolute(cache[n])
      BY <2>5, <2>6
    <2> QED
      BY <2>7 DEF Joined, Parts
  <1>6. Parts(n) \in Seq(Seq(Spots))
    BY <1>3
  <1> QED
    BY <1>4, <1>5, <1>6

(* A buffer more leaves those before it alone. *)
LEMMA JoinedKept ==
  ASSUME NEW cache \in Seq(Buffers), NEW b \in Buffers, NEW n \in 0..Len(cache)
  PROVE  Joined(Append(cache, b), n) = Joined(cache, n)
  <1>1. \A k \in 1..n : Append(cache, b)[k] = cache[k]
    OBVIOUS
  <1>2. [k \in 1..n |-> Absolute(Append(cache, b)[k])] = [k \in 1..n |-> Absolute(cache[k])]
    BY <1>1
  <1> QED
    BY <1>2 DEF Joined

(* ... and the whole cache is all of its parts. *)
LEMMA CachedJoined ==
  ASSUME signalCache \in Seq(Buffers)
  PROVE  /\ Cached = Joined(signalCache, Len(signalCache))
         /\ Cached \in Seq(Spots)
         /\ signalCache = <<>> => Cached = <<>>
  <1>1. DOMAIN signalCache = 1..Len(signalCache) /\ Len(signalCache) \in 0..Len(signalCache)
    OBVIOUS
  <1>2. Cached = Joined(signalCache, Len(signalCache))
    BY <1>1 DEF Cached, Joined
  <1>3. Cached \in Seq(Spots)
    BY <1>1, <1>2, JoinedParts
  <1>4. ASSUME signalCache = <<>> PROVE Cached = <<>>
    <2>1. Len(signalCache) = 0
      BY <1>4
    <2> QED
      BY <1>2, <2>1, JoinedNothing
  <1> QED
    BY <1>2, <1>3, <1>4

(* The cache with one more buffer. *)
LEMMA CachedGrows ==
  ASSUME signalCache \in Seq(Buffers), NEW b \in Buffers, signalCache' = Append(signalCache, b)
  PROVE  Cached' = Cached \o Absolute(b)
  <1> DEFINE more == Append(signalCache, b)
             last == Len(signalCache) + 1
  <1>1. /\ more \in Seq(Buffers) /\ last \in 1..Len(more) /\ Len(more) = last /\ more[last] = b
        /\ last - 1 = Len(signalCache) /\ Len(signalCache) \in 0..Len(signalCache)
        /\ last \in 0..Len(more) /\ last # 0 /\ DOMAIN more = 1..last
    OBVIOUS
  <1>2. Joined(more, last - 1) = Joined(signalCache, Len(signalCache))
    BY <1>1, JoinedKept
  <1> HIDE DEF more, last
  <1>3. Joined(more, last) = Joined(more, last - 1) \o Absolute(more[last])
    BY <1>1, JoinedParts
  <1>4. Cached' = Joined(more, last)
    <2>1. signalCache' = more
      BY DEF more
    <2> QED
      BY <1>1, <2>1 DEF Cached, Joined, Absolute
  <1> QED
    BY <1>1, <1>2, <1>3, <1>4, CachedJoined

(* What a save has chosen so far, and what the next buffer adds. *)
LEMMA PickedParts ==
  ASSUME signalCache \in Seq(Buffers)
  PROVE  /\ Picked(0) = <<>>
         /\ \A n \in 0..Len(signalCache) : Picked(n) \in Seq(Spots)
         /\ \A n \in 1..Len(signalCache) :
              /\ InRange(signalCache[n], job.start, job.end) \in Seq(Spots)
              /\ Picked(n) = Picked(n - 1) \o InRange(signalCache[n], job.start, job.end)
         /\ Selection = Picked(Len(signalCache))
  <1> DEFINE W(points) == Within(points, job.start, job.end)
             J(n) == Joined(signalCache, n)
  <1>1. Picked(0) = <<>>
    <2>1. W(<<>>) = <<>>
      BY WithinNothing
    <2> QED
      BY <2>1, JoinedNothing DEF Picked
  <1>2. ASSUME NEW n \in 0..Len(signalCache) PROVE Picked(n) \in Seq(Spots)
    <2>1. J(n) \in Seq(Spots)
      BY JoinedParts
    <2> HIDE DEF J
    <2>2. W(J(n)) \in Seq(Spots)
      BY <2>1, WithinIn
    <2> QED
      BY <2>2 DEF Picked, J
  <1>3. ASSUME NEW n \in 1..Len(signalCache)
        PROVE  /\ InRange(signalCache[n], job.start, job.end) \in Seq(Spots)
               /\ Picked(n) = Picked(n - 1) \o InRange(signalCache[n], job.start, job.end)
    <2> DEFINE a == Absolute(signalCache[n])
    <2>1. n - 1 \in 0..Len(signalCache) /\ n \in 0..Len(signalCache) /\ n # 0 /\ signalCache[n] \in Buffers
      OBVIOUS
    <2>2. J(n) = J(n - 1) \o a
      BY <2>1, JoinedParts
    <2>3. J(n - 1) \in Seq(Spots)
      BY <2>1, JoinedParts
    <2>4. a \in Seq(Spots)
      BY <2>1, AbsoluteOf
    <2> HIDE DEF J, a
    <2>5. W(a) \in Seq(Spots)
      BY <2>4, WithinIn
    <2>6. W(J(n - 1) \o a) = W(J(n - 1)) \o W(a)
      BY <2>3, <2>4, WithinConcat
    <2> QED
      BY <2>2, <2>5, <2>6 DEF Picked, InRange, J, a
  <1>4. Selection = Picked(Len(signalCache))
    BY CachedJoined DEF Selection, Picked
  <1> QED
    BY <1>1, <1>2, <1>3, <1>4

(* What a block is to those who are told of it. *)
LEMMA BufferTold ==
  ASSUME PartsOK, Inv, Whole, StorageAssumption, phase \in {"storage", "control"}
  PROVE  /\ Buffer \in Buffers /\ Gaps(Absolute(Buffer)) /\ Absolute(Buffer) # <<>>
         /\ (resampling - 1) * BlockLength \in Nat
         /\ resampling * BlockLength = (resampling - 1) * BlockLength + BlockLength
         /\ Absolute(Buffer)[1].at = (resampling - 1) * BlockLength
         /\ Ends(Absolute(Buffer)) < resampling * BlockLength
         /\ resampling * BlockLength - Ends(Absolute(Buffer)) \in 0..Interval
         /\ kind = "radio" => Absolute(Buffer) \in Seq([value : 0..SampleModulus - 1, at : Int])
  <1> DEFINE o == (resampling - 1) * BlockLength
             N == Len(resampled)
  <1>1. /\ resampled \in Seq(Points) /\ kind \in Kinds /\ Near(resampled)
        /\ N \in Nat \ {0} /\ BlockLength - resampled[N].at <= Interval
        /\ resampled[1].at = 0 /\ resampling # 0
        /\ \A n \in 1..N : resampled[n].at < BlockLength
    BY DEF Inv, ResamplerTypeOK, Points, EndsNear, Whole
  <1>2. BlockLength \in Nat \ {0} /\ Interval \in Nat \ {0} /\ resampling \in Nat \ {0}
    BY <1>1, ResamplingAssumption DEF PartsOK
  <1>3. o \in Nat /\ resampling * BlockLength = o + BlockLength
    <2>1. resampling - 1 \in Nat
      BY <1>2
    <2>2. \A a, c \in Nat : a * c \in Nat
      OBVIOUS
    <2>3. o \in Nat
      BY <1>2, <2>1, <2>2
    <2> QED
      BY <1>2, <2>3
  <1>4. /\ \A p \in Points : p \in Spots /\ p.at \in Int
        /\ kind = "radio" => Points \subseteq [value : 0..SampleModulus - 1, at : Int]
    <2>1. kind = "radio" => Levels(kind) \subseteq 0..SampleModulus - 1
      BY DEF StorageAssumption
    <2>2. kind # "radio" => Levels(kind) \subseteq Int
      BY <1>1 DEF Kinds, Levels, LogicLevels
    <2>3. Levels(kind) \subseteq Int
      BY <2>1, <2>2
    <2> QED
      BY <1>2, <2>1, <2>3 DEF Points, Spots
  <1>5. resampled \in Seq(Spots) /\ \A n \in 1..N : resampled[n] \in Points /\ resampled[n].at \in Int
    <2>1. \A n \in 1..N : resampled[n] \in Points
      BY <1>1
    <2> QED
      BY <1>1, <1>4, <2>1
  <1>6. Gaps(resampled)
    <2> SUFFICES ASSUME NEW n \in 1..N - 1
                 PROVE  resampled[n + 1].at - resampled[n].at \in 0..Interval
      BY DEF Gaps
    <2>1. n \in 1..N /\ n + 1 \in 1..N
      BY <1>1
    <2>2. resampled[n].at <= resampled[n + 1].at /\ resampled[n + 1].at - resampled[n].at <= Interval
      BY <1>1 DEF Near
    <2> QED
      BY <1>2, <1>5, <2>1, <2>2
  <1> HIDE DEF o
  <1>7. Buffer = [offset |-> o, points |-> resampled]
    BY DEF Buffer, o
  <1>8. Buffer \in Buffers /\ Buffer.points = resampled /\ Buffer.offset = o
    BY <1>3, <1>5, <1>7 DEF Buffers
  <1>9. /\ Absolute(Buffer) \in Seq(Spots) /\ Len(Absolute(Buffer)) = N
        /\ \A n \in 1..N : /\ Absolute(Buffer)[n].at = resampled[n].at + o
                          /\ Absolute(Buffer)[n].value = resampled[n].value
        /\ Gaps(Absolute(Buffer))
    BY <1>6, <1>8, AbsoluteOf
  <1>10. 1 \in 1..N /\ N \in 1..N
    BY <1>1
  <1>11. /\ Absolute(Buffer)[1].at = o /\ Absolute(Buffer) # <<>>
         /\ Ends(Absolute(Buffer)) = resampled[N].at + o
    BY <1>1, <1>3, <1>9, <1>10 DEF Ends
  <1>12. /\ resampled[N].at + o < o + BlockLength
         /\ (o + BlockLength) - (resampled[N].at + o) \in 0..Interval
    <2> DEFINE x == resampled[N].at
    <2>1. x \in Int /\ x < BlockLength /\ BlockLength - x <= Interval
      BY <1>1, <1>5, <1>10
    <2> HIDE DEF x
    <2>2. x + o < o + BlockLength /\ (o + BlockLength) - (x + o) \in 0..Interval
      BY <1>2, <1>3, <2>1
    <2> QED
      BY <2>2 DEF x
  <1>13. ASSUME kind = "radio" PROVE Absolute(Buffer) \in Seq([value : 0..SampleModulus - 1, at : Int])
    <2> DEFINE S == [value : 0..SampleModulus - 1, at : Int]
    <2>1. ASSUME NEW n \in 1..N PROVE Absolute(Buffer)[n] \in S
      <3>1. resampled[n].value \in 0..SampleModulus - 1
        BY <1>4, <1>5, <1>13
      <3>2. Absolute(Buffer)[n] \in Spots
        BY <1>9
      <3>3. Absolute(Buffer)[n].value \in 0..SampleModulus - 1
        BY <1>9, <3>1
      <3> QED
        BY <3>2, <3>3 DEF Spots
    <2> HIDE DEF S
    <2>2. Absolute(Buffer) \in Seq(S)
      BY <1>1, <1>9, <2>1
    <2> QED
      BY <2>2 DEF S
  <1> QED
    BY <1>3, <1>8, <1>9, <1>11, <1>12, <1>13 DEF o

(* What a chunk of a file becomes. *)
LEMMA ChunkTold ==
  ASSUME PartsOK, StorageAssumption, kind \in Kinds, job \in Loads
  PROVE  /\ Len(job.left) \in Nat /\ Len(Chunk) \in 1..Len(job.left) /\ Chunk \in Seq(Entries)
         /\ Chunk = SubSeq(job.left, 1, Len(Chunk))
         /\ Numbers(Chunk, Len(Chunk), "delta") /\ Numbers(Chunk, Len(Chunk), "value")
         /\ Len(Absolute(ChunkBuffer)) = Len(Chunk) /\ ChunkBuffer \in Buffers
         /\ Len(ChunkBuffer.points) = Len(Chunk)
         /\ \A n \in 1..Len(Chunk) :
              /\ ChunkBuffer.points[n].value =
                   (IF kind = "radio" THEN (job.sample + SumOf(Chunk, n, "value")) % SampleModulus
                    ELSE Chunk[n].value)
              /\ Absolute(ChunkBuffer)[n] =
                   Point(ChunkBuffer.points[n].value, job.position + SumOf(Chunk, n, "delta"))
         /\ Gaps(Absolute(ChunkBuffer)) /\ Absolute(ChunkBuffer) # <<>>
         /\ Absolute(ChunkBuffer)[1].at - job.position \in 0..Interval
         /\ Ends(Absolute(ChunkBuffer)) = job.position + SumOf(Chunk, Len(Chunk), "delta")
  <1> DEFINE m == Len(Chunk)
             Value(n) == IF kind = "radio" THEN (job.sample + SumOf(Chunk, n, "value")) % SampleModulus
                         ELSE Chunk[n].value
             Delta(n) == SumOf(Chunk, n, "delta")
  <1>1. /\ job.left \in Seq(Entries) /\ job.left # <<>> /\ job.position \in Int /\ job.sample \in Int
        /\ ChunkPoints \in Nat \ {0} /\ SampleModulus \in Nat \ {0} /\ Interval \in Nat \ {0}
    BY ResamplingAssumption DEF Loads, StorageAssumption
  <1>2. Len(job.left) \in Nat \ {0}
    BY <1>1
  <1>3. m \in 1..Len(job.left) /\ Chunk \in Seq(Entries) /\ Chunk = SubSeq(job.left, 1, m)
    <2> DEFINE k == IF Len(job.left) < ChunkPoints THEN Len(job.left) ELSE ChunkPoints
    <2>1. k \in 1..Len(job.left)
      BY <1>1, <1>2
    <2>2. Chunk = SubSeq(job.left, 1, k)
      BY DEF Chunk
    <2> HIDE DEF k
    <2>3. SubSeq(job.left, 1, k) \in Seq(Entries) /\ Len(SubSeq(job.left, 1, k)) = k
      BY <1>1, <1>2, <2>1
    <2> QED
      BY <2>1, <2>2, <2>3
  <1>4. ASSUME NEW n \in 1..m
        PROVE  Chunk[n] \in Entries /\ Chunk[n]["delta"] \in 0..Interval /\ Chunk[n]["value"] \in Int
               /\ Chunk[n].value \in Int
    <2>1. Chunk[n] \in Entries
      BY <1>3
    <2> QED
      BY <2>1 DEF Entries
  <1>5. Numbers(Chunk, m, "delta") /\ Numbers(Chunk, m, "value")
    BY <1>1, <1>4 DEF Numbers
  <1>6. /\ \A n \in 0..m : Delta(n) \in Int /\ SumOf(Chunk, n, "value") \in Int
        /\ Delta(0) = 0 /\ \A n \in 1..m : Delta(n) = Delta(n - 1) + Chunk[n]["delta"]
    <2>1. m \in Nat
      BY <1>2, <1>3
    <2> QED
      BY <1>5, <2>1, SumStep
  <1>7. \A n \in 1..m : Value(n) \in Int
    <2> SUFFICES ASSUME NEW n \in 1..m PROVE Value(n) \in Int
      OBVIOUS
    <2>1. job.sample + SumOf(Chunk, n, "value") \in Int
      BY <1>1, <1>2, <1>3, <1>6
    <2>2. (job.sample + SumOf(Chunk, n, "value")) % SampleModulus \in Int
      BY <1>1, <2>1
    <2> QED
      BY <1>4, <2>2
  <1>8. ChunkBuffer.offset = job.position /\ ChunkBuffer.points = Decoded(Chunk, job.sample)
        /\ ChunkBuffer = [offset |-> job.position, points |-> ChunkBuffer.points]
    BY DEF ChunkBuffer
  <1>9. ChunkBuffer.points = [n \in 1..m |-> Point(Value(n), Delta(n))]
    <2>1. DOMAIN Chunk = 1..m
      BY <1>3
    <2> QED
      BY <1>8, <2>1 DEF Decoded
  <1> HIDE DEF Value, Delta
  <1>10. \A n \in 1..m : Point(Value(n), Delta(n)) \in Spots
    BY <1>2, <1>3, <1>6, <1>7 DEF Point, Spots
  <1>11. ChunkBuffer.points \in Seq(Spots) /\ Len(ChunkBuffer.points) = m
    <2>1. m \in Nat
      BY <1>2, <1>3
    <2>2. ChunkBuffer.points \in [1..m -> Spots]
      BY <1>9, <1>10
    <2> QED
      BY <2>1, <2>2
  <1>12. ChunkBuffer \in Buffers
    BY <1>1, <1>8, <1>11 DEF Buffers
  <1>13. \A n \in 1..m : ChunkBuffer.points[n].value = Value(n) /\ ChunkBuffer.points[n].at = Delta(n)
    BY <1>9 DEF Point
  <1>14. /\ Absolute(ChunkBuffer) \in Seq(Spots) /\ Len(Absolute(ChunkBuffer)) = m
         /\ \A n \in 1..m : /\ Absolute(ChunkBuffer)[n].at = ChunkBuffer.points[n].at + job.position
                           /\ Absolute(ChunkBuffer)[n].value = ChunkBuffer.points[n].value
         /\ Gaps(ChunkBuffer.points) => Gaps(Absolute(ChunkBuffer))
    BY <1>8, <1>11, <1>12, AbsoluteOf
  <1>15. Gaps(ChunkBuffer.points)
    <2> SUFFICES ASSUME NEW n \in 1..m - 1
                 PROVE  ChunkBuffer.points[n + 1].at - ChunkBuffer.points[n].at \in 0..Interval
      BY <1>11 DEF Gaps
    <2>1. n \in 1..m /\ n + 1 \in 1..m /\ n + 1 - 1 = n /\ n \in 0..m
      BY <1>2, <1>3
    <2>2. ChunkBuffer.points[n + 1].at = Delta(n + 1) /\ ChunkBuffer.points[n].at = Delta(n)
      BY <1>13, <2>1
    <2>3. Delta(n + 1) = Delta(n) + Chunk[n + 1]["delta"]
      BY <1>6, <2>1
    <2> DEFINE gap == Chunk[n + 1]["delta"]
               x == Delta(n)
    <2>4. gap \in 0..Interval /\ x \in Int
      BY <1>4, <1>6, <2>1
    <2>5. Delta(n + 1) = x + gap
      BY <2>3
    <2> HIDE DEF gap, x
    <2>6. (x + gap) - x \in 0..Interval
      BY <1>1, <2>4
    <2>7. ChunkBuffer.points[n + 1].at = x + gap /\ ChunkBuffer.points[n].at = x
      BY <2>2, <2>5 DEF x
    <2> QED
      BY <2>6, <2>7
  <1>16. \A n \in 1..m : /\ Absolute(ChunkBuffer)[n].at = job.position + Delta(n)
                         /\ Absolute(ChunkBuffer)[n].value = Value(n)
                         /\ Absolute(ChunkBuffer)[n] \in Spots
    <2> SUFFICES ASSUME NEW n \in 1..m
                 PROVE  /\ Absolute(ChunkBuffer)[n].at = job.position + Delta(n)
                        /\ Absolute(ChunkBuffer)[n].value = Value(n)
                        /\ Absolute(ChunkBuffer)[n] \in Spots
      OBVIOUS
    <2>1. Delta(n) \in Int
      BY <1>2, <1>3, <1>6
    <2> QED
      BY <1>1, <1>13, <1>14, <2>1
  <1>17. \A n \in 1..m : Absolute(ChunkBuffer)[n] = Point(Value(n), job.position + Delta(n))
    BY <1>16 DEF Spots, Point
  <1>18. 1 \in 1..m /\ m \in 1..m /\ 1 - 1 = 0
    BY <1>2, <1>3
  <1>19. Absolute(ChunkBuffer)[1].at - job.position \in 0..Interval
    <2>1. Delta(1) = Chunk[1]["delta"] /\ Chunk[1]["delta"] \in 0..Interval
      BY <1>1, <1>4, <1>6, <1>18
    <2>2. Absolute(ChunkBuffer)[1].at = job.position + Delta(1)
      BY <1>16, <1>18
    <2> QED
      BY <1>1, <2>1, <2>2
  <1>20. Ends(Absolute(ChunkBuffer)) = job.position + Delta(m) /\ Absolute(ChunkBuffer) # <<>>
    BY <1>2, <1>3, <1>14, <1>16, <1>18 DEF Ends
  <1> QED
    BY <1>2, <1>3, <1>5, <1>11, <1>12, <1>13, <1>14, <1>15, <1>17, <1>19, <1>20 DEF Value, Delta

-----------------------------------------------------------------------------
(* Steps of the device, the decoder and the resampling task that nobody else *)
(* notices.                                                                  *)
Unseen ==
  UNCHANGED <<signalCache, commandQueue, job, file, events, data, logicView, radioView, receivedTime, kind>>

(* What is made of the cache alone stays with it. *)
LEMMA CacheKept ==
  ASSUME UNCHANGED <<signalCache>>
  PROVE  /\ Cached' = Cached
         /\ \A n : Joined(signalCache, n)' = Joined(signalCache, n)
  BY DEF Cached, Joined, Absolute

(* A save notices nothing of a step that leaves the storage alone. *)
LEMMA SavingKept ==
  ASSUME UNCHANGED <<signalCache, job, file, kind>>
  PROVE  /\ Saving => Saving'
         /\ Coded => Coded'
         /\ Loading => Loading'
  <1>1. Selection' = Selection /\ \A n : Picked(n)' = Picked(n)
    BY CacheKept DEF Selection, Picked
  <1>2. StartOffset' = StartOffset /\ Files' = Files /\ Saves' = Saves /\ Loads' = Loads
    BY DEF StartOffset, Files, Saves, Loads
  <1>3. ASSUME Saving PROVE Saving'
    <2>1. Picked(job.next - 1)' = Picked(job.next - 1)
      BY <1>1
    <2> QED
      BY <1>1, <1>2, <1>3, <2>1 DEF Saving
  <1>4. ASSUME Coded PROVE Coded'
    <2>1. Picked(job.next - 1)' = Picked(job.next - 1)
      BY <1>1
    <2> QED
      BY <1>4, <2>1 DEF Coded, Code, CodeAfter, Difference
  <1>5. ASSUME Loading PROVE Loading'
    <2>1. Cached' = Cached
      BY CacheKept
    <2>2. \A n : Entry(n)' = Entry(n)
      BY DEF Entry
    <2> QED
      BY <1>2, <1>5, <2>1, <2>2 DEF Loading
  <1> QED
    BY <1>3, <1>4, <1>5

(* Such a step keeps the invariant of the storage. *)
LEMMA QuietStep ==
  ASSUME CaptureInv, Unseen, Told' = Told, ~Drained' => ~Drained,
         \/ phase # "control" /\ phase' # "control"
         \/ UNCHANGED <<phase, resampled, resampling>>
  PROVE  Ahead' /\ Chain' /\ Saving' /\ Saved' /\ Coded' /\ Loading' /\ Shorts' /\ Covered'
  <1> USE DEF Unseen
  <1>1. Ahead'
    BY DEF CaptureInv, StorageInv, Ahead, Early
  <1>2. Cached' = Cached
    BY CacheKept
  <1>3. Chain'
    BY <1>2 DEF CaptureInv, StorageInv, Chain, Gaps, Ends
  <1>4. Saving' /\ Coded' /\ Loading'
    BY SavingKept DEF CaptureInv, StorageInv
  <1>5. Saved'
    BY DEF CaptureInv, StorageInv, Saved, Saves, Loads
  <1>6. Shorts'
    BY <1>2 DEF CaptureInv, StorageInv, Shorts
  <1>7. Covered'
    <2>1. \A x : InSight(x) => InSight(x)'
      <3> SUFFICES ASSUME NEW x, InSight(x) PROVE InSight(x)'
        OBVIOUS
      <3>1. phase = "control" => phase' = "control" /\ Extent(Buffer)' = Extent(Buffer)
        BY DEF Extent, Buffer, Absolute
      <3> QED
        BY <3>1 DEF InSight, Lies
    <2> QED
      BY <1>2, <2>1 DEF CaptureInv, StorageInv, Covered
  <1> QED
    BY <1>1, <1>3, <1>4, <1>5, <1>6, <1>7

(* The device, the decoder and the scan. *)
LEMMA CaptureSteps ==
  ASSUME CaptureInv, Produce \/ Stop \/ DecodeFrame \/ TakeBuffer \/ ScanBuffer \/ UNCHANGED vars
  PROVE  StorageInv'
  <1>1. ASSUME Unseen, streaming' \in BOOLEAN, produced' \in Nat, resampling' \in 0..produced' PROVE PartsOK'
    BY <1>1 DEF CaptureInv, StorageInv, PartsOK, Unseen, Files
  <1>2. CASE Produce
    <2>1. Unseen /\ UNCHANGED <<phase, resampled, resampling>> /\ ~Drained /\ Told' = Told
      BY <1>2 DEF Produce, Unseen, storageVars, windowVars, resamplerVars, Drained, Told
    <2>2. PartsOK'
      BY <1>1, <1>2, <2>1 DEF Produce, CaptureInv, StorageInv, PartsOK
    <2> QED
      BY <2>1, <2>2, QuietStep DEF StorageInv
  <1>3. CASE Stop
    <2>1. Unseen /\ UNCHANGED <<phase, resampled, resampling>> /\ ~Drained /\ Told' = Told
      BY <1>3 DEF Stop, Unseen, storageVars, windowVars, resamplerVars, Drained, Told
    <2>2. PartsOK'
      BY <1>1, <1>3, <2>1 DEF Stop, CaptureInv, StorageInv, PartsOK
    <2> QED
      BY <2>1, <2>2, QuietStep DEF StorageInv
  <1>4. CASE DecodeFrame \/ UNCHANGED vars
    <2>1. Unseen /\ UNCHANGED <<phase, resampled, resampling, streaming, produced>>
      BY <1>4 DEF DecodeFrame, Unseen, windowVars, resamplerVars, vars, storageVars, captureVars
    <2>2. Told' = Told /\ Drained' = Drained
      BY <2>1 DEF Told, Drained
    <2>3. PartsOK'
      BY <1>1, <2>1 DEF CaptureInv, StorageInv, PartsOK
    <2> QED
      BY <2>1, <2>2, <2>3, QuietStep DEF StorageInv
  <1>5. CASE TakeBuffer
    <2>1. /\ Unseen /\ phase = "idle" /\ phase' = "scan" /\ resampling < produced
          /\ resampling' = resampling + 1 /\ UNCHANGED <<produced, streaming>>
      BY <1>5 DEF TakeBuffer, TakeLogic, TakeRadio, Unseen, storageVars, windowVars
    <2>2. PartsOK' /\ resampling \in Nat
      BY <1>1, <2>1 DEF CaptureInv, StorageInv, PartsOK
    <2>3. Told' = Told
      <3>1. resampling' - 1 = resampling
        BY <2>1, <2>2
      <3>2. Told' = (resampling' - 1) * BlockLength
        BY <2>1 DEF Told
      <3>3. Told = resampling * BlockLength
        BY <2>1 DEF Told
      <3> QED
        BY <3>1, <3>2, <3>3, Zenon
    <2>4. ~Drained
      BY <2>1, <2>2 DEF Drained
    <2> QED
      BY <2>1, <2>2, <2>3, <2>4, QuietStep DEF StorageInv
  <1>6. CASE ScanBuffer
    <2>1. /\ Unseen /\ phase = "scan" /\ phase' \in {"scan", "storage"}
          /\ UNCHANGED <<produced, streaming, resampling>>
      BY <1>6 DEF ScanBuffer, ScanLogic, ScanRadio, Scanning, Flip, Unseen, storageVars, windowVars, captureVars
    <2>2. PartsOK'
      BY <1>1, <2>1 DEF CaptureInv, StorageInv, PartsOK
    <2>3. Told' = Told /\ ~Drained
      BY <2>1 DEF Told, Drained
    <2> QED
      BY <2>1, <2>2, <2>3, QuietStep DEF StorageInv
  <1> QED
    BY <1>2, <1>3, <1>4, <1>5, <1>6

-----------------------------------------------------------------------------
(* What of the invariant a step leaves alone: of the values of a radio       *)
(* capture, ...                                                              *)
LEMMA ShortsKept ==
  ASSUME Shorts, UNCHANGED <<signalCache, kind>>
  PROVE  Shorts'
  BY CacheKept DEF Shorts

(* ... of the cache and what comes next, ... *)
LEMMA ChainKept ==
  ASSUME Chain, UNCHANGED <<signalCache, streaming, produced, resampling, phase>>,
         job' \in Loads' => job' = job
  PROVE  Chain'
  <1>1. Cached' = Cached /\ Told' = Told /\ Drained' = Drained /\ Loads' = Loads
    BY CacheKept DEF Told, Drained, Loads
  <1> QED
    BY <1>1 DEF Chain, Gaps, Ends

(* ... and of what is in sight. *)
LEMMA CoveredKept ==
  ASSUME Covered, UNCHANGED <<signalCache, kind, phase, resampled, resampling, events, data, receivedTime>>,
         commandQueue' \in Seq(Writes \cup Reads) => commandQueue \in Seq(Writes \cup Reads)
  PROVE  Covered'
  <1>1. Cached' = Cached
    BY CacheKept
  <1>2. \A x : InSight(x)' = InSight(x)
    BY DEF InSight, Lies, Extent, Buffer, Absolute
  <1> QED
    BY <1>1, <1>2 DEF Covered

(* The commands of the queue without the first. *)
LEMMA QueueTail ==
  ASSUME NEW S, NEW q \in Seq(S), q # <<>>, NEW R
  PROVE  /\ Head(q) \in S /\ Tail(q) \in Seq(S)
         /\ q \in Seq(R) => Head(q) \in R /\ Tail(q) \in Seq(R)
         /\ Tail(q) \in Seq(R) /\ Head(q) \in R => q \in Seq(R)
  <1>1. Head(q) \in S /\ Tail(q) \in Seq(S) /\ (q \in Seq(R) => Head(q) \in R /\ Tail(q) \in Seq(R))
    OBVIOUS
  <1>2. ASSUME Tail(q) \in Seq(R), Head(q) \in R PROVE q \in Seq(R)
    <2>1. ASSUME NEW n \in 1..Len(q) PROVE q[n] \in R
      <3>1. CASE n = 1
        BY <1>2, <3>1
      <3>2. CASE n # 1
        <4>1. n - 1 \in 1..Len(Tail(q)) /\ Tail(q)[n - 1] = q[n]
          BY <3>2
        <4> QED
          BY <1>2, <4>1
      <3> QED
        BY <3>1, <3>2
    <2> QED
      BY <2>1
  <1> QED
    BY <1>1, <1>2

(* A queue with more commands. *)
LEMMA QueueConcat ==
  ASSUME NEW S, NEW q \in Seq(S), NEW t \in Seq(S), NEW R
  PROVE  /\ q \o t \in Seq(S)
         /\ q \in Seq(R) /\ t \in Seq(R) => q \o t \in Seq(R)
         /\ q \o t \in Seq(R) => q \in Seq(R) /\ t \in Seq(R)
  <1>1. /\ q \o t \in Seq(S)
        /\ q \in Seq(R) /\ t \in Seq(R) => q \o t \in Seq(R)
    OBVIOUS
  <1>2. ASSUME q \o t \in Seq(R) PROVE q \in Seq(R) /\ t \in Seq(R)
    <2>1. /\ Len(q) \in Nat /\ Len(t) \in Nat /\ Len(q \o t) = Len(q) + Len(t)
          /\ \A n \in 1..Len(q) : (q \o t)[n] = q[n]
          /\ \A n \in 1..Len(t) : (q \o t)[Len(q) + n] = t[n]
      OBVIOUS
    <2>2. \A n \in 1..Len(q) + Len(t) : (q \o t)[n] \in R
      BY <1>2, <2>1
    <2>3. ASSUME NEW n \in 1..Len(q) PROVE q[n] \in R
      <3>1. n \in 1..Len(q) + Len(t)
        BY <2>1
      <3> QED
        BY <2>1, <2>2, <3>1
    <2>4. ASSUME NEW n \in 1..Len(t) PROVE t[n] \in R
      <3> DEFINE m == Len(q) + n
      <3>1. m \in 1..Len(q) + Len(t) /\ (q \o t)[m] = t[n]
        BY <2>1
      <3> HIDE DEF m
      <3> QED
        BY <2>2, <3>1
    <2> QED
      BY <2>3, <2>4
  <1> QED
    BY <1>1, <1>2

(* What the kinds of commands are to each other, ... *)
LEMMA CommandKinds ==
  /\ \A c \in Commands : /\ c.op = "write" => c \in Writes
                         /\ c.op = "read" => c \in Reads
                         /\ c.op = "clear" => c \notin Writes \cup Reads /\
                                              (c \in Clears \/ c.then = <<[op |-> "read"]>>)
                         /\ c.op \in {"write", "read", "clear"}
  /\ \A c \in Clears : c.op = "clear" /\ c.then = <<>>
  /\ \A c \in Writes : c.op = "write" /\ c.from \in Int /\ c.to \in Int
  BY DEF Commands, Writes, Reads, Clears

(* ... and the kinds of jobs. *)
LEMMA JobKinds ==
  /\ Idle \notin Saves /\ Idle \notin Loads /\ Idle.op = "idle"
  /\ \A j \in Saves : j \notin Loads /\ j.op \in {"count", "body"}
  /\ \A j \in Loads : j.op = "read"
  BY DEF Idle, Saves, Loads

-----------------------------------------------------------------------------
(* The storage thread alone is at work.                                      *)
OthersRest == UNCHANGED <<resamplerVars, windowVars, captureVars>>

(* A cleared cache holds no points, ... *)
LEMMA CacheCleared ==
  ASSUME signalCache' = <<>>
  PROVE  Cached' = <<>>
  <1> DEFINE none == <<>>
  <1>1. none \in Seq(Seq(Spots)) /\ Len(none) = 0
    OBVIOUS
  <1>2. [k \in DOMAIN signalCache' |-> Absolute(signalCache'[k])] = none
    OBVIOUS
  <1>3. FlattenSeq(none) = none
    BY <1>1, Zenon DEF FlattenSeq
  <1> HIDE DEF none
  <1>4. Cached' = none
    BY <1>2, <1>3 DEF Cached, Absolute
  <1> QED
    BY <1>4 DEF none

(* Nothing of a capture is in an empty cache. *)
LEMMA Emptied ==
  ASSUME signalCache' = <<>>, UNCHANGED <<kind, data, receivedTime>>, Covered, job' \notin Saves', job'.op # "body"
  PROVE  Shorts' /\ Covered' /\ Saving' /\ Coded' /\ Gaps(Cached)'
  <1>1. Cached' = <<>>
    BY CacheCleared
  <1>2. Gaps(Cached)'
    BY <1>1 DEF Gaps
  <1>3. Shorts'
    BY <1>1 DEF Shorts
  <1>4. Covered'
    BY <1>1 DEF Covered
  <1>5. Saving'
    BY DEF Saving
  <1>6. Coded'
    BY DEF Coded
  <1> QED
    BY <1>2, <1>3, <1>4, <1>5, <1>6

(* A clear keeps the invariant. *)
LEMMA ClearStep ==
  ASSUME CaptureInv, Clear, OthersRest
  PROVE  StorageInv'
  <1> DEFINE q == commandQueue
             c == Head(commandQueue)
  <1>1. /\ q # <<>> /\ job = Idle /\ c.op = "clear" /\ q' = Tail(q) \o c.then
        /\ signalCache' = <<>> /\ UNCHANGED <<job, file>>
        /\ UNCHANGED <<kind, phase, resampled, events, data, logicView, radioView, receivedTime>>
        /\ UNCHANGED <<streaming, produced, resampling>>
    BY DEF Clear, Command, OthersRest, resamplerVars, windowVars, captureVars
  <1>2. PartsOK /\ q \in Seq(Commands)
    BY DEF CaptureInv, StorageInv, PartsOK
  <1>3. c \in Commands /\ Tail(q) \in Seq(Commands)
    BY <1>1, <1>2, QueueTail
  <1>4. c \in Clears \/ c.then = <<[op |-> "read"]>>
    BY <1>1, <1>3, CommandKinds
  <1>5. c.then = <<>> \/ c.then = <<[op |-> "read"]>>
    BY <1>4, CommandKinds
  <1>6. [op |-> "read"] \in Reads /\ Reads \subseteq Commands
    BY DEF Reads, Commands
  <1>7. c.then \in Seq(Commands)
    <2> DEFINE r == [op |-> "read"]
    <2>1. r \in Commands
      BY <1>6
    <2> HIDE DEF r
    <2>2. <<>> \in Seq(Commands) /\ <<r>> \in Seq(Commands)
      BY <2>1
    <2> QED
      BY <1>5, <2>2 DEF r
  <1>8. q' \in Seq(Commands)
    BY <1>1, <1>3, <1>7, QueueConcat
  <1>9. ASSUME NEW R, q \in Seq(R \cup Clears), \A w \in R : w.op # "clear"
        PROVE  q' \in Seq(R \cup Clears)
    <2>1. c \in R \cup Clears /\ Tail(q) \in Seq(R \cup Clears)
      BY <1>1, <1>9, QueueTail
    <2>2. c.then = <<>>
      BY <1>1, <1>9, <2>1, CommandKinds
    <2>3. q' = Tail(q) \o <<>>
      BY <1>1, <2>2
    <2>4. Tail(q) \o <<>> = Tail(q)
      BY <2>1
    <2> QED
      BY <2>1, <2>3, <2>4
  <1> HIDE DEF q, c
  <1>10. PartsOK'
    BY <1>1, <1>2, <1>8 DEF PartsOK, Files, q
  <1>11. Told' = Told /\ Drained' = Drained
    BY <1>1 DEF Told, Drained
  <1>12. Cached' = <<>> /\ job' = Idle /\ job' \notin Saves' /\ job' \notin Loads' /\ job'.op = "idle"
    BY <1>1, CacheCleared, JobKinds DEF Saves, Loads, Idle
  <1>13. Ahead'
    <2> SUFFICES ASSUME ~Drained' PROVE Ahead'
      BY DEF Ahead
    <2> DEFINE R == {w \in Writes : w.to < Told}
    <2>1. q \in Seq(R \cup Clears)
      BY <1>11 DEF CaptureInv, StorageInv, Ahead, q
    <2>2. \A w \in R : w.op # "clear"
      BY CommandKinds
    <2>3. q' \in Seq(R \cup Clears)
      BY <1>9, <2>1, <2>2
    <2> QED
      BY <1>1, <1>11, <1>12, <2>3 DEF CaptureInv, StorageInv, Ahead, Early, q
  <1>14. Saved'
    <2>1. \A w \in Writes : w.op # "clear"
      BY CommandKinds
    <2>2. file = NoFile => q' \in Seq(Writes \cup Clears)
      BY <1>9, <2>1 DEF CaptureInv, StorageInv, Saved, q
    <2> QED
      BY <1>1, <1>12, <2>2, JobKinds DEF CaptureInv, StorageInv, Saved, q
  <1>15. Chain' /\ Loading'
    BY <1>1, <1>12, Emptied DEF Chain, Loading, CaptureInv, StorageInv
  <1>16. Shorts' /\ Covered' /\ Saving' /\ Coded'
    BY <1>1, <1>12, Emptied DEF CaptureInv, StorageInv
  <1> QED
    BY <1>10, <1>13, <1>14, <1>15, <1>16 DEF StorageInv

(* A save begins. *)
LEMMA WriteStep ==
  ASSUME CaptureInv, Write, OthersRest
  PROVE  StorageInv'
  <1> DEFINE q == commandQueue
             c == Head(commandQueue)
  <1>1. PICK start \in Truncated(c.from), end \in Truncated(c.to) :
          /\ q # <<>> /\ job = Idle /\ c.op = "write" /\ q' = Tail(q)
          /\ file' = [op |-> IF signalCache = <<>> THEN "complete" ELSE "writing",
                      frames |-> file'.frames, start |-> 0, total |-> 0, body |-> <<>>]
          /\ job' = IF signalCache = <<>> THEN Idle
                    ELSE [op |-> "count", start |-> start, end |-> end, next |-> 1,
                          offset |-> start, sample |-> 0]
          /\ UNCHANGED signalCache
    BY DEF Write, Command, Dequeue
  <1>2. /\ UNCHANGED <<kind, phase, resampled, events, data, logicView, radioView, receivedTime>>
        /\ UNCHANGED <<streaming, produced, resampling>>
    BY DEF OthersRest, resamplerVars, windowVars, captureVars
  <1>3. PartsOK /\ q \in Seq(Commands) /\ signalCache \in Seq(Buffers)
    BY DEF CaptureInv, StorageInv, PartsOK
  <1>4. c \in Commands /\ c \in Writes /\ q' \in Seq(Commands)
    BY <1>1, <1>3, QueueTail, CommandKinds
  <1>5. start \in Int /\ end \in Int /\ end <= c.to
    BY <1>1, <1>4, CommandKinds DEF Truncated
  <1>6. \A R : q \in Seq(R) => c \in R /\ q' \in Seq(R)
    BY <1>1, <1>3, QueueTail
  <1>7. \A R : q' \in Seq(R) /\ c \in R => q \in Seq(R)
    BY <1>1, <1>3, QueueTail
  <1> HIDE DEF q, c
  <1>8. job' = Idle \/ (job' \in Saves' /\ job'.op = "count" /\ signalCache # <<>>)
    BY <1>1, <1>5 DEF Saves
  <1>9. file' \in Files' /\ file' # NoFile
    <2> DEFINE frames == file'.frames
    <2>1. \E op \in {"complete", "writing"} :
            file' = [op |-> op, frames |-> frames, start |-> 0, total |-> 0, body |-> <<>>]
      BY <1>1
    <2>2. Files' = [op : {"writing", "complete"}, frames : {frames}, start : Int, total : Nat,
                    body : Seq(Entries)]
      BY DEF Files, Entries
    <2> HIDE DEF frames
    <2> QED
      BY <2>1, <2>2 DEF NoFile
  <1>10. PartsOK'
    BY <1>1, <1>2, <1>3, <1>4, <1>8, <1>9 DEF PartsOK, q
  <1>11. Told' = Told /\ Drained' = Drained /\ job' \notin Loads' /\ job'.op # "body"
    BY <1>1, <1>2, <1>8, JobKinds DEF Told, Drained, Loads, Idle
  <1>12. Ahead'
    <2> SUFFICES ASSUME ~Drained' PROVE Ahead'
      BY DEF Ahead
    <2> DEFINE R == {w \in Writes : w.to < Told}
    <2>1. q \in Seq(R \cup Clears) /\ Told \in Int
      <3>1. Told \in Int
        BY <1>3, ResamplingAssumption DEF Told, PartsOK
      <3> QED
        BY <1>11, <3>1 DEF CaptureInv, StorageInv, Ahead, q
    <2>2. q' \in Seq(R \cup Clears) /\ c \in R \cup Clears
      BY <1>6, <2>1
    <2>3. c \in R
      BY <1>1, <2>2, CommandKinds
    <2>4. c.to \in Int /\ c.to < Told
      BY <2>3, CommandKinds
    <2>5. end < Told
      BY <1>5, <2>1, <2>4
    <2>6. job' \in Saves' => job'.end < Told
      <3>1. job' = Idle \/ job'.end = end
        BY <1>1
      <3>2. Idle \notin Saves'
        BY DEF Idle, Saves
      <3> QED
        BY <2>5, <3>1, <3>2
    <2> QED
      BY <1>2, <1>11, <2>2, <2>6 DEF CaptureInv, StorageInv, Ahead, Early, q
  <1>13. Chain'
    BY <1>1, <1>2, <1>11, ChainKept DEF CaptureInv, StorageInv
  <1>14. Saving'
    <2> SUFFICES ASSUME job' \in Saves' PROVE Saving'
      BY DEF Saving
    <2>1. job'.op = "count" /\ signalCache # <<>>
      BY <1>8, JobKinds DEF Idle, Saves
    <2>2. /\ job'.next = 1 /\ job'.offset = job'.start /\ job'.sample = 0
          /\ file'.body = <<>> /\ file'.total = 0 /\ file'.op = "writing"
      BY <1>1, <2>1
    <2>3. Picked(0)' = <<>>
      BY JoinedNothing, WithinNothing DEF Picked
    <2>4. Len(signalCache) \in Nat /\ job'.next <= Len(signalCache) + 1 /\ job'.next - 1 = 0
      BY <1>3, <2>2
    <2>5. file'.total = Len(Picked(job.next - 1)')
      BY <2>2, <2>3, <2>4
    <2> QED
      BY <1>1, <1>9, <2>1, <2>2, <2>4, <2>5 DEF Saving
  <1>15. Saved'
    <2>1. job' \notin Saves' => signalCache = <<>>
      <3>1. signalCache # <<>> => job'.op = "count"
        BY <1>1
      <3>2. job' = Idle => job'.op = "idle"
        BY DEF Idle
      <3> QED
        BY <1>8, <3>1, <3>2
    <2>2. file'.op = "complete" => file'.body = <<>> /\ file'.total = 0
      BY <1>1
    <2>3. signalCache = <<>> => file'.op = "complete"
      BY <1>1
    <2> QED
      BY <1>9, <2>1, <2>2, <2>3 DEF Saved
  <1>16. Coded' /\ Loading'
    BY <1>11 DEF Coded, Loading
  <1>17. Shorts'
    BY <1>1, <1>2, ShortsKept DEF CaptureInv, StorageInv
  <1>18. Covered'
    <2>1. commandQueue' \in Seq(Writes \cup Reads) => commandQueue \in Seq(Writes \cup Reads)
      BY <1>4, <1>7 DEF q
    <2> QED
      BY <1>1, <1>2, <2>1, CoveredKept DEF CaptureInv, StorageInv
  <1> QED
    BY <1>10, <1>12, <1>13, <1>14, <1>15, <1>16, <1>17, <1>18 DEF StorageInv

(* The steps of a save leave the queue and the cache alone. *)
LEMMA WithinSave ==
  ASSUME CaptureInv, OthersRest, UNCHANGED <<signalCache, commandQueue>>,
         job \in Saves, job' = Idle \/ (job' \in Saves' /\ job'.end = job.end), file' \in Files'
  PROVE  PartsOK' /\ Ahead' /\ Chain' /\ Loading' /\ Shorts' /\ Covered'
  <1>1. /\ UNCHANGED <<kind, phase, resampled, events, data, logicView, radioView, receivedTime>>
        /\ UNCHANGED <<streaming, produced, resampling>>
    BY DEF OthersRest, resamplerVars, windowVars, captureVars
  <1>2. PartsOK'
    BY <1>1 DEF CaptureInv, StorageInv, PartsOK
  <1>3. Told' = Told /\ Drained' = Drained /\ job' \notin Loads' /\ Saves' = Saves /\ Idle \notin Saves
    BY <1>1, JobKinds DEF Told, Drained, Loads, Idle, Saves
  <1>4. Ahead'
    BY <1>1, <1>3 DEF CaptureInv, StorageInv, Ahead, Early
  <1>5. Chain'
    BY <1>1, <1>3, ChainKept DEF CaptureInv, StorageInv
  <1>6. Shorts' /\ Covered'
    BY <1>1, ShortsKept, CoveredKept DEF CaptureInv, StorageInv
  <1>7. Loading'
    BY <1>3 DEF Loading
  <1> QED
    BY <1>2, <1>4, <1>5, <1>6, <1>7

(* ... and what was chosen is chosen still. *)
LEMMA PickedKept ==
  ASSUME UNCHANGED signalCache, job'.start = job.start, job'.end = job.end
  PROVE  Selection' = Selection /\ \A n : Picked(n)' = Picked(n)
  BY CacheKept DEF Selection, Picked

(* A save counts the points of a buffer. *)
LEMMA CountBufferStep ==
  ASSUME CaptureInv, CountBuffer, OthersRest
  PROVE  StorageInv'
  <1> DEFINE chosen == InRange(signalCache[job.next], job.start, job.end)
  <1>1. /\ job.op = "count" /\ job.next <= Len(signalCache) /\ UNCHANGED <<signalCache, commandQueue>>
        /\ file' = [file EXCEPT !.total = @ + Len(chosen)] /\ job' = [job EXCEPT !.next = @ + 1]
    BY DEF CountBuffer, More, Chosen
  <1>2. PartsOK /\ job \in Saves /\ signalCache \in Seq(Buffers) /\ Len(signalCache) \in Nat
    BY <1>1, JobKinds DEF CaptureInv, StorageInv, PartsOK
  <1>3. /\ file \in Files /\ file.op = "writing" /\ file.body = <<>>
        /\ signalCache # <<>> /\ file.total = Len(Picked(job.next - 1))
        /\ job.offset = job.start /\ job.sample = 0
    BY <1>1, <1>2 DEF CaptureInv, StorageInv, Saving
  <1>4. job.next \in 1..Len(signalCache) /\ job.next - 1 \in 0..Len(signalCache)
    BY <1>1, <1>2 DEF Saves
  <1>5. /\ chosen \in Seq(Spots) /\ Picked(job.next - 1) \in Seq(Spots)
        /\ Picked(job.next) = Picked(job.next - 1) \o chosen
    BY <1>2, <1>4, PickedParts
  <1> HIDE DEF chosen
  <1>6. /\ job' \in Saves' /\ job'.next = job.next + 1 /\ job'.op = "count" /\ job'.start = job.start
        /\ job'.end = job.end /\ job'.offset = job.offset /\ job'.sample = job.sample
    BY <1>1, <1>2 DEF Saves
  <1>7. Len(chosen) \in Nat /\ Len(Picked(job.next)) = Len(Picked(job.next - 1)) + Len(chosen)
    BY <1>5
  <1>8. /\ file' \in Files' /\ file'.op = "writing" /\ file'.body = <<>>
        /\ file'.total = file.total + Len(chosen)
    BY <1>1, <1>3, <1>7 DEF Files
  <1>9. job'.next - 1 = job.next /\ job'.next <= Len(signalCache) + 1
    BY <1>1, <1>2, <1>4, <1>6
  <1>10. Picked(job.next - 1)' = Picked(job.next)
    BY <1>1, <1>6, <1>9, PickedKept
  <1>11. Saving'
    BY <1>1, <1>3, <1>6, <1>7, <1>8, <1>9, <1>10 DEF Saving
  <1>12. Saved' /\ Coded'
    BY <1>6, <1>8 DEF Saved, Coded, Files, NoFile
  <1> QED
    BY <1>1, <1>2, <1>6, <1>8, <1>11, <1>12, WithinSave DEF StorageInv

(* A save writes the header, with what it counted. *)
LEMMA WriteHeaderStep ==
  ASSUME CaptureInv, WriteHeader, OthersRest
  PROVE  StorageInv'
  <1>1. /\ job.op = "count" /\ ~ (job.next <= Len(signalCache)) /\ UNCHANGED <<signalCache, commandQueue>>
        /\ file' = [file EXCEPT !.start = StartOffset] /\ job' = [job EXCEPT !.op = "body", !.next = 1]
    BY DEF WriteHeader, More
  <1>2. PartsOK /\ job \in Saves /\ signalCache \in Seq(Buffers) /\ Len(signalCache) \in Nat
    BY <1>1, JobKinds DEF CaptureInv, StorageInv, PartsOK
  <1>3. /\ file \in Files /\ file.op = "writing" /\ file.body = <<>>
        /\ signalCache # <<>> /\ file.total = Len(Picked(job.next - 1))
        /\ job.offset = job.start /\ job.sample = 0 /\ job.next <= Len(signalCache) + 1
    BY <1>1, <1>2 DEF CaptureInv, StorageInv, Saving
  <1>4. job.next - 1 = Len(signalCache)
    BY <1>1, <1>2, <1>3 DEF Saves
  <1>5. file.total = Len(Selection) /\ Picked(0) = <<>>
    BY <1>2, <1>3, <1>4, PickedParts
  <1>6. /\ job' \in Saves' /\ job'.next = 1 /\ job'.op = "body" /\ job'.start = job.start
        /\ job'.end = job.end /\ job'.offset = job.offset /\ job'.sample = job.sample
    <2>1. job' = [op |-> "body", start |-> job.start, end |-> job.end, next |-> 1,
                  offset |-> job.offset, sample |-> job.sample]
      BY <1>1, <1>2 DEF Saves
    <2>2. job.start \in Int /\ job.end \in Int /\ job.offset \in Int /\ job.sample \in Int
      BY <1>2 DEF Saves
    <2> QED
      BY <2>1, <2>2 DEF Saves
  <1>7. StartOffset \in Int
    <2>1. signalCache[1] \in Buffers
      BY <1>2, <1>3
    <2> QED
      BY <1>2, <2>1 DEF StartOffset, Buffers, Saves
  <1>8. /\ file' \in Files' /\ file'.op = "writing" /\ file'.body = <<>>
        /\ file'.total = file.total /\ file'.start = StartOffset
    BY <1>1, <1>3, <1>7 DEF Files
  <1>9. Picked(0)' = <<>> /\ Selection' = Selection /\ StartOffset' = StartOffset
    <2>1. StartOffset' = StartOffset
      BY <1>1, <1>6 DEF StartOffset, OthersRest, resamplerVars
    <2> QED
      BY <1>1, <1>5, <1>6, <2>1, PickedKept
  <1>10. job'.next - 1 = 0 /\ job'.next <= Len(signalCache) + 1
    BY <1>2, <1>6
  <1>11. Picked(job.next - 1)' = <<>>
    BY <1>9, <1>10
  <1>12. Saving'
    BY <1>1, <1>3, <1>5, <1>6, <1>8, <1>9, <1>10, <1>11 DEF Saving
  <1>13. Saved'
    BY <1>6, <1>8 DEF Saved, NoFile
  <1>14. Coded'
    BY <1>3, <1>6, <1>11 DEF Coded
  <1> QED
    BY <1>1, <1>2, <1>6, <1>8, <1>12, <1>13, <1>14, WithinSave DEF StorageInv

(* A save closes the file, which holds what the header announced. *)
LEMMA CloseFileStep ==
  ASSUME CaptureInv, CloseFile, OthersRest
  PROVE  StorageInv'
  <1>1. /\ job.op = "body" /\ ~ (job.next <= Len(signalCache)) /\ UNCHANGED <<signalCache, commandQueue>>
        /\ file' = [file EXCEPT !.op = "complete"] /\ job' = Idle
    BY DEF CloseFile, More
  <1>2. PartsOK /\ job \in Saves /\ signalCache \in Seq(Buffers) /\ Len(signalCache) \in Nat
    BY <1>1, JobKinds DEF CaptureInv, StorageInv, PartsOK
  <1>3. /\ file \in Files /\ job.next <= Len(signalCache) + 1
        /\ file.total = Len(Selection) /\ Len(file.body) = Len(Picked(job.next - 1))
    BY <1>1, <1>2 DEF CaptureInv, StorageInv, Saving
  <1>4. job.next - 1 = Len(signalCache)
    BY <1>1, <1>2, <1>3 DEF Saves
  <1>5. Len(file.body) = file.total
    BY <1>2, <1>3, <1>4, PickedParts
  <1>6. /\ file' \in Files' /\ file'.op = "complete" /\ file'.body = file.body
        /\ file'.total = file.total
    BY <1>1, <1>3 DEF Files
  <1>7. job' \notin Saves' /\ job'.op = "idle" /\ job' \notin Loads'
    BY <1>1, JobKinds DEF Idle, Saves, Loads
  <1>8. Saving' /\ Coded' /\ Saved'
    BY <1>5, <1>6, <1>7 DEF Saving, Coded, Saved, NoFile
  <1> QED
    BY <1>1, <1>2, <1>6, <1>8, WithinSave DEF StorageInv

(* A sequence after another. *)
LEMMA ConcatParts ==
  ASSUME NEW S, NEW s \in Seq(S), NEW t \in Seq(S)
  PROVE  /\ s \o t \in Seq(S) /\ Len(s \o t) = Len(s) + Len(t)
         /\ \A n \in 1..Len(s) : (s \o t)[n] = s[n]
         /\ \A n \in 1..Len(t) : (s \o t)[Len(s) + n] = t[n]
  OBVIOUS

(* The code of the points of a buffer. *)
LEMMA EncodedPoints ==
  ASSUME StorageAssumption, NEW points \in Seq(Spots), job.offset \in Int, job.sample \in Int
  PROVE  /\ Encoded(points) \in Seq(Entries) /\ Len(Encoded(points)) = Len(points)
         /\ \A n \in 1..Len(points) :
              Encoded(points)[n] = CodeAfter(points, n, job.offset, job.sample)
  <1>1. DOMAIN points = 1..Len(points) /\ Len(points) \in Nat /\ \A n \in 1..Len(points) : points[n] \in Spots
    OBVIOUS
  <1>2. Encoded(points) = [n \in 1..Len(points) |-> CodeAfter(points, n, job.offset, job.sample)]
    <2> DEFINE First == [delta |-> (points[1].at - job.offset) % DeltaModulus,
                         value |-> Difference(points[1].value, job.sample)]
               Later(n) == [delta |-> (points[n].at - points[n - 1].at) % DeltaModulus,
                            value |-> Difference(points[n].value, points[n - 1].value)]
    <2>1. Encoded(points) = [n \in 1..Len(points) |-> IF n = 1 THEN First ELSE Later(n)]
      BY <1>1, Zenon DEF Encoded
    <2>2. CodeAfter(points, 1, job.offset, job.sample) = First
      BY DEF CodeAfter
    <2>3. \A n \in 1..Len(points) : n # 1 => CodeAfter(points, n, job.offset, job.sample) = Later(n)
      BY DEF CodeAfter
    <2> HIDE DEF First, Later
    <2>4. \A n \in 1..Len(points) :
             CodeAfter(points, n, job.offset, job.sample) = IF n = 1 THEN First ELSE Later(n)
      BY <2>2, <2>3
    <2> QED
      BY <2>1, <2>4
  <1>3. ASSUME NEW n \in 1..Len(points)
        PROVE  CodeAfter(points, n, job.offset, job.sample) \in Entries
    <2> DEFINE at == IF n = 1 THEN job.offset ELSE points[n - 1].at
               value == IF n = 1 THEN job.sample ELSE points[n - 1].value
               x == points[n].at
               v == points[n].value
    <2>1. n # 1 => n - 1 \in 1..Len(points)
      BY <1>1
    <2>2. x \in Int /\ v \in Int /\ at \in Int /\ value \in Int
      <3>1. \A p \in Spots : p.at \in Int /\ p.value \in Int
        BY DEF Spots
      <3> QED
        BY <1>1, <2>1, <3>1
    <2>3. CodeAfter(points, n, job.offset, job.sample) =
            [delta |-> (x - at) % DeltaModulus, value |-> Difference(v, value)]
      BY DEF CodeAfter
    <2> HIDE DEF at, value, x, v
    <2>4. \A y \in Int : y % DeltaModulus \in 0..Interval /\ y % SampleModulus \in Int
      BY ResamplingAssumption DEF StorageAssumption
    <2>5. x - at \in Int /\ v - value \in Int
      BY <2>2
    <2>6. (x - at) % DeltaModulus \in 0..Interval /\ (v - value) % SampleModulus \in Int
      BY <2>4, <2>5
    <2>7. Difference(v, value) \in Int
      BY <2>2, <2>6 DEF Difference
    <2> QED
      BY <2>3, <2>6, <2>7 DEF Entries
  <1>4. Encoded(points) \in [1..Len(points) -> Entries]
    BY <1>2, <1>3
  <1>5. Encoded(points) \in Seq(Entries) /\ Len(Encoded(points)) = Len(points)
    BY <1>1, <1>4
  <1>6. \A n \in 1..Len(points) :
          Encoded(points)[n] = CodeAfter(points, n, job.offset, job.sample)
    BY <1>2
  <1> QED
    BY <1>5, <1>6

(* A save writes the points of a buffer, each by its distance to the last. *)
LEMMA WriteBufferStep ==
  ASSUME CaptureInv, StorageAssumption, WriteBuffer, OthersRest
  PROVE  StorageInv'
  <1> DEFINE chosen == InRange(signalCache[job.next], job.start, job.end)
             before == Picked(job.next - 1)
             after == Picked(job.next)
             N == Len(before)
             new == Encoded(chosen)
  <1>1. /\ job.op = "body" /\ job.next <= Len(signalCache) /\ UNCHANGED <<signalCache, commandQueue>>
        /\ file' = [file EXCEPT !.body = @ \o new]
        /\ job' = IF chosen = <<>> THEN [job EXCEPT !.next = @ + 1]
                  ELSE [job EXCEPT !.next = @ + 1, !.offset = chosen[Len(chosen)].at,
                                   !.sample = chosen[Len(chosen)].value]
    BY DEF WriteBuffer, More, Chosen, Last
  <1>2. /\ PartsOK /\ job \in Saves /\ signalCache \in Seq(Buffers) /\ Len(signalCache) \in Nat
        /\ kind \in Kinds
    BY <1>1, JobKinds DEF CaptureInv, StorageInv, PartsOK, Inv, ResamplerTypeOK
  <1>3. /\ file \in Files /\ file.op = "writing" /\ signalCache # <<>>
        /\ file.start = StartOffset /\ file.total = Len(Selection)
        /\ Len(file.body) = Len(before)
    BY <1>1, <1>2 DEF CaptureInv, StorageInv, Saving
  <1>4. /\ \A n \in 1..Len(before) : file.body[n] = Code(before, n)
        /\ job.offset = IF before = <<>> THEN job.start ELSE Ends(before)
        /\ job.sample = IF before = <<>> THEN 0 ELSE before[Len(before)].value
    BY <1>1 DEF CaptureInv, StorageInv, Coded
  <1>5. job.next \in 1..Len(signalCache) /\ job.next - 1 \in 0..Len(signalCache)
    BY <1>1, <1>2 DEF Saves
  <1>6. chosen \in Seq(Spots) /\ before \in Seq(Spots) /\ after = before \o chosen
    BY <1>2, <1>5, PickedParts
  <1>7. job.offset \in Int /\ job.sample \in Int
    BY <1>2 DEF Saves
  <1> HIDE DEF chosen, before, after
  <1>8. /\ new \in Seq(Entries) /\ Len(new) = Len(chosen)
        /\ \A n \in 1..Len(chosen) : new[n] = CodeAfter(chosen, n, job.offset, job.sample)
    BY <1>6, <1>7, EncodedPoints
  <1> HIDE DEF new
  <1>9. /\ N \in Nat /\ Len(chosen) \in Nat /\ Len(after) = N + Len(chosen) /\ after \in Seq(Spots)
        /\ \A n \in 1..N : after[n] = before[n]
        /\ \A n \in 1..Len(chosen) : after[N + n] = chosen[n]
    BY <1>6
  <1>a. file.body \in Seq(Entries) /\ Len(file.body) = N
    BY <1>3 DEF Files
  <1>b. /\ file.body \o new \in Seq(Entries) /\ Len(file.body \o new) = N + Len(chosen)
        /\ \A n \in 1..N : (file.body \o new)[n] = file.body[n]
        /\ \A n \in 1..Len(chosen) : (file.body \o new)[N + n] = new[n]
    <2> DEFINE body == file.body
               more == body \o new
    <2>1. body \in Seq(Entries) /\ Len(body) = N /\ new \in Seq(Entries) /\ Len(new) = Len(chosen)
      BY <1>8, <1>a
    <2>4. more = body \o new
      OBVIOUS
    <2> HIDE DEF body, N, more
    <2>5. body \in Seq(Entries) /\ new \in Seq(Entries)
      BY <2>1
    <2>6. body \o new \in Seq(Entries)
      BY <2>5, ConcatParts
    <2>7. Len(body \o new) = Len(body) + Len(new)
      BY <2>5, ConcatParts
    <2>8. \A n \in 1..Len(body) : (body \o new)[n] = body[n]
      BY <2>5, ConcatParts
    <2>9. \A n \in 1..Len(new) : (body \o new)[Len(body) + n] = new[n]
      BY <2>5, ConcatParts
    <2>2. /\ more \in Seq(Entries) /\ Len(more) = Len(body) + Len(new)
          /\ \A n \in 1..Len(body) : more[n] = body[n]
          /\ \A n \in 1..Len(new) : more[Len(body) + n] = new[n]
      BY <2>4, <2>6, <2>7, <2>8, <2>9
    <2>3. /\ more \in Seq(Entries) /\ Len(more) = N + Len(chosen)
          /\ \A n \in 1..N : more[n] = body[n]
          /\ \A n \in 1..Len(chosen) : more[N + n] = new[n]
      BY <2>1, <2>2
    <2> QED
      BY <2>3 DEF more, body
  <1>10. /\ file' \in Files' /\ file'.op = "writing" /\ file'.total = file.total
         /\ file'.start = file.start /\ file'.body = file.body \o new
    <2> DEFINE body == file.body \o new
    <2>1. body \in Seq(Entries) /\ file' = [file EXCEPT !.body = body]
      BY <1>1, <1>b
    <2> HIDE DEF body
    <2>2. /\ file' \in Files' /\ file'.op = "writing" /\ file'.total = file.total
          /\ file'.start = file.start /\ file'.body = body
      BY <1>3, <2>1 DEF Files
    <2> QED
      BY <2>2 DEF body
  <1>11. /\ Len(file'.body) = N + Len(chosen)
         /\ \A n \in 1..N : file'.body[n] = file.body[n]
         /\ \A n \in 1..Len(chosen) : file'.body[N + n] = new[n]
    BY <1>b, <1>10
  <1>12. chosen # <<>> => /\ Len(chosen) \in 1..Len(chosen)
                          /\ chosen[Len(chosen)].at \in Int /\ chosen[Len(chosen)].value \in Int
    <2> SUFFICES ASSUME chosen # <<>>
                 PROVE  /\ Len(chosen) \in 1..Len(chosen)
                        /\ chosen[Len(chosen)].at \in Int /\ chosen[Len(chosen)].value \in Int
      OBVIOUS
    <2>1. Len(chosen) \in 1..Len(chosen)
      BY <1>6
    <2>2. chosen[Len(chosen)] \in Spots
      BY <1>6, <2>1
    <2> QED
      BY <2>1, <2>2 DEF Spots
  <1>13. /\ job' \in Saves' /\ job'.next = job.next + 1 /\ job'.op = "body" /\ job'.start = job.start
         /\ job'.end = job.end
         /\ chosen = <<>> => job'.offset = job.offset /\ job'.sample = job.sample
         /\ chosen # <<>> => job'.offset = Ends(chosen) /\ job'.sample = chosen[Len(chosen)].value
    <2> DEFINE o == IF chosen = <<>> THEN job.offset ELSE chosen[Len(chosen)].at
               s == IF chosen = <<>> THEN job.sample ELSE chosen[Len(chosen)].value
    <2>1. job' = [op |-> "body", start |-> job.start, end |-> job.end, next |-> job.next + 1,
                  offset |-> o, sample |-> s]
      <3>1. CASE chosen = <<>>
        BY <1>1, <1>2, <3>1 DEF Saves
      <3>2. CASE chosen # <<>>
        BY <1>1, <1>2, <3>2 DEF Saves
      <3> QED
        BY <3>1, <3>2
    <2>2. o \in Int /\ s \in Int /\ job.start \in Int /\ job.end \in Int /\ job.next + 1 \in Nat \ {0}
      BY <1>2, <1>7, <1>12 DEF Saves
    <2> HIDE DEF o, s
    <2>3. /\ job' \in Saves' /\ job'.next = job.next + 1 /\ job'.op = "body" /\ job'.start = job.start
          /\ job'.end = job.end /\ job'.offset = o /\ job'.sample = s
      BY <2>1, <2>2 DEF Saves
    <2> QED
      BY <2>3 DEF o, s, Ends
  <1>14. job'.next - 1 = job.next /\ job'.next <= Len(signalCache) + 1
    BY <1>2, <1>5, <1>13
  <1>15. Picked(job.next - 1)' = after /\ Selection' = Selection /\ StartOffset' = StartOffset
    <2>1. \A n : Picked(n)' = Picked(n)
      BY <1>1, <1>13, PickedKept
    <2>2. StartOffset' = StartOffset
      BY <1>1, <1>13 DEF StartOffset, OthersRest, resamplerVars
    <2>3. Selection' = Selection
      BY <1>1, <1>13, PickedKept
    <2> QED
      BY <1>14, <2>1, <2>2, <2>3 DEF after
  <1>16. Saving'
    BY <1>1, <1>3, <1>9, <1>10, <1>11, <1>13, <1>14, <1>15 DEF Saving
  <1>17. Saved'
    BY <1>10, <1>13 DEF Saved, NoFile
  <1>18. ASSUME NEW n \in 1..Len(after) PROVE file'.body[n] = Code(after, n)
    <2>1. CASE n \in 1..N
      <3>1. file'.body[n] = Code(before, n)
        BY <1>4, <1>11, <2>1
      <3>2. n # 1 => n - 1 \in 1..N
        BY <1>9, <2>1
      <3>3. after[n] = before[n] /\ (n # 1 => after[n - 1] = before[n - 1])
        BY <1>9, <2>1, <3>2
      <3> QED
        BY <3>1, <3>3 DEF Code, CodeAfter
    <2>2. CASE n \notin 1..N
      <3> DEFINE m == n - N
      <3>1. m \in 1..Len(chosen) /\ n = N + m
        BY <1>9, <2>2
      <3>2. m # 1 => m - 1 \in 1..Len(chosen) /\ n - 1 = N + (m - 1) /\ n # 1
        BY <1>9, <3>1
      <3>3. m = 1 => n - 1 = N
        BY <1>9, <3>1
      <3> HIDE DEF m
      <3>4. after[n] = chosen[m] /\ file'.body[n] = new[m]
        BY <1>9, <1>11, <3>1
      <3>5. CASE m # 1
        <4>1. after[n - 1] = chosen[m - 1] /\ n # 1
          BY <1>9, <3>2, <3>5
        <4> QED
          BY <1>8, <3>1, <3>4, <3>5, <4>1 DEF Code, CodeAfter
      <3>6. CASE m = 1 /\ before = <<>>
        <4>1. n = 1
          BY <1>6, <3>1, <3>6
        <4> QED
          BY <1>4, <1>8, <3>1, <3>4, <3>6, <4>1 DEF Code, CodeAfter
      <3>7. CASE m = 1 /\ before # <<>>
        <4>1. N # 0 /\ N \in 1..N
          BY <1>6, <3>7
        <4>2. n # 1 /\ after[n - 1] = before[N]
          BY <1>9, <3>1, <3>3, <3>7, <4>1
        <4> QED
          BY <1>4, <1>8, <3>1, <3>4, <3>7, <4>2 DEF Code, CodeAfter, Ends
      <3> QED
        BY <3>5, <3>6, <3>7
    <2> QED
      BY <2>1, <2>2
  <1>19. /\ job'.offset = IF after = <<>> THEN job'.start ELSE Ends(after)
         /\ job'.sample = IF after = <<>> THEN 0 ELSE after[Len(after)].value
    <2>1. CASE chosen = <<>>
      <3>1. after = before
        BY <1>6, <2>1
      <3> QED
        BY <1>4, <1>13, <2>1, <3>1
    <2>2. CASE chosen # <<>>
      <3>1. after # <<>> /\ after[Len(after)] = chosen[Len(chosen)]
        BY <1>6, <1>9, <1>12, <2>2
      <3> QED
        BY <1>13, <2>2, <3>1 DEF Ends
    <2> QED
      BY <2>1, <2>2
  <1>20. Coded'
    <2>1. kind' = kind
      BY DEF OthersRest, resamplerVars
    <2>2. \A n \in 1..Len(after) :
             file'.body[n] =
               [delta |-> (after[n].at - (IF n = 1 THEN job'.start ELSE after[n - 1].at)) % DeltaModulus,
                value |-> IF kind' = "radio"
                            THEN (after[n].value - (IF n = 1 THEN 0 ELSE after[n - 1].value)) % SampleModulus
                            ELSE after[n].value]
      BY <1>13, <1>18, <2>1 DEF Code, CodeAfter, Difference
    <2> QED
      BY <1>15, <1>19, <2>2 DEF Coded, Code, CodeAfter, Difference
  <1> QED
    BY <1>1, <1>2, <1>10, <1>13, <1>16, <1>17, <1>20, WithinSave DEF StorageInv

(* An opened file is read from its beginning, once it is finished. *)
LEMMA ReadStep ==
  ASSUME CaptureInv, StorageAssumption, Read, OthersRest
  PROVE  StorageInv'
  <1> DEFINE q == commandQueue
             c == Head(commandQueue)
             N == Len(file.body)
  <1>1. /\ q # <<>> /\ job = Idle /\ c.op = "read" /\ q' = Tail(q) /\ signalCache' = <<>> /\ file' = file
        /\ job' = IF file.total = 0 THEN Idle
                  ELSE [op |-> "read", position |-> file.start, sample |-> 0,
                        left |-> SubSeq(file.body, 1, file.total)]
    BY DEF Read, Command, Dequeue
  <1>2. /\ UNCHANGED <<kind, phase, resampled, events, data, logicView, radioView, receivedTime>>
        /\ UNCHANGED <<streaming, produced, resampling>>
    BY DEF OthersRest, resamplerVars, windowVars, captureVars
  <1>3. PartsOK /\ q \in Seq(Commands) /\ Covered /\ Saved /\ Ahead
    BY DEF CaptureInv, StorageInv, PartsOK
  <1>4. q' \in Seq(Commands) /\ \A R : q \in Seq(R) => c \in R /\ q' \in Seq(R)
    BY <1>1, <1>3, QueueTail
  <1> HIDE DEF q, c
  <1>5. file # NoFile
    <2> SUFFICES ASSUME file = NoFile PROVE FALSE
      OBVIOUS
    <2>1. q \in Seq(Writes \cup Clears)
      BY <1>3 DEF Saved, q
    <2>2. c \in Writes \cup Clears
      BY <1>4, <2>1
    <2> QED
      BY <1>1, <2>2, CommandKinds
  <1>6. Drained
    <2> SUFFICES ASSUME ~Drained PROVE FALSE
      OBVIOUS
    <2> DEFINE R == {w \in Writes : w.to < Told}
    <2>1. q \in Seq(R \cup Clears)
      BY <1>3 DEF Ahead, q
    <2>2. c \in R \cup Clears
      BY <1>4, <2>1
    <2> QED
      BY <1>1, <2>2, CommandKinds
  <1>7. file \in Files /\ file.op = "complete"
    BY <1>1, <1>3, <1>5, JobKinds DEF PartsOK, Saved, Files
  <1>8. /\ file.body \in Seq(Entries) /\ N = file.total /\ N \in Nat /\ file.start \in Int
        /\ SampleModulus \in Nat \ {0}
    BY <1>3, <1>7 DEF Saved, Files, StorageAssumption
  <1>9. N # 0 => /\ SubSeq(file.body, 1, N) = file.body /\ file.body # <<>>
    <2> DEFINE body == file.body
    <2>1. body \in Seq(Entries) /\ N = Len(body)
      BY <1>8
    <2> HIDE DEF body, N
    <2>2. SubSeq(body, 1, Len(body)) = body
      BY <2>1
    <2> QED
      BY <2>1, <2>2 DEF body
  <1>10. /\ Files' = Files /\ Saves' = Saves /\ Loads' = Loads /\ Drained' /\ Cached' = <<>>
    BY <1>1, <1>2, <1>6, CacheCleared DEF Files, Saves, Loads, Drained
  <1> HIDE DEF N
  <1>11. \/ job' = Idle
         \/ /\ job' \in Loads /\ N # 0
            /\ job'.left = file.body /\ job'.position = file.start /\ job'.sample = 0
    <2>1. CASE N = 0
      BY <1>1, <1>8, <2>1
    <2>2. CASE N # 0
      <3>1. job' = [op |-> "read", position |-> file.start, sample |-> 0, left |-> file.body]
        BY <1>1, <1>8, <1>9, <2>2
      <3>2. file.body \in Seq(Entries) \ {<<>>}
        BY <1>8, <1>9, <2>2
      <3> QED
        BY <1>8, <2>2, <3>1, <3>2 DEF Loads
    <2> QED
      BY <2>1, <2>2
  <1>12. job' \notin Saves' /\ job'.op # "body"
    BY <1>10, <1>11, JobKinds
  <1>13. Shorts' /\ Covered' /\ Saving' /\ Coded' /\ Gaps(Cached)'
    BY <1>1, <1>2, <1>3, <1>12, Emptied
  <1>14. PartsOK'
    BY <1>1, <1>2, <1>3, <1>4, <1>7, <1>10, <1>11 DEF PartsOK, q
  <1>15. Ahead'
    BY <1>10 DEF Ahead
  <1>16. Chain'
    BY <1>10, <1>13 DEF Chain
  <1>17. Saved'
    BY <1>1, <1>3, <1>5, <1>7, <1>8 DEF Saved, N
  <1>18. Loading'
    <2> SUFFICES ASSUME job' \in Loads' PROVE Loading'
      BY DEF Loading
    <2>1. /\ N # 0 /\ job'.left = file.body /\ job'.position = file.start /\ job'.sample = 0
      BY <1>10, <1>11, JobKinds
    <2>2. Len(Cached') = 0 /\ (0 < N) /\ 0 + 1 = 1
      BY <1>8, <1>10, <2>1
    <2>3. SumOf(file.body, 0, "delta") = 0 /\ SumOf(file.body, 0, "value") = 0
      <3>1. Numbers(file.body, 0, "delta") /\ Numbers(file.body, 0, "value")
        BY DEF Numbers
      <3> QED
        BY <3>1, SumStep
    <2>4. 0 % SampleModulus = 0
      BY <1>8, SmallRemainder
    <2>5. job'.left = SubSeq(file.body, 1, N)
      BY <1>9, <2>1
    <2>6. job'.position = file.start + SumOf(file.body, 0, "delta")
      BY <1>8, <2>1, <2>3
    <2>7. job'.sample = SumOf(file.body, 0, "value") % SampleModulus
      BY <2>1, <2>3, <2>4
    <2> HIDE DEF N
    <2>8. \A n \in 1..Len(Cached') : FALSE
      BY <2>2
    <2>9. Len(Cached') < Len(file.body) /\ job'.left = SubSeq(file.body, Len(Cached') + 1, Len(file.body))
      BY <2>2, <2>5 DEF N
    <2>10. job'.position = file.start + SumOf(file.body, Len(Cached'), "delta")
      BY <2>2, <2>6
    <2>11. job'.sample = SumOf(file.body, Len(Cached'), "value") % SampleModulus
      BY <2>2, <2>7
    <2> QED
      BY <1>1, <2>8, <2>9, <2>10, <2>11 DEF Loading
  <1> QED
    BY <1>13, <1>14, <1>15, <1>16, <1>17, <1>18 DEF StorageInv

-----------------------------------------------------------------------------
(* A piece of a piece of a sequence.                                         *)
LEMMA PieceOfPiece ==
  ASSUME NEW S, NEW s \in Seq(S), NEW d \in Nat, d <= Len(s), NEW m \in Nat, d + m <= Len(s)
  PROVE  LET left == SubSeq(s, d + 1, Len(s)) IN
         /\ left \in Seq(S) /\ Len(left) = Len(s) - d
         /\ SubSeq(left, 1, m) = SubSeq(s, d + 1, d + m)
         /\ Len(SubSeq(s, d + 1, d + m)) = m
         /\ \A n \in 1..m : SubSeq(s, d + 1, d + m)[n] = s[d + n]
         /\ SubSeq(left, m + 1, Len(left)) = SubSeq(s, d + m + 1, Len(s))
         /\ Len(SubSeq(s, d + m + 1, Len(s))) = Len(s) - (d + m)
  <1> DEFINE N == Len(s)
             left == SubSeq(s, d + 1, N)
             chunk == SubSeq(s, d + 1, d + m)
             rest == SubSeq(s, d + m + 1, N)
             chunkL == SubSeq(left, 1, m)
             restL == SubSeq(left, m + 1, N - d)
  <1>1. N \in Nat
    OBVIOUS
  <1>2. left \in Seq(S) /\ Len(left) = N - d /\ \A n \in 1..N - d : left[n] = s[d + n]
    BY <1>1
  <1>3. chunk \in Seq(S) /\ Len(chunk) = m /\ \A n \in 1..m : chunk[n] = s[d + n]
    BY <1>1
  <1>4. rest \in Seq(S) /\ Len(rest) = N - (d + m) /\ \A n \in 1..N - (d + m) : rest[n] = s[d + m + n]
    BY <1>1
  <1> HIDE DEF left, chunk, rest
  <1>5. chunkL \in Seq(S) /\ Len(chunkL) = m /\ \A n \in 1..m : chunkL[n] = left[n]
    BY <1>1, <1>2
  <1>6. /\ restL \in Seq(S) /\ Len(restL) = N - (d + m)
        /\ \A n \in 1..N - (d + m) : restL[n] = left[m + n]
    BY <1>1, <1>2
  <1> HIDE DEF chunkL, restL, N
  <1>7. \A n \in 1..m : chunkL[n] = chunk[n]
    <2> SUFFICES ASSUME NEW n \in 1..m PROVE chunkL[n] = chunk[n]
      OBVIOUS
    <2>1. n \in 1..N - d
      BY <1>1 DEF N
    <2> QED
      BY <1>2, <1>3, <1>5, <2>1
  <1>8. \A n \in 1..N - (d + m) : restL[n] = rest[n]
    <2> SUFFICES ASSUME NEW n \in 1..N - (d + m) PROVE restL[n] = rest[n]
      OBVIOUS
    <2>1. m + n \in 1..N - d /\ d + (m + n) = d + m + n
      BY <1>1
    <2>2. left[m + n] = s[d + (m + n)]
      BY <1>2, <2>1
    <2> QED
      BY <1>4, <1>6, <2>1, <2>2
  <1>9. chunkL = chunk
    BY <1>3, <1>5, <1>7, SeqEqual
  <1>10. restL = rest
    BY <1>4, <1>6, <1>8, SeqEqual
  <1> QED
    BY <1>2, <1>3, <1>4, <1>9, <1>10 DEF chunk, chunkL, left, rest, restL, N

(* A chunk is the next piece of the file. *)
LEMMA ChunkEntries ==
  ASSUME CaptureInv, StorageAssumption, job \in Loads
  PROVE  LET d == Len(Cached)
             m == Len(Chunk)
         IN /\ d \in Nat /\ m \in Nat \ {0} /\ d + m <= Len(file.body) /\ Len(file.body) \in Nat
            /\ Len(SubSeq(job.left, m + 1, Len(job.left))) = Len(file.body) - (d + m)
            /\ SubSeq(job.left, m + 1, Len(job.left)) = SubSeq(file.body, d + m + 1, Len(file.body))
            /\ SubSeq(file.body, d + m + 1, Len(file.body)) \in Seq(Entries)
            /\ \A n \in 1..m : Absolute(ChunkBuffer)[n] = Entry(d + n)
            /\ job.position + SumOf(Chunk, m, "delta") = file.start + SumOf(file.body, d + m, "delta")
            /\ kind = "radio" =>
                 ChunkBuffer.points[m].value = SumOf(file.body, d + m, "value") % SampleModulus
  <1> DEFINE B == file.body
             d == Len(Cached)
             m == Len(Chunk)
             N == Len(B)
             At(n) == SumOf(B, n, "delta")
             Value(n) == SumOf(B, n, "value")
             pos == job.position
             start == file.start
  <1>1. /\ PartsOK /\ kind \in Kinds /\ Loading /\ Saved /\ signalCache \in Seq(Buffers)
        /\ SampleModulus \in Nat \ {0} /\ Interval \in Nat \ {0}
    BY ResamplingAssumption DEF CaptureInv, StorageInv, PartsOK, Inv, ResamplerTypeOK, StorageAssumption
  <1>2. file \in Files
    BY <1>1 DEF Saved, PartsOK
  <1>3. B \in Seq(Entries) /\ N \in Nat /\ start \in Int /\ pos \in Int /\ job.left \in Seq(Entries)
    BY <1>2 DEF Files, Loads
  <1>4. d \in Nat /\ d < N /\ job.left = SubSeq(B, d + 1, N) /\ pos = start + At(d)
    <2>1. d \in Nat
      BY <1>1, CachedJoined
    <2> QED
      BY <1>1, <2>1 DEF Loading
  <1>5. kind = "radio" => job.sample = Value(d) % SampleModulus
    BY <1>1 DEF Loading
  <1>6. /\ m \in 1..Len(job.left) /\ Chunk = SubSeq(job.left, 1, m)
        /\ \A n \in 1..m :
             /\ ChunkBuffer.points[n].value =
                  (IF kind = "radio" THEN (job.sample + SumOf(Chunk, n, "value")) % SampleModulus
                   ELSE Chunk[n].value)
             /\ Absolute(ChunkBuffer)[n] =
                  Point(ChunkBuffer.points[n].value, pos + SumOf(Chunk, n, "delta"))
    BY <1>1, ChunkTold
  <1> HIDE DEF B, d, m, N, pos, start, At, Value
  <1>7. Len(job.left) = N - d /\ m \in Nat \ {0} /\ d + m <= N
    <2>1. Len(job.left) = N - d
      BY <1>3, <1>4 DEF N
    <2>2. m \in 1..N - d
      BY <1>6, <2>1
    <2>3. d \in Nat /\ N \in Nat
      BY <1>3, <1>4
    <2>4. m \in Nat \ {0} /\ d + m <= N
      BY <2>2, <2>3
    <2> QED
      BY <2>1, <2>4
  <1>8. /\ Chunk = SubSeq(B, d + 1, d + m) /\ \A n \in 1..m : Chunk[n] = B[d + n]
        /\ SubSeq(job.left, m + 1, Len(job.left)) = SubSeq(B, d + m + 1, N)
        /\ Len(SubSeq(B, d + m + 1, N)) = N - (d + m)
    <2>1. d <= Len(B) /\ d + m <= Len(B) /\ m \in Nat
      BY <1>3, <1>4, <1>7 DEF N
    <2>2. LET left == SubSeq(B, d + 1, Len(B)) IN
          /\ SubSeq(left, 1, m) = SubSeq(B, d + 1, d + m)
          /\ \A n \in 1..m : SubSeq(B, d + 1, d + m)[n] = B[d + n]
          /\ SubSeq(left, m + 1, Len(left)) = SubSeq(B, d + m + 1, Len(B))
          /\ Len(SubSeq(B, d + m + 1, Len(B))) = Len(B) - (d + m)
      BY <1>3, <1>4, <2>1, PieceOfPiece
    <2>3. job.left = SubSeq(B, d + 1, Len(B))
      BY <1>4 DEF N
    <2> QED
      BY <1>6, <2>2, <2>3 DEF N
  <1>9. Numbers(B, N, "delta") /\ Numbers(B, N, "value")
    <2>1. \A n \in 1..N : B[n] \in Entries
      BY <1>3 DEF N
    <2>2. \A e \in Entries : e["delta"] \in Int /\ e["value"] \in Int
      BY <1>1 DEF Entries
    <2> QED
      BY <2>1, <2>2 DEF Numbers
  <1>10. d \in 0..N /\ d + m \in d..N /\ (d + m) - d = m
    BY <1>3, <1>4, <1>7
  <1>11. \A n \in 0..m : /\ SumOf(Chunk, n, "delta") = At(d + n) - At(d)
                         /\ SumOf(Chunk, n, "value") = Value(d + n) - Value(d)
    <2> DEFINE e == d + m
    <2>1. e \in d..N /\ e - d = m /\ Chunk = SubSeq(B, d + 1, e)
      BY <1>8, <1>10
    <2> HIDE DEF e
    <2>2. \A n \in 0..e - d : SumOf(SubSeq(B, d + 1, e), n, "delta") = SumOf(B, d + n, "delta") - SumOf(B, d, "delta")
      BY <1>3, <1>9, <1>10, <2>1, SumOfPart
    <2>3. \A n \in 0..e - d : SumOf(SubSeq(B, d + 1, e), n, "value") = SumOf(B, d + n, "value") - SumOf(B, d, "value")
      BY <1>3, <1>9, <1>10, <2>1, SumOfPart
    <2> QED
      BY <2>1, <2>2, <2>3 DEF At, Value
  <1>12. \A n \in 0..N : At(n) \in Int /\ Value(n) \in Int
    BY <1>3, <1>9, SumStep DEF At, Value
  <1>13. \A n \in 0..m : pos + SumOf(Chunk, n, "delta") = start + At(d + n)
    <2> SUFFICES ASSUME NEW n \in 0..m PROVE pos + SumOf(Chunk, n, "delta") = start + At(d + n)
      OBVIOUS
    <2>1. d + n \in 0..N
      BY <1>3, <1>4, <1>7
    <2> DEFINE x == At(d)
               y == At(d + n)
    <2>2. x \in Int /\ y \in Int /\ pos = start + x /\ SumOf(Chunk, n, "delta") = y - x
      BY <1>4, <1>10, <1>11, <1>12, <2>1
    <2> HIDE DEF x, y
    <2>3. (start + x) + (y - x) = start + y
      BY <1>3, <2>2
    <2> QED
      BY <2>2, <2>3 DEF y
  <1>14. ASSUME kind = "radio", NEW n \in 1..m
         PROVE  ChunkBuffer.points[n].value = Value(d + n) % SampleModulus
    <2>1. d + n \in 0..N /\ n \in 0..m
      BY <1>3, <1>4, <1>7
    <2> DEFINE x == Value(d)
               y == Value(d + n)
    <2>2. x \in Int /\ y \in Int /\ job.sample = x % SampleModulus /\ SumOf(Chunk, n, "value") = y - x
      BY <1>5, <1>10, <1>11, <1>12, <1>14, <2>1
    <2>3. ChunkBuffer.points[n].value = (job.sample + SumOf(Chunk, n, "value")) % SampleModulus
      BY <1>6, <1>14
    <2> HIDE DEF x, y
    <2>4. y - x \in Int /\ x + (y - x) = y
      BY <2>2
    <2>5. ((x % SampleModulus) + (y - x)) % SampleModulus = (x + (y - x)) % SampleModulus
      BY <1>1, <2>2, <2>4, RemainderOfSum
    <2> QED
      BY <2>2, <2>3, <2>4, <2>5 DEF y
  <1>15. ASSUME NEW n \in 1..m PROVE Absolute(ChunkBuffer)[n] = Entry(d + n)
    <2>1. Absolute(ChunkBuffer)[n] = Point(ChunkBuffer.points[n].value, start + At(d + n))
      BY <1>6, <1>7, <1>13
    <2>2. CASE kind = "radio"
      BY <1>14, <2>1, <2>2 DEF Entry, At, Value, B, start
    <2>3. CASE kind # "radio"
      <3>1. ChunkBuffer.points[n].value = B[d + n].value
        BY <1>6, <1>8, <2>3
      <3> QED
        BY <2>1, <2>3, <3>1 DEF Entry, At, B, start
    <2> QED
      BY <2>2, <2>3
  <1>16. SubSeq(B, d + m + 1, N) \in Seq(Entries)
    <2>1. d + m + 1 \in Nat
      BY <1>4, <1>7
    <2> HIDE DEF N
    <2> QED
      BY <1>3, <1>4, <1>7, <2>1 DEF N
  <1>17. m \in 0..m /\ m \in 1..m
    BY <1>7
  <1> QED
    BY <1>3, <1>4, <1>7, <1>8, <1>13, <1>14, <1>15, <1>16, <1>17 DEF B, d, m, N, pos, start, At, Value

(* What is in sight after an event is posted. *)
LEMMA SightGrows ==
  ASSUME events \in Seq(Extents), NEW e \in Extents, events' = Append(events, e), UNCHANGED data,
         phase = "control" =>
           \/ phase' = "control" /\ UNCHANGED <<resampled, resampling>>
           \/ e = Extent(Buffer)
  PROVE  /\ \A x : InSight(x) => InSight(x)'
         /\ \A x : Lies(x, e) => InSight(x)'
  <1>1. /\ Len(events) \in Nat /\ Len(events') = Len(events) + 1 /\ events'[Len(events) + 1] = e
        /\ \A n \in 1..Len(events) : events'[n] = events[n]
    OBVIOUS
  <1>2. ASSUME NEW x, Lies(x, e) PROVE InSight(x)'
    <2> DEFINE last == Len(events) + 1
    <2>1. last \in 1..Len(events') /\ events'[last] = e
      BY <1>1
    <2> HIDE DEF last
    <2>2. \E n \in 1..Len(events') : Lies(x, events'[n])
      BY <1>2, <2>1
    <2> QED
      BY <2>2 DEF InSight, Lies
  <1>3. ASSUME NEW x, InSight(x) PROVE InSight(x)'
    <2>1. CASE data # NoData /\ Lies(x, data)
      BY <2>1 DEF InSight, Lies, NoData
    <2>2. CASE \E n \in 1..Len(events) : Lies(x, events[n])
      <3>1. PICK n \in 1..Len(events) : Lies(x, events[n])
        BY <2>2
      <3>2. n \in 1..Len(events') /\ Lies(x, events'[n])
        BY <1>1, <3>1
      <3> QED
        BY <3>2 DEF InSight, Lies
    <2>3. CASE phase = "control" /\ Lies(x, Extent(Buffer))
      <3>1. CASE e = Extent(Buffer)
        BY <1>2, <2>3, <3>1
      <3>2. CASE e # Extent(Buffer)
        <4>1. phase' = "control" /\ Extent(Buffer)' = Extent(Buffer)
          BY <2>3, <3>2 DEF Extent, Buffer, Absolute
        <4> QED
          BY <2>3, <4>1 DEF InSight, Lies
      <3> QED
        BY <3>1, <3>2
    <2> QED
      BY <1>3, <2>1, <2>2, <2>3 DEF InSight
  <1> QED
    BY <1>2, <1>3

(* The range of a buffer holds its points. *)
LEMMA ExtentHolds ==
  ASSUME NEW b \in Buffers, Gaps(Absolute(b)), Absolute(b) # <<>>
  PROVE  /\ Extent(b) \in Extents /\ Extent(b).hi = Ends(Absolute(b))
         /\ \A n \in 1..Len(Absolute(b)) : Lies(Absolute(b)[n].at, Extent(b))
  <1> DEFINE a == Absolute(b)
             N == Len(a)
  <1>1. a \in Seq(Spots) /\ Gaps(a) /\ a # <<>>
    BY AbsoluteOf
  <1>2. Extent(b) = [lo |-> a[1].at, hi |-> Ends(a)]
    BY DEF Extent, Ends, Last
  <1> HIDE DEF a
  <1>3. N \in Nat \ {0} /\ 1 \in 1..N /\ N \in 1..N
    BY <1>1
  <1>4. a[1].at \in Int /\ Ends(a) \in Int
    <2>1. a[1] \in Spots /\ a[N] \in Spots
      BY <1>1, <1>3
    <2> QED
      BY <2>1 DEF Ends, Spots
  <1>5. \A n \in 1..N : a[1].at <= a[n].at /\ a[n].at <= Ends(a)
    BY <1>1, Sorted
  <1>6. a[1].at <= Ends(a)
    BY <1>3, <1>5 DEF Ends
  <1>7. Extent(b) \in Extents /\ Extent(b).lo = a[1].at /\ Extent(b).hi = Ends(a)
    BY <1>2, <1>4, <1>6 DEF Extents
  <1> QED
    BY <1>5, <1>7 DEF a, Lies

(* A buffer joins the cache and its range is posted. *)
LEMMA CoveredGrows ==
  ASSUME Covered, signalCache \in Seq(Buffers), NEW b \in Buffers, signalCache' = Append(signalCache, b),
         UNCHANGED <<commandQueue, data, receivedTime, kind>>,
         \A x : InSight(x) => InSight(x)',
         \A x : (\E n \in 1..Len(Absolute(b)) : x = Absolute(b)[n].at) => InSight(x)'
  PROVE  Covered'
  <1> DEFINE C == Cached
             a == Absolute(b)
  <1>1. Cached' = C \o a /\ C \in Seq(Spots) /\ a \in Seq(Spots)
    BY AbsoluteOf, CachedGrows, CachedJoined
  <1>2. ASSUME commandQueue \in Seq(Writes \cup Reads), NEW n \in 1..Len(Cached'),
               NEW x, x = Cached'[n].at
        PROVE  InSight(x)'
    <2>1. \A k \in 1..Len(C) : InSight(C[k].at)
      BY <1>2 DEF Covered
    <2> HIDE DEF C
    <2> DEFINE more == C \o a
    <2>2. a \in Seq(Spots)
      BY <1>1
    <2>3. \A y : (\E k \in 1..Len(a) : y = a[k].at) => InSight(y)'
      OBVIOUS
    <2> HIDE DEF a
    <2>4. /\ Len(more) = Len(C) + Len(a) /\ Len(C) \in Nat /\ Len(a) \in Nat
          /\ \A k \in 1..Len(C) : more[k] = C[k]
          /\ \A k \in 1..Len(a) : more[Len(C) + k] = a[k]
      BY <1>1, ConcatParts
    <2>5. Cached' = more
      BY <1>1
    <2> HIDE DEF more
    <2>6. n \in 1..Len(more) /\ x = more[n].at
      BY <1>2, <2>5
    <2>7. CASE n \in 1..Len(C)
      <3>1. x = C[n].at
        BY <2>4, <2>6, <2>7
      <3>2. InSight(x)
        BY <2>1, <2>7, <3>1
      <3> QED
        BY <3>2
    <2>8. CASE n \notin 1..Len(C)
      <3> DEFINE k == n - Len(C)
      <3>1. k \in 1..Len(a) /\ n = Len(C) + k
        BY <2>4, <2>6, <2>8
      <3> HIDE DEF k
      <3>2. x = a[k].at
        BY <2>4, <2>6, <3>1
      <3> QED
        BY <2>3, <3>1, <3>2
    <2> QED
      BY <2>7, <2>8
  <1>3. /\ commandQueue' \in Seq(Writes \cup Reads)' => commandQueue \in Seq(Writes \cup Reads)
    BY DEF Writes, Reads
  <1>4. \A n \in 1..Len(Cached') : \A x : x = Cached'[n].at => (commandQueue \in Seq(Writes \cup Reads) => InSight(x)')
    BY <1>2
  <1>5. commandQueue' \in Seq(Writes \cup Reads)' => \A n \in 1..Len(Cached') : InSight(Cached[n].at)'
    BY <1>3, <1>4
  <1> QED
    BY <1>5 DEF Covered

(* A chunk of the file is cached, where the last one ended. *)
LEMMA LoadChunkStep ==
  ASSUME CaptureInv, StorageAssumption, LoadChunk
  PROVE  /\ StorageInv'
         /\ job' = Idle =>
              /\ Len(Cached') = Len(file.body)
              /\ \A n \in 1..Len(Cached') : Cached'[n] = Entry(n)
  <1> DEFINE C == Cached
             a == Absolute(ChunkBuffer)
             d == Len(C)
             m == Len(Chunk)
             N == Len(file.body)
             left == SubSeq(job.left, m + 1, Len(job.left))
             position == job.position + SumOf(Chunk, m, "delta")
  <1>1. /\ job.op = "read" /\ signalCache' = Append(signalCache, ChunkBuffer)
        /\ job' = IF left = <<>> THEN Idle
                  ELSE [job EXCEPT !.position = position,
                                   !.sample = ChunkBuffer.points[Len(ChunkBuffer.points)].value,
                                   !.left = left]
        /\ events' = Append(events, Extent(ChunkBuffer))
        /\ UNCHANGED <<frameQueue, commandQueue, file, data, logicView, radioView, receivedTime>>
        /\ UNCHANGED <<kind, phase, resampled, streaming, produced, resampling>>
    BY DEF LoadChunk, ReadChunk, resamplerVars, captureVars, Last
  <1>2. /\ PartsOK /\ kind \in Kinds /\ Loading /\ Saved /\ Chain /\ Shorts /\ Covered /\ Ahead
        /\ signalCache \in Seq(Buffers) /\ events \in Seq(Extents)
        /\ SampleModulus \in Nat \ {0}
    BY DEF CaptureInv, StorageInv, PartsOK, Inv, ResamplerTypeOK, StorageAssumption
  <1>3. job \in Loads /\ job \notin Saves
    BY <1>1, <1>2, JobKinds DEF PartsOK
  <1>4. Drained
    BY <1>2, <1>3 DEF Ahead
  <1>5. file \in Files
    BY <1>2, <1>3 DEF Saved, PartsOK
  <1>6. /\ Len(a) = m /\ ChunkBuffer \in Buffers /\ Len(ChunkBuffer.points) = m
        /\ Gaps(a) /\ a # <<>> /\ a[1].at - job.position \in 0..Interval
        /\ Ends(a) = position
        /\ \A n \in 1..m : a[n] = Point(ChunkBuffer.points[n].value, job.position + SumOf(Chunk, n, "delta"))
    BY <1>2, <1>3, ChunkTold
  <1>7. /\ d \in Nat /\ m \in Nat \ {0} /\ d + m <= N /\ N \in Nat
        /\ Len(left) = N - (d + m) /\ left = SubSeq(file.body, d + m + 1, N) /\ left \in Seq(Entries)
        /\ \A n \in 1..m : a[n] = Entry(d + n)
        /\ position = file.start + SumOf(file.body, d + m, "delta")
        /\ kind = "radio" => ChunkBuffer.points[m].value = SumOf(file.body, d + m, "value") % SampleModulus
    BY <1>3, ChunkEntries
  <1>8. Cached' = C \o a /\ C \in Seq(Spots) /\ a \in Seq(Spots)
    BY <1>1, <1>2, <1>6, AbsoluteOf, CachedGrows, CachedJoined
  <1>9. \A n \in 1..d : C[n] = Entry(n)
    BY <1>2, <1>3 DEF Loading
  <1>10. C # <<>> => job.position = Ends(C)
    BY <1>2, <1>3 DEF Chain
  <1>11. Gaps(C)
    BY <1>2 DEF Chain
  <1> HIDE DEF C, a, d, left, position
  <1>12. ChunkBuffer.points[m].value \in Int
    <2>1. ChunkBuffer.points \in Seq(Spots) /\ m \in 1..m
      BY <1>6, <1>7 DEF Buffers
    <2>2. ChunkBuffer.points[m] \in Spots
      BY <1>6, <2>1
    <2> QED
      BY <2>2 DEF Spots
  <1>13. position \in Int
    <2>1. Len(a) \in 1..Len(a)
      BY <1>6, <1>7
    <2>2. a[Len(a)] \in Spots
      BY <1>8, <2>1
    <2> QED
      BY <1>6, <2>2 DEF Ends, Spots
  <1>14. /\ Len(Cached') = d + m /\ Cached' \in Seq(Spots)
         /\ \A n \in 1..d : Cached'[n] = C[n]
         /\ \A n \in 1..m : Cached'[d + n] = a[n]
    <2>1. d = Len(C) /\ m = Len(a)
      BY <1>6 DEF d
    <2> DEFINE more == C \o a
    <2>2. /\ more \in Seq(Spots) /\ Len(more) = Len(C) + Len(a)
          /\ \A n \in 1..Len(C) : more[n] = C[n]
          /\ \A n \in 1..Len(a) : more[Len(C) + n] = a[n]
      BY <1>8, ConcatParts
    <2>3. Cached' = more
      BY <1>8
    <2> HIDE DEF more, m
    <2> QED
      BY <2>1, <2>2, <2>3
  <1>15. \A n \in 1..d + m : Cached'[n] = Entry(n)
    <2> SUFFICES ASSUME NEW n \in 1..d + m PROVE Cached'[n] = Entry(n)
      OBVIOUS
    <2>1. CASE n \in 1..d
      BY <1>9, <1>14, <2>1
    <2>2. CASE n \notin 1..d
      <3> DEFINE k == n - d
      <3>1. k \in 1..m /\ n = d + k
        BY <1>7, <2>2
      <3> HIDE DEF k
      <3> QED
        BY <1>7, <1>14, <3>1
    <2> QED
      BY <2>1, <2>2
  <1>16. Gaps(Cached) ' /\ Cached' # <<>> /\ Ends(Cached)' = Ends(a)
    <2>1. C # <<>> /\ a # <<>> => a[1].at - Ends(C) \in 0..Interval
      BY <1>6, <1>10
    <2>2. Gaps(C \o a)
      BY <1>6, <1>8, <1>11, <2>1, GapsConcat
    <2>3. Gaps(Cached)' = Gaps(Cached') /\ Ends(Cached)' = Cached'[Len(Cached')].at
      BY DEF Gaps, Ends
    <2>4. m \in 1..m /\ d + m # 0
      BY <1>7
    <2>5. Cached'[d + m] = a[m] /\ Cached' # <<>>
      BY <1>14, <2>4
    <2> QED
      BY <1>6, <1>8, <1>14, <2>2, <2>3, <2>4, <2>5 DEF Ends
  <1>17. \/ job' = Idle /\ d + m = N
         \/ /\ job' \in Loads' /\ d + m < N
            /\ job'.left = left /\ job'.position = position
            /\ job'.sample = ChunkBuffer.points[m].value
    <2>1. CASE left = <<>>
      <3>1. Len(left) = 0
        BY <2>1
      <3>2. d + m = N
        BY <1>7, <3>1
      <3> QED
        BY <1>1, <2>1, <3>2
    <2>2. CASE left # <<>>
      <3>0. left \in Seq(Entries)
        BY <1>7
      <3>1. Len(left) # 0
        BY <2>2, <3>0
      <3>2. d + m < N
        BY <1>7, <3>1
      <3> DEFINE v == ChunkBuffer.points[m].value
      <3>3. v \in Int
        BY <1>12
      <3>4. job' = [job EXCEPT !.position = position, !.sample = v, !.left = left]
        BY <1>1, <1>6, <2>2
      <3> HIDE DEF v
      <3>5. job' = [op |-> "read", position |-> position, sample |-> v, left |-> left]
        BY <1>3, <3>4 DEF Loads
      <3>6. left \in Seq(Entries) \ {<<>>}
        BY <1>7, <2>2
      <3>7. job' \in Loads
        BY <1>13, <3>3, <3>5, <3>6 DEF Loads
      <3> QED
        BY <3>2, <3>5, <3>7 DEF v, Loads
    <2> QED
      BY <2>1, <2>2
  <1>18. job' \notin Saves' /\ Files' = Files /\ Saves' = Saves /\ Loads' = Loads
    BY <1>1, <1>17, JobKinds DEF Files, Saves, Loads
  <1>19. Extent(ChunkBuffer) \in Extents /\ \A n \in 1..m : Lies(a[n].at, Extent(ChunkBuffer))
    BY <1>6, ExtentHolds DEF a
  <1>20. PartsOK'
    <2>1. signalCache' \in Seq(Buffers) /\ events' \in Seq(Extents)
      BY <1>1, <1>2, <1>6, <1>19
    <2> QED
      BY <1>1, <1>2, <1>5, <1>17, <1>18, <2>1 DEF PartsOK
  <1>21. Ahead'
    BY <1>1, <1>4 DEF Ahead, Drained
  <1>22. Chain'
    BY <1>1, <1>4, <1>6, <1>16, <1>17, <1>18, JobKinds DEF Chain, Drained
  <1>23. Saving' /\ Coded'
    BY <1>17, <1>18, JobKinds DEF Saving, Coded
  <1>24. Saved'
    BY <1>1, <1>2, <1>3, <1>5, <1>18 DEF Saved, Files, NoFile
  <1>25. Loading'
    <2> SUFFICES ASSUME job' \in Loads' PROVE Loading'
      BY DEF Loading
    <2>1. /\ d + m < N /\ job'.left = left /\ job'.position = position
          /\ job'.sample = ChunkBuffer.points[m].value
      BY <1>17, <1>18, JobKinds
    <2>2. \A n \in 1..Len(Cached') : Cached'[n] = Entry(n)'
      <3>1. \A n : Entry(n)' = Entry(n)
        BY <1>1 DEF Entry
      <3> QED
        BY <1>14, <1>15, <3>1
    <2>3. Len(Cached') < Len(file.body) /\ job'.left = SubSeq(file.body, Len(Cached') + 1, Len(file.body))
      BY <1>7, <1>14, <2>1
    <2>4. job'.position = file.start + SumOf(file.body, Len(Cached'), "delta")
      BY <1>7, <1>14, <2>1
    <2>5. kind = "radio" => job'.sample = SumOf(file.body, Len(Cached'), "value") % SampleModulus
      BY <1>7, <1>14, <2>1
    <2> QED
      BY <1>1, <2>2, <2>3, <2>4, <2>5 DEF Loading
  <1>26. Shorts'
    <2> SUFFICES ASSUME kind = "radio"
                 PROVE  Cached' \in Seq([value : 0..SampleModulus - 1, at : Int])
      BY <1>1 DEF Shorts
    <2> DEFINE S == [value : 0..SampleModulus - 1, at : Int]
    <2>1. ASSUME NEW n \in 1..d + m PROVE Cached'[n] \in S
      <3>1. Cached'[n] = Point(SumOf(file.body, n, "value") % SampleModulus,
                               file.start + SumOf(file.body, n, "delta"))
        BY <1>15 DEF Entry
      <3>2. SumOf(file.body, n, "value") \in Int
        <4>1. \A e \in Entries : e["value"] \in Int
          BY DEF Entries
        <4>2. file.body \in Seq(Entries)
          BY <1>5 DEF Files
        <4>3. Numbers(file.body, N, "value")
          BY <4>1, <4>2 DEF Numbers
        <4>4. n \in 0..N
          BY <1>7
        <4> QED
          BY <1>7, <4>3, <4>4, SumStep
      <3>3. SumOf(file.body, n, "value") % SampleModulus \in 0..SampleModulus - 1
        BY <1>2, <3>2
      <3>4. Cached'[n] \in Spots
        BY <1>14
      <3> QED
        BY <3>1, <3>3, <3>4 DEF Spots, Point
    <2> HIDE DEF S
    <2>2. Cached' \in Seq(S)
      BY <1>7, <1>14, <2>1
    <2> QED
      BY <2>2 DEF S
  <1>27. Covered'
    <2>1. /\ \A x : InSight(x) => InSight(x)'
          /\ \A x : Lies(x, Extent(ChunkBuffer)) => InSight(x)'
      BY <1>1, <1>2, <1>19, SightGrows
    <2>2. \A x : (\E n \in 1..Len(Absolute(ChunkBuffer)) : x = Absolute(ChunkBuffer)[n].at) => InSight(x)'
      <3> SUFFICES ASSUME NEW x, NEW n \in 1..Len(Absolute(ChunkBuffer)), x = Absolute(ChunkBuffer)[n].at
                   PROVE  InSight(x)'
        OBVIOUS
      <3>1. Lies(x, Extent(ChunkBuffer))
        BY <1>6, <1>19 DEF a
      <3> QED
        BY <2>1, <3>1
    <2> QED
      BY <1>1, <1>2, <1>6, <2>1, <2>2, CoveredGrows
  <1>28. job' = Idle => d + m = N
    BY <1>17, JobKinds, <1>18
  <1> HIDE DEF m
  <1>29. StorageInv'
    BY <1>20, <1>21, <1>22, <1>23, <1>24, <1>25, <1>26, <1>27 DEF StorageInv
  <1> QED
    BY <1>14, <1>15, <1>28, <1>29

-----------------------------------------------------------------------------
(* The storage is told of a block, whatever it is doing: a save, whose range *)
(* ends before the block, notices nothing.                                   *)
LEMMA CacheSignalStep ==
  ASSUME CaptureInv, StorageAssumption, CacheSignal
  PROVE  StorageInv'
  <1> DEFINE C == Cached
             a == Absolute(Buffer)
             o == (resampling - 1) * BlockLength
             t == resampling * BlockLength
  <1>1. /\ phase = "storage" /\ phase' = "control" /\ signalCache' = Append(signalCache, Buffer)
        /\ UNCHANGED <<commandQueue, job, file, events, data, logicView, radioView, receivedTime>>
        /\ UNCHANGED <<kind, resampled, streaming, produced, resampling>>
    BY DEF CacheSignal, TellStorage, windowVars, captureVars
  <1>2. /\ PartsOK /\ Inv /\ Whole /\ Ahead /\ Chain /\ Saving /\ Saved /\ Coded /\ Shorts /\ Covered
        /\ signalCache \in Seq(Buffers) /\ Len(signalCache) \in Nat /\ events \in Seq(Extents)
    BY DEF CaptureInv, StorageInv, PartsOK
  <1>3. ~Drained /\ ~Drained' /\ Told = o /\ Told' = t /\ Told \in Int /\ Told' \in Int /\ Told < Told'
    <2>1. resampling \in Int /\ BlockLength \in Nat \ {0}
      BY <1>2, ResamplingAssumption DEF PartsOK
    <2>2. Told = o /\ Told' = t
      BY <1>1 DEF Told
    <2>3. o \in Int /\ t = o + BlockLength
      BY <2>1
    <2> HIDE DEF o, t
    <2> QED
      BY <1>1, <2>1, <2>2, <2>3 DEF Drained
  <1>4. /\ Buffer \in Buffers /\ Gaps(a) /\ a # <<>> /\ a[1].at = o
        /\ t - Ends(a) \in 0..Interval
        /\ kind = "radio" => a \in Seq([value : 0..SampleModulus - 1, at : Int])
    BY <1>1, <1>2, BufferTold
  <1>5. /\ Cached' = C \o a /\ C \in Seq(Spots) /\ a \in Seq(Spots)
        /\ Extent(Buffer) \in Extents /\ \A n \in 1..Len(a) : Lies(a[n].at, Extent(Buffer))
    BY <1>1, <1>2, <1>4, AbsoluteOf, CachedGrows, CachedJoined, ExtentHolds
  <1>6. /\ events \in Seq({e \in Extents : e.hi < Told})
        /\ data # NoData => data.hi < Told
        /\ events # <<>> \/ data # NoData => Told > 0
        /\ Early(receivedTime) /\ Early(logicView) /\ Early(radioView)
        /\ commandQueue \in Seq({c \in Writes : c.to < Told} \cup Clears)
        /\ job \notin Loads
        /\ job \in Saves => job.end < Told
    BY <1>2, <1>3 DEF Ahead
  <1>7. /\ Gaps(C) /\ (C # <<>> => o - Ends(C) \in 0..Interval)
    BY <1>2, <1>3 DEF Chain
  <1> HIDE DEF C, a, o, t
  <1>8. Files' = Files /\ Saves' = Saves /\ Loads' = Loads
    BY <1>1 DEF Files, Saves, Loads
  <1>9. PartsOK'
    <2>1. signalCache' \in Seq(Buffers)
      BY <1>1, <1>2, <1>4
    <2> QED
      BY <1>1, <1>2, <1>8, <2>1 DEF PartsOK
  <1>10. Ahead'
    <2>1. events \in Seq({e \in Extents : e.hi < Told'})
      <3>1. \A e \in Extents : e.hi < Told => e.hi < Told'
        BY <1>3 DEF Extents
      <3> QED
        BY <1>6, <3>1
    <2>2. commandQueue \in Seq({c \in Writes : c.to < Told'} \cup Clears)
      <3>1. \A c \in Writes : c.to < Told => c.to < Told'
        BY <1>3 DEF Writes
      <3> DEFINE R == {c \in Writes : c.to < Told} \cup Clears
                 S == {c \in Writes : c.to < Told'} \cup Clears
      <3>2. R \subseteq S
        BY <3>1
      <3>3. commandQueue \in Seq(R)
        BY <1>6
      <3> HIDE DEF R, S
      <3>4. commandQueue \in Seq(S)
        BY <3>2, <3>3
      <3> QED
        BY <3>4 DEF S
    <2>3. data # NoData => data.hi < Told'
      <3>1. data # NoData => data.hi \in Int
        BY <1>2 DEF PartsOK, Extents
      <3> QED
        BY <1>3, <1>6, <3>1
    <2>4. \A v \in Views : Early(v) => v.hi < Told' \/ v.hi = 0
      BY <1>3 DEF Early, Views
    <2>5. Early(receivedTime)' /\ Early(logicView)' /\ Early(radioView)'
      <3>1. receivedTime \in Views /\ logicView \in Views /\ radioView \in Views
        BY <1>2 DEF PartsOK
      <3>2. /\ receivedTime.hi < Told' \/ receivedTime.hi = 0
            /\ logicView.hi < Told' \/ logicView.hi = 0
            /\ radioView.hi < Told' \/ radioView.hi = 0
        BY <1>6, <2>4, <3>1
      <3> QED
        BY <1>1, <3>2 DEF Early
    <2>6. job \in Saves => job.end < Told'
      <3>1. job \in Saves => job.end \in Int
        BY DEF Saves
      <3> QED
        BY <1>3, <1>6, <3>1
    <2>7. events # <<>> \/ data # NoData => Told' > 0
      BY <1>3, <1>6
    <2> QED
      BY <1>1, <1>6, <1>8, <2>1, <2>2, <2>3, <2>5, <2>6, <2>7 DEF Ahead, Writes, Clears, Extents, NoData
  <1>11. Chain'
    <2>1. C # <<>> /\ a # <<>> => a[1].at - Ends(C) \in 0..Interval
      BY <1>4, <1>7
    <2>2. Gaps(C \o a)
      BY <1>4, <1>5, <1>7, <2>1, GapsConcat
    <2> DEFINE more == C \o a
    <2>3. /\ more \in Seq(Spots) /\ Len(more) = Len(C) + Len(a)
          /\ \A n \in 1..Len(a) : more[Len(C) + n] = a[n]
          /\ Len(a) \in 1..Len(a)
      BY <1>4, <1>5, ConcatParts
    <2>4. Cached' = more /\ Gaps(more)
      BY <1>5, <2>2
    <2> HIDE DEF more
    <2>5. Ends(more) = Ends(a)
      BY <2>3 DEF Ends
    <2>6. Gaps(Cached)' /\ Ends(Cached)' = Ends(a)
      BY <2>4, <2>5 DEF Gaps, Ends
    <2> QED
      BY <1>1, <1>3, <1>4, <1>6, <1>8, <2>6 DEF Chain
  <1>12. ASSUME job \in Saves
         PROVE  /\ job.next \in Nat \ {0} /\ job.next <= Len(signalCache) + 1
                /\ signalCache' # <<>> /\ Len(signalCache') = Len(signalCache) + 1
                /\ Picked(job.next - 1)' = Picked(job.next - 1)
                /\ Selection' = Selection /\ StartOffset' = StartOffset
    <2>1. /\ job.next \in Nat \ {0} /\ job.next <= Len(signalCache) + 1 /\ signalCache # <<>>
          /\ job.start \in Int /\ job.end \in Int
      BY <1>2, <1>12 DEF Saving, Saves
    <2>2. signalCache' # <<>> /\ Len(signalCache') = Len(signalCache) + 1 /\ signalCache'[1] = signalCache[1]
      <3> DEFINE cache == signalCache
      <3>1. cache \in Seq(Buffers) /\ cache # <<>> /\ Buffer \in Buffers
        BY <1>2, <1>4, <2>1
      <3> HIDE DEF cache
      <3> DEFINE more == Append(cache, Buffer)
      <3>2. more # <<>> /\ Len(more) = Len(cache) + 1 /\ more[1] = cache[1]
        BY <3>1
      <3> HIDE DEF more
      <3>3. signalCache' = more
        BY <1>1 DEF more, cache
      <3> QED
        BY <3>2, <3>3 DEF cache
    <2>3. Picked(job.next - 1)' = Picked(job.next - 1)
      <3> DEFINE n == job.next - 1
      <3>1. n \in 0..Len(signalCache) /\ n' = n
        BY <1>1, <1>2, <2>1
      <3>2. Picked(n)' = Within(Joined(signalCache', n), job.start, job.end)
        BY <1>1 DEF Picked, Joined, Absolute
      <3> HIDE DEF n
      <3>3. Joined(Append(signalCache, Buffer), n) = Joined(signalCache, n)
        BY <1>2, <1>4, <3>1, JoinedKept
      <3>4. Joined(signalCache', n) = Joined(signalCache, n)
        BY <1>1, <3>3
      <3> QED
        BY <3>2, <3>4 DEF Picked, n
    <2>4. StartOffset' = StartOffset
      BY <1>1, <2>2 DEF StartOffset
    <2>5. Within(a, job.start, job.end) = <<>>
      <3>1. \A n \in 1..Len(a) : job.end < a[n].at
        <4> SUFFICES ASSUME NEW n \in 1..Len(a) PROVE job.end < a[n].at
          OBVIOUS
        <4>1. a[1].at <= a[n].at
          BY <1>4, <1>5, Sorted
        <4>2. a[n] \in Spots
          BY <1>5
        <4>3. a[n].at \in Int
          BY <4>2 DEF Spots
        <4>4. job.end < a[1].at /\ a[1].at \in Int
          BY <1>3, <1>4, <1>6, <1>12
        <4> QED
          BY <2>1, <4>1, <4>3, <4>4
      <3> QED
        BY <1>5, <2>1, <3>1, WithinBeyond
    <2>6. Selection' = Selection
      <3> DEFINE W(points) == Within(points, job.start, job.end)
      <3>1. W(C \o a) = W(C) \o W(a)
        BY <1>5, WithinConcat
      <3>2. W(C) \in Seq(Spots) /\ W(a) = <<>>
        BY <1>5, <2>5, WithinIn
      <3>3. Selection' = Within(Cached', job.start, job.end)
        BY <1>1 DEF Selection
      <3>4. Selection = W(C)
        BY DEF Selection, C
      <3>5. Selection' = W(C \o a)
        BY <1>5, <3>3
      <3> HIDE DEF W
      <3>6. W(C) \o W(a) = W(C)
        BY <3>2
      <3> QED
        BY <3>1, <3>4, <3>5, <3>6
    <2> QED
      BY <2>1, <2>2, <2>3, <2>4, <2>6
  <1>13. Saving'
    <2> SUFFICES ASSUME job \in Saves PROVE Saving'
      BY <1>1, <1>8 DEF Saving
    <2> QED
      BY <1>1, <1>2, <1>8, <1>12 DEF Saving
  <1>14. Coded'
    <2> SUFFICES ASSUME job.op = "body" PROVE Coded'
      BY <1>1 DEF Coded
    <2>1. job \in Saves
      BY <1>2, JobKinds DEF PartsOK
    <2>2. Picked(job.next - 1)' = Picked(job.next - 1)
      BY <1>12, <2>1
    <2>3. Coded /\ UNCHANGED <<job, file, kind>>
      BY <1>1, <1>2
    <2> QED
      BY <2>2, <2>3 DEF Coded, Code, CodeAfter, Difference
  <1>15. Saved' /\ Loading'
    BY <1>1, <1>2, <1>6, <1>8 DEF Saved, Loading, Writes, Clears
  <1>16. Shorts'
    <2> SUFFICES ASSUME kind = "radio"
                 PROVE  Cached' \in Seq([value : 0..SampleModulus - 1, at : Int])
      BY <1>1 DEF Shorts
    <2> DEFINE S == [value : 0..SampleModulus - 1, at : Int]
    <2>1. C \in Seq(S) /\ a \in Seq(S)
      BY <1>2, <1>4 DEF Shorts, C
    <2> HIDE DEF S
    <2>2. C \o a \in Seq(S)
      BY <2>1
    <2> QED
      BY <1>5, <2>2 DEF S
  <1>17. Covered'
    <2>1. \A x : InSight(x) => InSight(x)'
      BY <1>1 DEF InSight, Lies, NoData
    <2>2. \A x : (\E n \in 1..Len(Absolute(Buffer)) : x = Absolute(Buffer)[n].at) => InSight(x)'
      <3> SUFFICES ASSUME NEW x, NEW n \in 1..Len(a), x = a[n].at PROVE InSight(x)'
        BY DEF a
      <3>1. Lies(x, Extent(Buffer))
        BY <1>5
      <3>2. Extent(Buffer)' = Extent(Buffer)
        BY <1>1 DEF Extent, Buffer, Absolute
      <3> QED
        BY <1>1, <3>1, <3>2 DEF InSight, Lies
    <2> QED
      BY <1>1, <1>2, <1>4, <2>1, <2>2, CoveredGrows
  <1> QED
    BY <1>9, <1>10, <1>11, <1>13, <1>14, <1>15, <1>16, <1>17 DEF StorageInv

(* The window is told of the block the storage holds already. *)
LEMMA PostSignalStep ==
  ASSUME CaptureInv, StorageAssumption, PostSignal
  PROVE  StorageInv'
  <1> DEFINE a == Absolute(Buffer)
             o == (resampling - 1) * BlockLength
             t == resampling * BlockLength
             e == Extent(Buffer)
  <1>1. /\ phase = "control" /\ phase' = "idle" /\ events' = Append(events, e)
        /\ UNCHANGED <<signalCache, commandQueue, job, file, data, logicView, radioView, receivedTime>>
        /\ UNCHANGED <<kind, streaming, produced, resampling>>
    BY DEF PostSignal, TellControl, storageVars, captureVars
  <1>2. /\ PartsOK /\ Inv /\ Whole /\ Ahead /\ Chain /\ Saving /\ Saved /\ Coded /\ Loading /\ Shorts
        /\ Covered /\ events \in Seq(Extents) /\ signalCache \in Seq(Buffers)
    BY DEF CaptureInv, StorageInv, PartsOK
  <1>3. ~Drained /\ Told = t /\ Told' = Told
    BY <1>1 DEF Told, Drained
  <1>4. /\ Buffer \in Buffers /\ Gaps(a) /\ a # <<>> /\ a[1].at = o /\ o \in Nat
        /\ t = o + BlockLength /\ Ends(a) < t
    BY <1>1, <1>2, BufferTold
  <1>5. e \in Extents /\ e.hi = Ends(a)
    BY <1>4, ExtentHolds
  <1>6. BlockLength \in Nat \ {0}
    BY ResamplingAssumption
  <1> HIDE DEF a, o, t, e
  <1>7. e.hi < Told /\ Told > 0 /\ Told \in Int
    BY <1>3, <1>4, <1>5, <1>6
  <1>8. Cached' = Cached /\ Files' = Files /\ Saves' = Saves /\ Loads' = Loads
    BY <1>1, CacheKept DEF Files, Saves, Loads
  <1>9. PartsOK'
    <2>1. events' \in Seq(Extents)
      BY <1>1, <1>2, <1>5
    <2> QED
      BY <1>1, <1>2, <1>8, <2>1 DEF PartsOK
  <1>10. Ahead'
    <2> DEFINE R == {x \in Extents : x.hi < Told}
    <2>1. events \in Seq(R)
      BY <1>2, <1>3 DEF Ahead
    <2>2. e \in R
      BY <1>5, <1>7
    <2> HIDE DEF R
    <2>3. events' \in Seq(R)
      BY <1>1, <2>1, <2>2
    <2>4. events' \in Seq({x \in Extents : x.hi < Told'})
      BY <1>3, <2>3 DEF R
    <2> QED
      BY <1>1, <1>2, <1>3, <1>7, <1>8, <2>4 DEF Ahead, Early, Extents, Writes, Clears, NoData
  <1>11. Chain'
    BY <1>1, <1>2, <1>3, <1>8 DEF Chain, Gaps, Ends
  <1>12. Saving' /\ Coded' /\ Loading' /\ Shorts'
    BY <1>1, <1>2, SavingKept, ShortsKept
  <1>13. Saved'
    BY <1>1, <1>2, <1>8 DEF Saved, Writes, Clears
  <1>14. Covered'
    <2>1. \A x : InSight(x) => InSight(x)'
      BY <1>1, <1>2, <1>5, SightGrows DEF e
    <2>2. commandQueue' \in Seq(Writes \cup Reads)' => commandQueue \in Seq(Writes \cup Reads)
      BY <1>1 DEF Writes, Reads
    <2> QED
      BY <1>1, <1>2, <1>8, <2>1, <2>2 DEF Covered, Empty, NoData
  <1> QED
    BY <1>9, <1>10, <1>11, <1>12, <1>13, <1>14 DEF StorageInv

-----------------------------------------------------------------------------
(* The union of two ranges is one and holds both.                            *)
LEMMA HullHolds ==
  ASSUME NEW r \in Views, NEW s \in Views
  PROVE  /\ Hull(r, s) \in Views
         /\ r.lo <= r.hi => Hull(r, s) \in Extents
         /\ \A t \in Int : r.hi < t /\ s.hi < t => Hull(r, s).hi < t
         /\ \A x \in Int : Lies(x, r) \/ Lies(x, s) => Lies(x, Hull(r, s))
  BY DEF Views, Hull, Extents, Lies

(* An event reaches the window. *)
LEMMA GuiStep ==
  ASSUME CaptureInv, GuiThread
  PROVE  StorageInv'
  <1> DEFINE h == Head(events)
             other == IF kind = "logic" THEN radioView ELSE logicView
             taken == IF kind = "logic" THEN data' ELSE logicView
  <1>1. /\ events # <<>> /\ events' = Tail(events)
        /\ data' = IF data = NoData THEN h ELSE Hull(data, h)
        /\ receivedTime' = Received(data', taken)
        /\ logicView' = Hull(data', other) /\ radioView' = Hull(data', other)
        /\ UNCHANGED <<signalCache, commandQueue, job, file>>
        /\ UNCHANGED <<kind, phase, resampled, streaming, produced, resampling>>
    BY DEF GuiThread, SignalBufferEvent, resamplerVars, storageVars, captureVars
  <1>2. /\ PartsOK /\ Ahead /\ Chain /\ Saving /\ Saved /\ Coded /\ Loading /\ Shorts /\ Covered
        /\ events \in Seq(Extents) /\ (data = NoData \/ data \in Extents) /\ signalCache \in Seq(Buffers)
        /\ receivedTime \in Views /\ logicView \in Views /\ radioView \in Views
        /\ resampling \in Int
    BY DEF CaptureInv, StorageInv, PartsOK
  <1>3. h \in Extents /\ events' \in Seq(Extents) /\ \A R : events \in Seq(R) => h \in R /\ events' \in Seq(R)
    BY <1>1, <1>2, QueueTail
  <1>4. \A r \in Extents : r \in Views /\ r # NoData /\ r.lo <= r.hi
    BY DEF Extents, Views, NoData
  <1> HIDE DEF h, other, taken
  <1>5. data' \in Extents /\ data' \in Views /\ data' # NoData
    <2>1. data' \in Extents
      BY <1>1, <1>2, <1>3, <1>4, HullHolds
    <2> QED
      BY <1>4, <2>1
  <1>6. other \in Views /\ taken \in Views
    BY <1>2, <1>5 DEF other, taken
  <1>7. logicView' \in Views /\ radioView' \in Views
    BY <1>1, <1>5, <1>6, HullHolds
  <1>8. /\ receivedTime' \in Views
        /\ receivedTime'.hi \in {taken.hi, receivedTime.hi}
    BY <1>1, <1>2, <1>5, <1>6 DEF Received, Views
  <1>9. Told' = Told /\ Drained' = Drained /\ Cached' = Cached /\ Told \in Int
        /\ Files' = Files /\ Saves' = Saves /\ Loads' = Loads
    BY <1>1, <1>2, CacheKept, ResamplingAssumption DEF Told, Drained, Files, Saves, Loads
  <1>10. PartsOK'
    BY <1>1, <1>2, <1>3, <1>5, <1>7, <1>8, <1>9 DEF PartsOK
  <1>11. Ahead'
    <2> SUFFICES ASSUME ~Drained PROVE Ahead'
      BY <1>9 DEF Ahead
    <2> DEFINE R == {x \in Extents : x.hi < Told}
    <2>1. Ahead /\ Told > 0 /\ events \in Seq(R) /\ (data # NoData => data.hi < Told)
      BY <1>1, <1>2 DEF Ahead
    <2>2. h \in R /\ events' \in Seq(R)
      BY <1>3, <2>1
    <2>3. h.hi < Told
      BY <2>2
    <2>4. data'.hi < Told
      BY <1>1, <1>2, <1>3, <1>4, <1>9, <2>1, <2>3, HullHolds
    <2>5. receivedTime.hi < Told /\ logicView.hi < Told /\ radioView.hi < Told
      BY <1>9, <2>1 DEF Ahead, Early
    <2>6. other.hi < Told /\ taken.hi < Told
      BY <2>4, <2>5 DEF other, taken
    <2>7. logicView'.hi < Told /\ radioView'.hi < Told
      BY <1>1, <1>5, <1>6, <1>9, <2>4, <2>6, HullHolds
    <2>8. receivedTime'.hi < Told
      BY <1>8, <2>5, <2>6
    <2>9. events' \in Seq({x \in Extents : x.hi < Told'})
      BY <1>9, <2>2
    <2> HIDE DEF R
    <2>10. Early(receivedTime)' /\ Early(logicView)' /\ Early(radioView)'
      BY <1>9, <2>7, <2>8 DEF Early
    <2> QED
      BY <1>1, <1>9, <2>1, <2>4, <2>9, <2>10 DEF Ahead, Extents, Writes, Clears, NoData
  <1>12. Chain'
    BY <1>1, <1>2, <1>9 DEF Chain, Gaps, Ends
  <1>13. Saving' /\ Coded' /\ Loading' /\ Shorts'
    BY <1>1, <1>2, SavingKept, ShortsKept
  <1>14. Saved'
    BY <1>1, <1>2, <1>9 DEF Saved, Writes, Clears
  <1>15. ASSUME NEW x \in Int, InSight(x) PROVE InSight(x)'
    <2>1. CASE data # NoData /\ Lies(x, data)
      <3>1. data' = Hull(data, h) /\ data \in Views /\ h \in Views
        BY <1>1, <1>2, <1>3, <1>4, <2>1
      <3>2. Lies(x, data')
        BY <2>1, <3>1, HullHolds
      <3> QED
        BY <1>5, <3>2 DEF InSight, Lies, NoData
    <2>2. CASE \E n \in 1..Len(events) : Lies(x, events[n])
      <3>1. PICK n \in 1..Len(events) : Lies(x, events[n])
        BY <2>2
      <3>2. CASE n = 1
        <4>1. Lies(x, h)
          BY <1>1, <1>2, <3>1, <3>2 DEF h
        <4>2. Lies(x, data')
          <5>1. CASE data = NoData
            BY <1>1, <4>1, <5>1
          <5>2. CASE data # NoData
            <6>1. data' = Hull(data, h) /\ data \in Views /\ h \in Views
              BY <1>1, <1>2, <1>3, <1>4, <5>2
            <6> QED
              BY <4>1, <6>1, HullHolds
          <5> QED
            BY <5>1, <5>2
        <4> QED
          BY <1>5, <4>2 DEF InSight, Lies, NoData
      <3>3. CASE n # 1
        <4> DEFINE k == n - 1
        <4>1. k \in 1..Len(events') /\ events'[k] = events[n]
          BY <1>1, <1>2, <3>1, <3>3
        <4> HIDE DEF k
        <4>2. Lies(x, events'[k])
          BY <3>1, <4>1
        <4> QED
          BY <4>1, <4>2 DEF InSight, Lies
      <3> QED
        BY <3>2, <3>3
    <2>3. CASE phase = "control" /\ Lies(x, Extent(Buffer))
      <3>1. Extent(Buffer)' = Extent(Buffer)
        BY <1>1 DEF Extent, Buffer, Absolute
      <3> QED
        BY <1>1, <2>3, <3>1 DEF InSight, Lies
    <2> QED
      BY <1>15, <2>1, <2>2, <2>3 DEF InSight
  <1>16. kind = "logic" => receivedTime' = data'
    <2> SUFFICES ASSUME kind = "logic" PROVE receivedTime' = data'
      OBVIOUS
    <2> DEFINE r == receivedTime
               v == data'
    <2>1. receivedTime' = [lo |-> IF v.lo < r.lo \/ r.lo = 0 THEN v.lo ELSE r.lo,
                           hi |-> IF v.hi > r.hi \/ r.hi = 0 THEN v.hi ELSE r.hi]
      BY <1>1 DEF Received, taken
    <2>2. v = [lo |-> v.lo, hi |-> v.hi] /\ v.lo \in Int /\ v.hi \in Int
      BY <1>5 DEF Views
    <2>3. CASE data = NoData
      <3>1. r.lo = 0 /\ r.hi = 0
        BY <1>2, <2>3 DEF Covered, Empty
      <3> QED
        BY <2>1, <2>2, <3>1
    <2>4. CASE data # NoData
      <3>1. r = data /\ data \in Extents /\ v = Hull(data, h)
        BY <1>1, <1>2, <2>4 DEF Covered
      <3>2. /\ v.lo = IF r.lo < h.lo THEN r.lo ELSE h.lo
            /\ v.hi = IF r.hi > h.hi THEN r.hi ELSE h.hi
        BY <3>1 DEF Hull
      <3>3. r.lo \in Int /\ r.hi \in Int /\ h.lo \in Int /\ h.hi \in Int
        BY <1>3, <3>1 DEF Extents
      <3> HIDE DEF r, v
      <3>4. /\ v.lo = IF v.lo < r.lo \/ r.lo = 0 THEN v.lo ELSE r.lo
            /\ v.hi = IF v.hi > r.hi \/ r.hi = 0 THEN v.hi ELSE r.hi
        BY <2>2, <3>2, <3>3
      <3>5. receivedTime' = [lo |-> v.lo, hi |-> v.hi]
        BY <2>1, <3>4
      <3>6. receivedTime' = v
        BY <2>2, <3>5
      <3> QED
        BY <3>6 DEF v
    <2> QED
      BY <2>3, <2>4
  <1>17. Covered'
    <2>1. ASSUME commandQueue' \in Seq(Writes \cup Reads)', NEW n \in 1..Len(Cached'), NEW x, x = Cached'[n].at
          PROVE  InSight(x)'
      <3>1. commandQueue \in Seq(Writes \cup Reads)
        BY <1>1, <2>1 DEF Writes, Reads
      <3>2. n \in 1..Len(Cached) /\ x = Cached[n].at
        BY <1>9, <2>1
      <3>3. x \in Int
        <4>1. Cached[n] \in Spots
          BY <1>2, <3>2, CachedJoined
        <4> QED
          BY <3>2, <4>1 DEF Spots
      <3>4. InSight(x)
        BY <1>2, <3>1, <3>2 DEF Covered
      <3> QED
        BY <1>15, <3>3, <3>4
    <2>2. commandQueue' \in Seq(Writes \cup Reads)' => \A n \in 1..Len(Cached') : InSight(Cached[n].at)'
      BY <2>1
    <2> QED
      BY <1>1, <1>5, <1>16, <2>2 DEF Covered, NoData
  <1> QED
    BY <1>10, <1>11, <1>12, <1>13, <1>14, <1>17 DEF StorageInv

-----------------------------------------------------------------------------
(* A command of the user's leaves the storage alone.                         *)
UserMoves ==
  UNCHANGED <<signalCache, job, file, events, kind, phase, resampled, streaming, produced, resampling>>

(* ... and all that is made of it as it was. *)
LEMMA WithinUser ==
  ASSUME CaptureInv, UserMoves
  PROVE  /\ Chain' /\ Saving' /\ Coded' /\ Loading' /\ Shorts'
         /\ Told' = Told /\ Drained' = Drained /\ Told \in Int /\ Cached' = Cached
         /\ Files' = Files /\ Saves' = Saves /\ Loads' = Loads
         /\ \A x : data' = data => (InSight(x)' <=> InSight(x))
  <1> USE DEF UserMoves
  <1>1. /\ Chain /\ Saving /\ Coded /\ Loading /\ Shorts /\ resampling \in Int
    BY DEF CaptureInv, StorageInv, PartsOK
  <1>2. Told' = Told /\ Drained' = Drained /\ Told \in Int /\ Cached' = Cached
        /\ Files' = Files /\ Saves' = Saves /\ Loads' = Loads
    BY <1>1, CacheKept, ResamplingAssumption DEF Told, Drained, Files, Saves, Loads
  <1>3. Chain'
    BY <1>1, <1>2 DEF Chain, Gaps, Ends
  <1>4. Saving' /\ Coded' /\ Loading' /\ Shorts'
    BY <1>1, SavingKept, ShortsKept
  <1>5. ASSUME NEW x, data' = data PROVE InSight(x)' <=> InSight(x)
    BY <1>5 DEF InSight, Lies, Extent, Buffer, Absolute, NoData
  <1> QED
    BY <1>2, <1>3, <1>4, <1>5

(* A save is asked for, of a range the storage has been told. *)
LEMMA SaveStep ==
  ASSUME CaptureInv, UserMoves, NEW from \in Int, NEW to \in Int, ~Drained => to < Told,
         commandQueue' = commandQueue \o <<[op |-> "write", from |-> from, to |-> to]>>,
         UNCHANGED <<data, logicView, radioView, receivedTime>>
  PROVE  StorageInv'
  <1> DEFINE w == [op |-> "write", from |-> from, to |-> to]
  <1>1. PartsOK /\ Ahead /\ Saved /\ Covered /\ commandQueue \in Seq(Commands)
    BY DEF CaptureInv, StorageInv, PartsOK
  <1>2. w \in Writes /\ w \in Commands /\ w.to = to
    BY DEF Writes, Commands
  <1>3. commandQueue' = commandQueue \o <<w>>
    OBVIOUS
  <1> HIDE DEF w
  <1>4. \A R : w \in R => <<w>> \in Seq(R)
    OBVIOUS
  <1>5. /\ commandQueue' \in Seq(Commands)
        /\ \A R : commandQueue \in Seq(R) /\ w \in R => commandQueue' \in Seq(R)
        /\ \A R : commandQueue' \in Seq(R) => commandQueue \in Seq(R)
    BY <1>1, <1>2, <1>3, <1>4, QueueConcat
  <1>6. PartsOK'
    BY <1>1, <1>5, WithinUser DEF PartsOK, UserMoves
  <1>7. Ahead'
    <2> SUFFICES ASSUME ~Drained PROVE Ahead'
      BY WithinUser DEF Ahead
    <2> DEFINE R == {c \in Writes : c.to < Told} \cup Clears
    <2>1. commandQueue \in Seq(R)
      BY <1>1 DEF Ahead
    <2>2. w \in R
      BY <1>2
    <2> HIDE DEF R
    <2>3. commandQueue' \in Seq(R)
      BY <1>5, <2>1, <2>2
    <2>4. commandQueue' \in Seq({c \in Writes : c.to < Told'} \cup Clears)
      BY <2>3, WithinUser DEF R
    <2> QED
      BY <1>1, <2>4, WithinUser DEF Ahead, UserMoves, Early, Extents, Writes, Clears, NoData
  <1>8. Saved'
    <2>1. commandQueue \in Seq(Writes \cup Clears) => commandQueue' \in Seq(Writes \cup Clears)
      BY <1>2, <1>5
    <2> QED
      BY <1>1, <2>1, WithinUser DEF Saved, UserMoves, Writes, Clears
  <1>9. Covered'
    <2>1. commandQueue' \in Seq(Writes \cup Reads)' => commandQueue \in Seq(Writes \cup Reads)
      BY <1>5 DEF Writes, Reads
    <2>2. data' = data
      OBVIOUS
    <2> QED
      BY <1>1, <2>1, <2>2, WithinUser DEF Covered, UserMoves, NoData, Empty
  <1> QED
    BY <1>6, <1>7, <1>8, <1>9, WithinUser DEF StorageInv

(* The view is cleared, and then the storage. *)
LEMMA ResetStep ==
  ASSUME CaptureInv, UserMoves, ResetView, NEW t \in Seq(Commands), t # <<>>, t[1].op = "clear",
         ~Drained \/ file = NoFile => t \in Seq(Clears),
         commandQueue' = commandQueue \o t
  PROVE  StorageInv'
  <1>1. PartsOK /\ Ahead /\ Saved /\ Covered /\ commandQueue \in Seq(Commands)
    BY DEF CaptureInv, StorageInv, PartsOK
  <1>2. /\ data' = NoData /\ logicView' = Empty /\ radioView' = Empty /\ receivedTime' = Empty
        /\ Empty \in Views /\ Empty.hi = 0
    BY DEF ResetView, Empty, Views
  <1>3. /\ commandQueue' \in Seq(Commands)
        /\ \A R : commandQueue \in Seq(R) /\ t \in Seq(R) => commandQueue' \in Seq(R)
        /\ \A R : commandQueue' \in Seq(R) => t \in Seq(R)
    BY <1>1, QueueConcat
  <1>4. PartsOK'
    BY <1>1, <1>2, <1>3, WithinUser DEF PartsOK, UserMoves
  <1>5. Ahead'
    <2> SUFFICES ASSUME ~Drained PROVE Ahead'
      BY WithinUser DEF Ahead
    <2> DEFINE R == {c \in Writes : c.to < Told} \cup Clears
    <2>1. commandQueue \in Seq(R)
      BY <1>1 DEF Ahead
    <2>2. t \in Seq(R)
      OBVIOUS
    <2> HIDE DEF R
    <2>3. commandQueue' \in Seq(R)
      BY <1>3, <2>1, <2>2
    <2>4. commandQueue' \in Seq({c \in Writes : c.to < Told'} \cup Clears)
      BY <2>3, WithinUser DEF R
    <2>5. Early(receivedTime)' /\ Early(logicView)' /\ Early(radioView)'
      BY <1>2 DEF Early
    <2>6. /\ events' \in Seq({e \in Extents : e.hi < Told'}) /\ (events' # <<>> => Told' > 0)
          /\ job' \notin Loads' /\ (job' \in Saves' => job'.end < Told')
      BY <1>1, WithinUser DEF Ahead, UserMoves
    <2> QED
      BY <1>2, <2>4, <2>5, <2>6 DEF Ahead, Extents, Writes, Clears, NoData
  <1>6. Saved'
    <2>1. file = NoFile => commandQueue' \in Seq(Writes \cup Clears)
      <3> SUFFICES ASSUME file = NoFile PROVE commandQueue' \in Seq(Writes \cup Clears)
        OBVIOUS
      <3>1. t \in Seq(Writes \cup Clears)
        OBVIOUS
      <3>2. commandQueue \in Seq(Writes \cup Clears)
        BY <1>1 DEF Saved
      <3> QED
        BY <1>3, <3>1, <3>2
    <2> QED
      BY <1>1, <2>1, WithinUser DEF Saved, UserMoves, Writes, Clears
  <1>7. Covered'
    <2>1. t \notin Seq(Writes \cup Reads)
      <3> SUFFICES ASSUME t \in Seq(Writes \cup Reads) PROVE FALSE
        OBVIOUS
      <3>1. t[1] \in Writes \cup Reads
        OBVIOUS
      <3> QED
        BY <3>1 DEF Writes, Reads
    <2>2. commandQueue' \notin Seq(Writes \cup Reads)'
      BY <1>3, <2>1 DEF Writes, Reads
    <2> QED
      BY <1>2, <2>2 DEF Covered
  <1> QED
    BY <1>4, <1>5, <1>6, <1>7, WithinUser DEF StorageInv

(* The user selects no frame by its row: every range asked for is one of     *)
(* signal that has been shown.                                               *)
LEMMA UserStepInv ==
  ASSUME CaptureInv, ~SelectFrames, User
  PROVE  StorageInv'
  <1>1. UserMoves /\ UserStep
    BY DEF User, UserMoves, UserStep, SaveAll, SaveSelection, Save, ClearView, ResetView, resamplerVars, captureVars
  <1>2. /\ Ahead /\ (data = NoData \/ data \in Extents) /\ receivedTime \in Views
    BY DEF CaptureInv, StorageInv, PartsOK
  <1>3. ASSUME NEW from \in Int, NEW to \in Int, Save(from, to), ~Drained => to < Told
        PROVE  StorageInv'
    BY <1>1, <1>3, SaveStep DEF Save, Post
  <1>4. Told \in Int
    BY <1>1, WithinUser
  <1>5. CASE SaveAll
    <2>1. receivedTime.lo \in Int /\ receivedTime.hi \in Int
      BY <1>2 DEF Views
    <2>2. data # NoData
      BY <1>5 DEF SaveAll, Save
    <2>3. ~Drained => receivedTime.hi < Told
      BY <1>2, <1>4, <2>1, <2>2 DEF Ahead, Early
    <2> QED
      BY <1>3, <1>5, <2>1, <2>3 DEF SaveAll
  <1>6. CASE SaveSelection
    <2>1. PICK from \in data.lo..data.hi, to \in data.lo..data.hi : Save(from, to)
      BY <1>6 DEF SaveSelection
    <2>2. data # NoData
      BY <2>1 DEF Save
    <2>3. data.lo \in Int /\ data.hi \in Int
      BY <1>2, <2>2 DEF Extents
    <2>4. from \in Int /\ to \in Int /\ to <= data.hi
      BY <2>3
    <2>5. ~Drained => to < Told
      BY <1>2, <1>4, <2>2, <2>3, <2>4 DEF Ahead
    <2> QED
      BY <1>3, <2>1, <2>4, <2>5
  <1>7. CASE ClearView
    <2> DEFINE c == ClearThen(<<>>)
    <2>1. ResetView /\ commandQueue' = commandQueue \o <<c>>
      BY <1>7 DEF ClearView, Post
    <2>2. c \in Clears /\ c \in Commands /\ c.op = "clear"
      BY DEF ClearThen, Clears, Commands
    <2> HIDE DEF c
    <2>3. <<c>> \in Seq(Commands) /\ <<c>> \in Seq(Clears) /\ <<c>> # <<>> /\ <<c>>[1] = c
      BY <2>2
    <2> QED
      BY <1>1, <2>1, <2>2, <2>3, ResetStep
  <1> QED
    BY <1>1, <1>5, <1>6, <1>7 DEF UserStep

(* A file is opened once the capture is over. *)
LEMMA OpenStep ==
  ASSUME CaptureInv, Open
  PROVE  StorageInv'
  <1> DEFINE c == ClearThen(<<>>)
             d == ClearThen(<<[op |-> "read"]>>)
  <1>1. /\ UserMoves /\ ResetView /\ Drained /\ file # NoFile /\ commandQueue' = commandQueue \o <<c, d>>
    BY DEF Open, OpenFile, UserMoves, ResetView, Post, resamplerVars, captureVars
  <1>2. c \in Commands /\ d \in Commands /\ c.op = "clear"
    BY DEF ClearThen, Clears, Commands
  <1> HIDE DEF c, d
  <1>3. <<c, d>> \in Seq(Commands) /\ <<c, d>> # <<>> /\ <<c, d>>[1] = c
    BY <1>2
  <1> QED
    BY <1>1, <1>2, <1>3, ResetStep

-----------------------------------------------------------------------------
(* More points leave the first one first. *)
LEMMA FirstKept ==
  ASSUME NEW S, NEW s \in Seq(S), s # <<>>, NEW e
  PROVE  /\ Append(s, e) \in Seq(S \cup {e}) /\ Append(s, e) # <<>> /\ Append(s, e)[1] = s[1]
         /\ Len(Append(s, e)) = Len(s) + 1 /\ Append(s, e)[Len(s) + 1] = e
         /\ \A n \in 1..Len(s) : Append(s, e)[n] = s[n]
  OBVIOUS

(* A block whose scan goes on begins with its first sample still. *)
LEMMA WholeScan ==
  ASSUME Inv, Whole, ScanLogic \/ ScanRadio \/ Flip, resampling' = resampling
  PROVE  Whole'
  <1>1. /\ phase = "scan" /\ phase' \in {"scan", "storage"} /\ resampling' # 0
        /\ resampled # <<>> /\ resampled[1].at = 0
    BY DEF ScanLogic, ScanRadio, Scanning, Flip, Whole
  <1>2. resampled \in Seq(Points)
    BY DEF Inv, ResamplerTypeOK, Points
  <1>3. CASE ScanLogic \/ ScanRadio
    <2>1. /\ phase' = "scan"
          /\ \/ resampled' = resampled
             \/ \E e : resampled' = Append(resampled, e)
             \/ \E d, e : resampled' = Append(Append(resampled, d), e)
      BY <1>3 DEF ScanLogic, ScanRadio, Scanning, WithPrevious
    <2>2. \A e : Append(resampled, e) # <<>> /\ Append(resampled, e)[1].at = 0
      BY <1>1, <1>2, FirstKept
    <2>3. \A d, e : Append(Append(resampled, d), e) # <<>> /\ Append(Append(resampled, d), e)[1].at = 0
      <3> SUFFICES ASSUME NEW d, NEW e
                   PROVE  Append(Append(resampled, d), e) # <<>> /\ Append(Append(resampled, d), e)[1].at = 0
        OBVIOUS
      <3> DEFINE more == Append(resampled, d)
      <3>1. more \in Seq(Points \cup {d}) /\ more # <<>> /\ more[1].at = 0
        BY <1>1, <1>2, FirstKept
      <3> HIDE DEF more
      <3>2. Append(more, e) # <<>> /\ Append(more, e)[1] = more[1]
        BY <3>1, FirstKept
      <3> QED
        BY <3>1, <3>2 DEF more
    <2>4. resampled' # <<>> /\ resampled'[1].at = 0
      BY <1>1, <2>1, <2>2, <2>3
    <2> QED
      BY <1>1, <2>1, <2>4 DEF Whole
  <1>4. CASE Flip
    <2>1. /\ Len(samples) = BlockLength
          /\ resampled' = resampled \/ resampled' = Append(resampled, Point(Previous, Len(samples) - 1))
      BY <1>4 DEF Flip, Index
    <2>2. Len(samples) \in Int /\ \A n \in 1..Len(resampled) : resampled[n].at < BlockLength
      BY <1>1, <2>1 DEF Inv, AtControl
    <2> DEFINE e == Point(Previous, Len(samples) - 1)
    <2>3. e.at < BlockLength
      BY <2>1, <2>2 DEF Point
    <2>4. resampled' = resampled \/ resampled' = Append(resampled, e)
      BY <2>1
    <2> HIDE DEF e
    <2>5. /\ resampled' # <<>> /\ resampled'[1].at = 0
          /\ \A n \in 1..Len(resampled') : resampled'[n].at < BlockLength
      <3>1. CASE resampled' = resampled
        BY <1>1, <2>2, <3>1
      <3>2. CASE resampled' = Append(resampled, e)
        <4>1. /\ resampled' # <<>> /\ resampled'[1] = resampled[1] /\ Len(resampled') = Len(resampled) + 1
              /\ resampled'[Len(resampled) + 1] = e /\ \A n \in 1..Len(resampled) : resampled'[n] = resampled[n]
          BY <1>1, <1>2, <3>2, FirstKept
        <4>2. Len(resampled) \in Nat
          BY <1>2
        <4>3. \A n \in 1..Len(resampled') : n \in 1..Len(resampled) \/ n = Len(resampled) + 1
          BY <4>1, <4>2
        <4> QED
          BY <1>1, <2>2, <2>3, <4>1, <4>3
      <3> QED
        BY <2>4, <3>1, <3>2
    <2> QED
      BY <1>1, <2>5 DEF Whole
  <1> QED
    BY <1>3, <1>4

(* Every step keeps the blocks whole. *)
LEMMA WholeStep ==
  ASSUME CaptureInv, [Next]_vars
  PROVE  Whole'
  <1>1. Inv /\ Whole /\ resampling \in Nat
    BY DEF CaptureInv, StorageInv, PartsOK
  <1>2. CASE UNCHANGED <<phase, resampled, resampling>>
    BY <1>1, <1>2 DEF Whole
  <1>3. CASE TakeBuffer
    <2>1. /\ phase' = "scan" /\ resampling' = resampling + 1
          /\ \E v : resampled' \in {<<Point(v, 0)>>, <<Point(v, 0), Point(v, 0)>>}
      BY <1>3 DEF TakeBuffer, TakeLogic, TakeRadio
    <2>2. PICK v : resampled' \in {<<Point(v, 0)>>, <<Point(v, 0), Point(v, 0)>>}
      BY <2>1
    <2> DEFINE e == Point(v, 0)
    <2>3. e.at = 0 /\ resampled' \in {<<e>>, <<e, e>>}
      BY <2>2 DEF Point
    <2> HIDE DEF e
    <2>4. <<e>> # <<>> /\ <<e, e>> # <<>> /\ <<e>>[1] = e /\ <<e, e>>[1] = e
      OBVIOUS
    <2>5. resampled' # <<>> /\ resampled'[1].at = 0
      BY <2>3, <2>4
    <2>6. resampling' # 0
      BY <1>1, <2>1
    <2> QED
      BY <2>1, <2>5, <2>6 DEF Whole
  <1>4. CASE ScanBuffer
    BY <1>1, <1>4, WholeScan DEF ScanBuffer, captureVars
  <1>5. CASE CacheSignal
    BY <1>1, <1>5 DEF CacheSignal, TellStorage, captureVars, Whole
  <1>6. CASE PostSignal
    BY <1>6 DEF PostSignal, TellControl, Whole
  <1>7. CASE Produce \/ Stop \/ DecodeFrame \/ StorageThread \/ LoadChunk \/ GuiThread \/ User \/ Open
    BY <1>2, <1>7 DEF Produce, Stop, DecodeFrame, StorageThread, LoadChunk, GuiThread, User, Open,
                      resamplerVars, captureVars
  <1>8. CASE UNCHANGED vars
    BY <1>2, <1>8 DEF vars, resamplerVars, captureVars
  <1> QED
    BY <1>3, <1>4, <1>5, <1>6, <1>7, <1>8 DEF Next

(* A capture begins with the invariant ... *)
LEMMA CaptureInitInv == Init => CaptureInv
  <1> SUFFICES ASSUME Init PROVE CaptureInv
    OBVIOUS
  <1>1. /\ ResamplerInit /\ signalCache = <<>> /\ commandQueue = <<>> /\ job = Idle /\ file = NoFile
        /\ events = <<>> /\ data = NoData /\ logicView = Empty /\ radioView = Empty /\ receivedTime = Empty
        /\ streaming = TRUE /\ produced = 0 /\ resampling = 0 /\ phase = "idle"
    BY DEF Init, StorageInit, WindowInit, ResamplerInit
  <1>2. Inv
    BY <1>1, InitInv
  <1>3. Whole
    BY <1>1 DEF Whole
  <1>4. \A S : <<>> \in Seq(S)
    OBVIOUS
  <1>5. Cached = <<>>
    BY <1>1, <1>4, CachedJoined
  <1>6. PartsOK
    BY <1>1, <1>4 DEF PartsOK, Views, Empty
  <1>7. job \notin Saves /\ job \notin Loads /\ job.op = "idle" /\ file.op = "none"
    BY <1>1, JobKinds DEF NoFile
  <1>8. Ahead
    BY <1>1, <1>4, <1>7 DEF Ahead, Early, Empty
  <1>9. Chain /\ Shorts /\ Covered
    <2> DEFINE none == <<>>
    <2>1. Cached = none /\ Len(none) = 0 /\ none \in Seq([value : 0..SampleModulus - 1, at : Int])
      BY <1>5
    <2> QED
      BY <1>1, <1>7, <2>1 DEF Chain, Shorts, Covered, Gaps
  <1>10. Saving /\ Coded /\ Loading /\ Saved
    BY <1>1, <1>4, <1>7 DEF Saving, Coded, Loading, Saved
  <1> QED
    BY <1>2, <1>3, <1>6, <1>8, <1>9, <1>10 DEF CaptureInv, StorageInv

(* ... and every step keeps it. *)
LEMMA CaptureStepInv ==
  ASSUME ~SelectFrames
  PROVE  CaptureInv /\ [Next]_vars => CaptureInv'
  <1> SUFFICES ASSUME CaptureInv, [Next]_vars PROVE CaptureInv'
    OBVIOUS
  <1>1. Inv'
    BY StepResamples, StepInv DEF CaptureInv
  <1>2. Whole'
    BY WholeStep
  <1>3. StorageInv'
    <2>1. CASE Produce \/ Stop \/ DecodeFrame \/ TakeBuffer \/ ScanBuffer \/ UNCHANGED vars
      BY <2>1, CaptureSteps
    <2>2. CASE CacheSignal
      BY <2>2, StorageAssumption, CacheSignalStep
    <2>3. CASE PostSignal
      BY <2>3, StorageAssumption, PostSignalStep
    <2>4. CASE StorageThread
      <3>1. OthersRest /\ StorageStep
        BY <2>4 DEF StorageThread, OthersRest
      <3> QED
        BY <3>1, StorageAssumption, ClearStep, WriteStep, CountBufferStep, WriteHeaderStep,
           WriteBufferStep, CloseFileStep, ReadStep DEF StorageStep
    <2>5. CASE LoadChunk
      BY <2>5, StorageAssumption, LoadChunkStep
    <2>6. CASE GuiThread
      BY <2>6, GuiStep
    <2>7. CASE User
      BY <2>7, UserStepInv
    <2>8. CASE Open
      BY <2>8, OpenStep
    <2> QED
      BY <2>1, <2>2, <2>3, <2>4, <2>5, <2>6, <2>7, <2>8 DEF Next
  <1> QED
    BY <1>1, <1>2, <1>3 DEF CaptureInv

(* Whatever the threads of a capture do, and in whatever order, the inductive*)
(* invariant holds: the commands ask for nothing the storage has not been told,*)
(* the cache is one chain of near points, and saves and loads are as far as  *)
(* their file says.                                                          *)
THEOREM CaptureInvariance ==
  ASSUME ~SelectFrames
  PROVE  Spec => []CaptureInv
  BY CaptureInitInv, CaptureStepInv, PTL DEF Spec

(* writeRadioEntry, writeLogicEntry: without a selection by frame the cache  *)
(* may grow while a save counts and while it writes, and the header still    *)
(* announces what follows it, for nothing new is in the range.               *)
THEOREM HeadersTrue ==
  ASSUME ~SelectFrames
  PROVE  Spec => []HeaderCountsBody
  <1>1. CaptureInv => HeaderCountsBody
    BY DEF CaptureInv, StorageInv, Saved, HeaderCountsBody
  <1> QED
    BY <1>1, CaptureInvariance, PTL

(* Whatever blocks, chunks and clears made the cache, its neighbours are      *)
(* near enough for the byte of the trace file.                                *)
THEOREM CacheFitsByte ==
  ASSUME ~SelectFrames
  PROVE  Spec => []CacheGapsFitByte
  <1>1. CaptureInv => CacheGapsFitByte
    BY DEF CaptureInv, StorageInv, Chain, Gaps, CacheGapsFitByte
  <1> QED
    BY <1>1, CaptureInvariance, PTL

(* signalBufferEvent: at rest the range of "Save all" holds whatever logic    *)
(* signal the storage has.                                                    *)
THEOREM LogicIsCovered ==
  ASSUME ~SelectFrames
  PROVE  Spec => []LogicSaveAllCovers
  <1>1. CaptureInv => LogicSaveAllCovers
    <2> SUFFICES ASSUME CaptureInv, kind = "logic", phase # "control", events = <<>>,
                        commandQueue = <<>>, data # NoData, NEW n \in 1..Len(Cached)
                 PROVE  Cached[n].at \in receivedTime.lo..receivedTime.hi
      BY DEF LogicSaveAllCovers, SaveAllCovers
    <2>1. Covered /\ data \in Extents /\ signalCache \in Seq(Buffers)
      BY DEF CaptureInv, StorageInv, PartsOK
    <2>2. commandQueue \in Seq(Writes \cup Reads)
      <3>1. \A S : <<>> \in Seq(S)
        OBVIOUS
      <3> QED
        BY <3>1
    <2>3. InSight(Cached[n].at) /\ receivedTime = data
      BY <2>1, <2>2 DEF Covered
    <2>4. ~ (\E k \in 1..Len(events) : Lies(Cached[n].at, events[k]))
      OBVIOUS
    <2>5. Lies(Cached[n].at, data)
      BY <2>3, <2>4 DEF InSight
    <2>6. Cached[n].at \in Int
      <3>1. Cached[n] \in Spots
        BY <2>1, CachedJoined
      <3> QED
        BY <3>1 DEF Spots
    <2> QED
      BY <2>1, <2>3, <2>5, <2>6 DEF Lies, Extents
  <1> QED
    BY <1>1, CaptureInvariance, PTL

-----------------------------------------------------------------------------
(* The points of a file, read in one piece.                                  *)
LEMMA MeaningOf ==
  ASSUME file \in Files, file.total = Len(file.body)
  PROVE  /\ Len(file.body) \in Nat
         /\ Meaning = [n \in 1..Len(file.body) |-> Entry(n)]
         /\ \A n \in 1..Len(file.body) :
              SumOf(file.body, n, "delta") \in Int /\ SumOf(file.body, n, "value") \in Int
         /\ \A n \in 1..Len(file.body) :
              /\ SumOf(file.body, n, "delta") = SumOf(file.body, n - 1, "delta") + file.body[n].delta
              /\ SumOf(file.body, n, "value") = SumOf(file.body, n - 1, "value") + file.body[n].value
         /\ SumOf(file.body, 0, "delta") = 0 /\ SumOf(file.body, 0, "value") = 0
  <1> DEFINE B == file.body
             N == Len(B)
             At(n) == SumOf(B, n, "delta")
             Value(n) == SumOf(B, n, "value")
  <1>1. B \in Seq(Entries) /\ file.start \in Int /\ SampleModulus \in Nat \ {0} /\ file.total = N
        /\ Interval \in Nat
    BY StorageAssumption, ResamplingAssumption DEF Files
  <1>2. N \in Nat /\ DOMAIN B = 1..N /\ \A n \in 1..N : B[n] \in Entries
    BY <1>1
  <1>3. Numbers(B, N, "delta") /\ Numbers(B, N, "value")
    <2>1. \A e \in Entries : e["delta"] \in Int /\ e["value"] \in Int
      BY <1>1 DEF Entries
    <2> QED
      BY <1>2, <2>1 DEF Numbers
  <1>4. /\ \A n \in 0..N : At(n) \in Int /\ Value(n) \in Int
        /\ \A n \in 1..N : At(n) = At(n - 1) + B[n].delta /\ Value(n) = Value(n - 1) + B[n].value
        /\ At(0) = 0 /\ Value(0) = 0
    BY <1>2, <1>3, SumStep
  <1> HIDE DEF B, N, At, Value
  <1>5. SubSeq(B, 1, N) = B
    BY <1>1 DEF N
  <1>6. ASSUME NEW n \in 1..N
        PROVE  LET p == Decoded(B, 0)[n] IN [p EXCEPT !.at = @ + file.start] = Entry(n)
    <2> DEFINE v == IF kind = "radio" THEN (0 + Value(n)) % SampleModulus ELSE B[n].value
               p == Decoded(B, 0)[n]
    <2>1. p = Point(v, At(n))
      BY <1>2 DEF Decoded, Value, At
    <2>2. Entry(n) = Point(IF kind = "radio" THEN Value(n) % SampleModulus ELSE B[n].value,
                           file.start + At(n))
      BY DEF Entry, Value, At, B
    <2>3. At(n) \in Int /\ 0 + Value(n) = Value(n)
      BY <1>2, <1>4
    <2>4. v = IF kind = "radio" THEN Value(n) % SampleModulus ELSE B[n].value
      BY <2>3
    <2> HIDE DEF v, p
    <2>5. [p EXCEPT !.at = @ + file.start] = Point(v, At(n) + file.start)
      BY <2>1 DEF Point
    <2>6. At(n) + file.start = file.start + At(n)
      BY <1>1, <2>3
    <2> QED
      BY <2>2, <2>4, <2>5, <2>6 DEF p
  <1>7. Meaning = [n \in 1..N |-> LET p == Decoded(B, 0)[n] IN [p EXCEPT !.at = @ + file.start]]
    BY <1>1, <1>2, <1>5 DEF Meaning, B
  <1>8. Meaning = [n \in 1..N |-> Entry(n)]
    BY <1>6, <1>7
  <1>9. \A n \in 1..N : n \in 0..N
    BY <1>2
  <1> QED
    BY <1>2, <1>4, <1>8, <1>9 DEF B, N, At, Value

(* A step that ends a load is one of LoadChunk. *)
LEMMA ChunkIsLoaded ==
  ASSUME [Next]_vars, ReadChunk, job' = Idle
  PROVE  LoadChunk
  <1>1. job.op = "read" /\ job' # job /\ job # Idle
    BY DEF ReadChunk, Idle
  <1>2. ~ StorageThread
    BY <1>1 DEF StorageThread, StorageStep, Clear, Write, CountBuffer, WriteHeader, WriteBuffer,
                CloseFile, Read, Command
  <1>3. ~ (Produce \/ Stop \/ DecodeFrame \/ TakeBuffer \/ ScanBuffer \/ CacheSignal \/ PostSignal)
    BY <1>1 DEF Produce, Stop, DecodeFrame, TakeBuffer, ScanBuffer, CacheSignal, PostSignal, storageVars
  <1>4. ~ (GuiThread \/ User \/ Open \/ UNCHANGED vars)
    BY <1>1 DEF GuiThread, User, Open, vars, storageVars
  <1> QED
    BY <1>2, <1>3, <1>4 DEF Next

(* readRadioEntry, readLogicEntry: however a file is cut into chunks, what is *)
(* loaded is what it stands for.                                              *)
THEOREM LoadsAreFaithful ==
  ASSUME ~SelectFrames
  PROVE  Spec => LoadYieldsFile
  <1>1. CaptureInv /\ [Next]_vars => [ReadChunk /\ job' = Idle => Cached' = Meaning]_vars
    <2> SUFFICES ASSUME CaptureInv, [Next]_vars, ReadChunk, job' = Idle PROVE Cached' = Meaning
      OBVIOUS
    <2>1. LoadChunk
      BY ChunkIsLoaded
    <2>2. Len(Cached') = Len(file.body) /\ \A n \in 1..Len(Cached') : Cached'[n] = Entry(n)
      BY <2>1, StorageAssumption, LoadChunkStep
    <2>3. file \in Files /\ file.total = Len(file.body)
      <3>1. PartsOK /\ Saved
        BY DEF CaptureInv, StorageInv
      <3>2. job \in Loads /\ job \notin Saves
        BY <3>1, JobKinds DEF ReadChunk, PartsOK
      <3> QED
        BY <3>1, <3>2 DEF Saved, PartsOK, Files
    <2>4. Meaning = [n \in 1..Len(file.body) |-> Entry(n)]
      BY <2>3, MeaningOf
    <2>5. Cached' \in Seq(Spots)
      <3>1. CaptureInv'
        BY CaptureStepInv
      <3>2. signalCache' \in Seq(Buffers)'
        BY <3>1 DEF CaptureInv, StorageInv, PartsOK
      <3>3. (signalCache \in Seq(Buffers) => Cached \in Seq(Spots))'
        BY CachedJoined, PTL
      <3> QED
        BY <3>2, <3>3 DEF Spots
    <2>6. Cached' = [n \in 1..Len(Cached') |-> Cached'[n]]
      BY <2>5
    <2> QED
      BY <2>2, <2>4, <2>6
  <1> QED
    BY <1>1, CaptureInvariance, PTL DEF Spec, LoadYieldsFile

-----------------------------------------------------------------------------
(* What is chosen lies in the range. *)
LEMMA WithinBounds ==
  ASSUME NEW P, NEW points \in Seq(P), NEW start, NEW end
  PROVE  \A n \in 1..Len(Within(points, start, end)) :
           start <= Within(points, start, end)[n].at /\ Within(points, start, end)[n].at <= end
  <1> DEFINE Inside(s) == \A n \in 1..Len(s) : start <= s[n].at /\ s[n].at <= end
             T == {s \in Seq(P) : Inside(Within(s, start, end))}
  <1>1. <<>> \in T
    <2>1. \A s : s = <<>> => Inside(s)
      OBVIOUS
    <2> HIDE DEF Inside
    <2> QED
      BY <2>1, WithinNothing
  <1>2. ASSUME NEW u \in Seq(P), NEW e \in P, u \in T PROVE Append(u, e) \in T
    <2> DEFINE w == Within(u, start, end)
    <2>1. w \in Seq(P) /\ Inside(w)
      BY <1>2, WithinIn
    <2>2. Within(Append(u, e), start, end) = IF start <= e.at /\ e.at <= end THEN Append(w, e) ELSE w
      BY WithinAppend
    <2> HIDE DEF w
    <2>3. start <= e.at /\ e.at <= end => Inside(Append(w, e))
      <3> SUFFICES ASSUME start <= e.at, e.at <= end, NEW n \in 1..Len(Append(w, e))
                   PROVE  start <= Append(w, e)[n].at /\ Append(w, e)[n].at <= end
        OBVIOUS
      <3>1. CASE n \in 1..Len(w)
        BY <2>1, <3>1
      <3>2. CASE n \notin 1..Len(w)
        <4>1. Append(w, e)[n] = e
          BY <2>1, <3>2
        <4> QED
          BY <4>1
      <3> QED
        BY <3>1, <3>2
    <2> HIDE DEF Inside
    <2>4. Inside(Within(Append(u, e), start, end))
      BY <2>1, <2>2, <2>3
    <2> QED
      BY <2>4
  <1> HIDE DEF T
  <1>3. Grows(T, P)
    BY <1>1, <1>2 DEF Grows
  <1>4. points \in T
    BY <1>3, EverySequence
  <1> QED
    BY <1>4 DEF T

(* A distance that fits its byte. *)
LEMMA SmallDelta ==
  ASSUME NEW x \in 0..Interval
  PROVE  x % DeltaModulus = x
  <1>1. DeltaModulus \in Nat \ {0} /\ x \in 0..DeltaModulus - 1
    BY StorageAssumption, ResamplingAssumption
  <1> QED
    BY <1>1, SmallRemainder

(* writeRadioEntry, writeLogicEntry: an anchored save stands for the points   *)
(* of its range, in whatever buffers they lie.                                *)
LEMMA SelectionHeld == CaptureInv => FileHoldsSelection
  <1> DEFINE P == Selection
             B == file.body
             N == Len(B)
             s == job.start
             shift == IF kind = "radio" THEN job.start ELSE 0
             At(n) == SumOf(B, n, "delta")
             Value(n) == SumOf(B, n, "value")
  <1> SUFFICES ASSUME CaptureInv, Written, Anchored PROVE Meaning = Moved(P, shift)
    BY DEF FileHoldsSelection
  <1>1. /\ PartsOK /\ Saving /\ Coded /\ Chain /\ Shorts /\ kind \in Kinds
        /\ signalCache \in Seq(Buffers) /\ job.op = "body" /\ ~ (job.next <= Len(signalCache))
    BY DEF CaptureInv, StorageInv, PartsOK, Inv, ResamplerTypeOK, Written, More
  <1>2. job \in Saves
    BY <1>1, JobKinds DEF PartsOK
  <1>3. job.next - 1 = Len(signalCache) /\ s \in Int /\ job.end \in Int
    <2>1. job.next \in Nat /\ job.next <= Len(signalCache) + 1 /\ Len(signalCache) \in Nat
      BY <1>1, <1>2 DEF Saving, Saves
    <2> QED
      BY <1>1, <1>2, <2>1 DEF Saves
  <1>4. Picked(job.next - 1) = P
    BY <1>1, <1>3, PickedParts
  <1>5. /\ file \in Files /\ file.total = N /\ N = Len(P) /\ file.start = StartOffset
        /\ signalCache # <<>>
    BY <1>1, <1>2, <1>4 DEF Saving
  <1>6. \A n \in 1..Len(P) : B[n] = Code(P, n)
    BY <1>1, <1>4 DEF Coded
  <1>7. /\ P \in Seq(Spots) /\ Gaps(P) /\ \A n \in 1..Len(P) : s <= P[n].at
        /\ kind = "radio" => P \in Seq([value : 0..SampleModulus - 1, at : Int])
    <2>1. Cached \in Seq(Spots) /\ Gaps(Cached)
      BY <1>1, CachedJoined DEF Chain
    <2>2. kind = "radio" => Cached \in Seq([value : 0..SampleModulus - 1, at : Int])
      BY <1>1 DEF Shorts
    <2>3. P = Within(Cached, s, job.end)
      BY DEF Selection
    <2>4. P \in Seq(Spots) /\ Gaps(P)
      BY <1>3, <2>1, <2>3, WithinIn, GapsWithin
    <2>5. kind = "radio" => P \in Seq([value : 0..SampleModulus - 1, at : Int])
      BY <2>2, <2>3, WithinIn
    <2>6. \A n \in 1..Len(P) : s <= P[n].at
      BY <2>1, <2>3, WithinBounds
    <2> QED
      BY <2>4, <2>5, <2>6
  <1>8. P # <<>> => P[1].at - s < DeltaModulus
    BY DEF Anchored
  <1>9. file.start = IF kind = "radio" THEN 0 ELSE s
    <2>1. CASE kind = "radio"
      BY <1>5, <2>1 DEF StartOffset
    <2>2. CASE kind # "radio"
      <3>1. kind = "logic" /\ signalCache[1].offset <= s
        BY <1>1, <2>2 DEF Anchored, Kinds
      <3>2. signalCache[1].offset \in Int
        <4>1. signalCache[1] \in Buffers
          BY <1>1, <1>5
        <4> QED
          BY <4>1 DEF Buffers
      <3>3. ~ (signalCache[1].offset > s)
        BY <1>3, <3>1, <3>2
      <3> QED
        BY <1>5, <2>2, <3>3 DEF StartOffset
    <2> QED
      BY <2>1, <2>2
  <1>10. /\ N \in Nat /\ Meaning = [n \in 1..N |-> Entry(n)] /\ At(0) = 0 /\ Value(0) = 0
         /\ \A n \in 1..N : At(n) \in Int /\ Value(n) \in Int
         /\ \A n \in 1..N : At(n) = At(n - 1) + B[n].delta /\ Value(n) = Value(n - 1) + B[n].value
    BY <1>5, MeaningOf
  <1>11. \A n \in 1..N : P[n] \in Spots /\ P[n].at \in Int /\ P[n].value \in Int
    <2>1. \A n \in 1..N : P[n] \in Spots
      BY <1>5, <1>7
    <2> QED
      BY <2>1 DEF Spots
  <1>12. /\ SampleModulus \in Nat \ {0} /\ DeltaModulus = Interval + 1 /\ Interval \in Nat
    BY StorageAssumption, ResamplingAssumption
  <1>13. ASSUME NEW n \in 1..N
         PROVE  /\ B[n].delta = P[n].at - (IF n = 1 THEN s ELSE P[n - 1].at)
                /\ B[n].value = Difference(P[n].value, IF n = 1 THEN 0 ELSE P[n - 1].value)
                /\ n # 1 => n - 1 \in 1..N
    <2> DEFINE before == IF n = 1 THEN s ELSE P[n - 1].at
               x == P[n].at - before
    <2>1. n # 1 => n - 1 \in 1..N
      BY <1>10
    <2>2. n # 1 => P[n].at - P[n - 1].at \in 0..Interval
      <3> SUFFICES ASSUME n # 1 PROVE P[n].at - P[n - 1].at \in 0..Interval
        OBVIOUS
      <3> DEFINE k == n - 1
      <3>1. k \in 1..Len(P) - 1 /\ n = k + 1
        BY <1>5, <1>10
      <3> HIDE DEF k
      <3>2. P[k + 1].at - P[k].at \in 0..Interval
        BY <1>7, <3>1 DEF Gaps
      <3> QED
        BY <3>1, <3>2 DEF k
    <2>3. n = 1 => P[n].at - s \in 0..Interval
      <3> SUFFICES ASSUME n = 1 PROVE P[n].at - s \in 0..Interval
        OBVIOUS
      <3>1. P # <<>> /\ 1 \in 1..Len(P)
        BY <1>5
      <3>2. s <= P[1].at /\ P[1].at - s < DeltaModulus /\ P[1].at \in Int
        BY <1>5, <1>7, <1>8, <1>11, <3>1
      <3> QED
        BY <1>3, <1>12, <3>2
    <2>4. x \in 0..Interval
      BY <2>2, <2>3
    <2>5. B[n].delta = x % DeltaModulus /\ B[n].value = Difference(P[n].value, IF n = 1 THEN 0 ELSE P[n - 1].value)
      <3>1. n \in 1..Len(P)
        BY <1>5
      <3>2. B[n] = Code(P, n)
        BY <1>6, <3>1
      <3> HIDE DEF P, B
      <3>3. B[n] = CodeAfter(P, n, s, 0)
        BY <3>2 DEF Code
      <3> HIDE DEF s
      <3> QED
        BY <3>3 DEF CodeAfter
    <2> HIDE DEF x
    <2>6. B[n].delta = x
      BY <2>4, <2>5, SmallDelta
    <2> QED
      BY <2>1, <2>5, <2>6 DEF x
  <1> HIDE DEF P, B, N, s, At, Value
  <1>14. \A n \in 1..N : At(n) = P[n].at - s
    <2> DEFINE T == {n \in 0..N : n # 0 => At(n) = P[n].at - s}
    <2>1. 0 \in T
      BY <1>10
    <2>2. ASSUME NEW n \in 1..N, n - 1 \in T PROVE n \in T
      <3>1. At(n) = At(n - 1) + (P[n].at - (IF n = 1 THEN s ELSE P[n - 1].at))
        BY <1>10, <1>13
      <3>2. CASE n = 1
        <4>1. At(n) = 0 + (P[n].at - s)
          BY <1>10, <3>1, <3>2
        <4> QED
          BY <1>3, <1>11, <4>1
      <3>3. CASE n # 1
        <4> DEFINE x == P[n].at
                   y == P[n - 1].at
        <4>1. n - 1 \in 1..N /\ At(n - 1) = y - s
          BY <1>13, <2>2, <3>3
        <4>2. x \in Int /\ y \in Int /\ At(n) = (y - s) + (x - y)
          BY <1>11, <3>1, <3>3, <4>1
        <4> HIDE DEF x, y
        <4>3. At(n) = x - s
          BY <1>3, <4>2
        <4> QED
          BY <4>3 DEF x
      <3> QED
        BY <3>2, <3>3
    <2> HIDE DEF T
    <2>3. 0..N \subseteq T
      BY <1>10, <2>1, <2>2, UpTo
    <2> QED
      BY <1>10, <2>3 DEF T
  <1>15. ASSUME kind = "radio", NEW n \in 1..N PROVE P[n].value \in 0..SampleModulus - 1
    <2> DEFINE S == [value : 0..SampleModulus - 1, at : Int]
    <2>1. P \in Seq(S) /\ n \in 1..Len(P)
      BY <1>5, <1>7, <1>15
    <2> HIDE DEF S
    <2>2. P[n] \in S
      BY <2>1, ElementIn
    <2> QED
      BY <2>2 DEF S
  <1>16. ASSUME kind = "radio" PROVE \A n \in 1..N : Value(n) % SampleModulus = P[n].value
    <2> DEFINE T == {n \in 0..N : n # 0 => Value(n) % SampleModulus = P[n].value}
    <2>1. 0 \in T
      BY <1>10
    <2>2. ASSUME NEW n \in 1..N, n - 1 \in T PROVE n \in T
      <3> DEFINE x == P[n].value
                 y == IF n = 1 THEN 0 ELSE P[n - 1].value
                 z == Value(n - 1)
      <3>1. Value(n) = z + ((x - y) % SampleModulus)
        BY <1>10, <1>13, <1>16 DEF Difference
      <3>2. n # 1 => n - 1 \in 1..N
        BY <1>13
      <3>3. x \in 0..SampleModulus - 1
        BY <1>15, <1>16
      <3>4. y \in Int /\ z \in Int
        <4>1. CASE n = 1
          BY <1>10, <4>1
        <4>2. CASE n # 1
          BY <1>10, <1>11, <3>2, <4>2
        <4> QED
          BY <4>1, <4>2
      <3>5. z % SampleModulus = y % SampleModulus
        <4>1. CASE n = 1
          BY <1>10, <4>1
        <4>2. CASE n # 1
          <5>1. n - 1 \in 1..N /\ z % SampleModulus = y
            BY <2>2, <3>2, <4>2
          <5>2. y \in 0..SampleModulus - 1
            <6>1. P[n - 1].value \in 0..SampleModulus - 1
              BY <1>15, <1>16, <5>1
            <6> QED
              BY <4>2, <6>1
          <5> HIDE DEF y, z
          <5> QED
            BY <1>12, <5>1, <5>2, SmallRemainder
        <4> QED
          BY <4>1, <4>2
      <3> HIDE DEF x, y, z
      <3>6. x \in Int /\ x - y \in Int /\ y + (x - y) = x
        BY <1>12, <3>3, <3>4
      <3>7. (z + ((x - y) % SampleModulus)) % SampleModulus = (z + (x - y)) % SampleModulus
        BY <1>12, <3>4, <3>6, RemainderOfSum
      <3>8. ((z % SampleModulus) + (x - y)) % SampleModulus = (z + (x - y)) % SampleModulus
        BY <1>12, <3>4, <3>6, RemainderOfSum
      <3>9. ((y % SampleModulus) + (x - y)) % SampleModulus = (y + (x - y)) % SampleModulus
        BY <1>12, <3>4, <3>6, RemainderOfSum
      <3>10. x % SampleModulus = x
        BY <1>12, <3>3, SmallRemainder
      <3>11. Value(n) % SampleModulus = x
        BY <3>1, <3>5, <3>6, <3>7, <3>8, <3>9, <3>10
      <3> QED
        BY <3>11 DEF x
    <2> HIDE DEF T
    <2>3. 0..N \subseteq T
      BY <1>10, <2>1, <2>2, UpTo
    <2> QED
      BY <1>10, <2>3 DEF T
  <1>17. ASSUME NEW n \in 1..N PROVE Entry(n) = [P[n] EXCEPT !.at = @ - shift]
    <2> DEFINE v == IF kind = "radio" THEN Value(n) % SampleModulus ELSE B[n].value
    <2>1. Entry(n) = Point(v, file.start + At(n))
      BY DEF Entry, Value, At, B
    <2>2. v = P[n].value
      <3>1. CASE kind = "radio"
        BY <1>16, <3>1
      <3>2. CASE kind # "radio"
        BY <1>13, <3>2 DEF Difference
      <3> QED
        BY <3>1, <3>2
    <2>3. file.start + At(n) = P[n].at - shift
      <3> DEFINE x == P[n].at
      <3>1. x \in Int /\ At(n) = x - s /\ s \in Int
        BY <1>3, <1>11, <1>14
      <3>2. file.start = (IF kind = "radio" THEN 0 ELSE s) /\ shift = IF kind = "radio" THEN s ELSE 0
        BY <1>9 DEF s
      <3> HIDE DEF x, shift
      <3> QED
        BY <3>1, <3>2 DEF x
    <2>4. P[n] = [value |-> P[n].value, at |-> P[n].at]
      BY <1>11 DEF Spots
    <2> HIDE DEF v, shift
    <2>5. Entry(n) = [value |-> P[n].value, at |-> P[n].at - shift]
      BY <2>1, <2>2, <2>3 DEF Point
    <2> QED
      BY <2>4, <2>5
  <1>18. DOMAIN P = 1..N
    BY <1>5, <1>7
  <1> HIDE DEF shift
  <1> QED
    BY <1>10, <1>17, <1>18 DEF Moved

(* writeRadioEntry, writeLogicEntry: a finished save stands for the signal of *)
(* its range, point by point, whatever is cached meanwhile.                   *)
THEOREM SavesAreFaithful ==
  ASSUME ~SelectFrames
  PROVE  Spec => []FileHoldsSelection
  BY SelectionHeld, CaptureInvariance, PTL
=============================================================================
