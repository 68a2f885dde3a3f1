------------------------ MODULE SignalResamplingProofs ------------------------
(***************************************************************************)
(* The resampling of a buffer for every interval, buffer length and choice *)
(* of samples: the distances fit the byte of the trace file, and no edge   *)
(* is lost.  The key of the invariant is that the last point is always the *)
(* control point, with the sample's own value, and never more than         *)
(* Interval samples behind the scan.                                       *)
(***************************************************************************)
EXTENDS SignalResamplingTask, TLAPS

Points == [value : Levels(kind), at : 0..BlockLength]

(* The last point is the control point, and the scan is near it. *)
AtControl ==
  phase = "scan" =>
    /\ Len(samples) \in 1..BlockLength
    /\ Len(resampled) \in Nat \ {0}
    /\ control \in 0..Len(samples) - 1
    /\ resampled[Len(resampled)] = Point(samples[control + 1].value, control)
    /\ Len(samples) - control <= Interval
    /\ \A n \in 1..Len(resampled) : resampled[n].at < Len(samples)

(* A finished buffer ends near the next one. *)
EndsNear ==
  phase \in {"storage", "control"} =>
    /\ Len(resampled) \in Nat \ {0}
    /\ BlockLength - resampled[Len(resampled)].at <= Interval

(* Nothing is scanned outside of a scan. *)
AtRest == phase \in {"idle", "control"} => samples = <<>>

Inv ==
  /\ ResamplerTypeOK
  /\ AtControl
  /\ Near(resampled)
  /\ EndsNear
  /\ AtRest
  /\ EdgesKept

-----------------------------------------------------------------------------
(* What Append does to the elements of a sequence. *)
LEMMA Appended ==
  ASSUME NEW S, NEW s \in Seq(S), NEW e \in S
  PROVE  /\ Append(s, e) \in Seq(S)
         /\ Len(s) \in Nat
         /\ Len(Append(s, e)) = Len(s) + 1
         /\ \A n \in 1..Len(s) : Append(s, e)[n] = s[n] /\ s[n] \in S
         /\ Append(s, e)[Len(s) + 1] = e
  OBVIOUS

(* A sequence of a single element, or of two. *)
LEMMA Short ==
  ASSUME NEW S, NEW e \in S
  PROVE  /\ <<e>> \in Seq(S) /\ Len(<<e>>) = 1 /\ <<e>>[1] = e
         /\ <<e, e>> \in Seq(S) /\ Len(<<e, e>>) = 2 /\ <<e, e>>[1] = e /\ <<e, e>>[2] = e
  OBVIOUS

(* An element of a sequence. *)
LEMMA ElementIn ==
  ASSUME NEW S, NEW s \in Seq(S), NEW n \in 1..Len(s)
  PROVE  s[n] \in S
  OBVIOUS

(* The place of a point is a number. *)
LEMMA ElementOfPoints ==
  ASSUME NEW points \in Seq(Points), NEW n \in 1..Len(points)
  PROVE  points[n] \in Points /\ points[n].at \in Int
  <1>1. points[n] \in Points
    OBVIOUS
  <1> QED
    BY <1>1, ResamplingAssumption DEF Points

(* A point near the last one keeps its neighbours near. *)
LEMMA NearAppend ==
  ASSUME NEW points \in Seq(Points), NEW e \in Points, Len(points) # 0, Near(points),
         points[Len(points)].at <= e.at, e.at - points[Len(points)].at <= Interval
  PROVE  Near(Append(points, e))
  <1> SUFFICES ASSUME NEW n \in 1..Len(Append(points, e)) - 1
               PROVE  /\ Append(points, e)[n].at <= Append(points, e)[n + 1].at
                      /\ Append(points, e)[n + 1].at - Append(points, e)[n].at <= Interval
    BY DEF Near
  <1>1. n \in 1..Len(points) /\ Len(points) \in Nat
    BY Appended
  <1>2. CASE n = Len(points)
    BY <1>1, <1>2, Appended
  <1>3. CASE n # Len(points)
    <2>1. n \in 1..Len(points) - 1 /\ n + 1 \in 1..Len(points)
      BY <1>1, <1>3
    <2>2. Append(points, e)[n] = points[n] /\ Append(points, e)[n + 1] = points[n + 1]
      BY <1>1, <2>1, Appended
    <2> QED
      BY <2>1, <2>2 DEF Near
  <1> QED
    BY <1>2, <1>3

(* What is among the points stays there. *)
LEMMA InAppend ==
  ASSUME NEW points \in Seq(Points), NEW e \in Points, NEW v, NEW s,
         In(v, s, points) \/ e = Point(v, s)
  PROVE  In(v, s, Append(points, e))
  <1>1. CASE e = Point(v, s)
    <2>1. Len(points) + 1 \in 1..Len(Append(points, e))
      BY Appended
    <2> QED
      BY <1>1, <2>1, Appended DEF In
  <1>2. CASE In(v, s, points)
    <2>1. PICK n \in 1..Len(points) : points[n] = Point(v, s)
      BY <1>2 DEF In
    <2>2. n \in 1..Len(Append(points, e)) /\ Append(points, e)[n] = points[n]
      BY Appended
    <2> QED
      BY <2>1, <2>2 DEF In
  <1> QED
    BY <1>1, <1>2

(* More points keep the edges. *)
LEMMA EdgesAppend ==
  ASSUME NEW scanned, NEW points \in Seq(Points), NEW e \in Points, Edges(scanned, points)
  PROVE  Edges(scanned, Append(points, e))
  <1> SUFFICES ASSUME NEW s \in 0..Len(scanned) - 1, scanned[s + 1].kept
               PROVE  /\ In(scanned[s + 1].value, s, Append(points, e))
                      /\ s > 0 => In(scanned[s].value, s - 1, Append(points, e))
    BY DEF Edges
  <1> QED
    BY InAppend DEF Edges

(* A sample at the level of the last point needs no point. *)
LEMMA HoldsSample ==
  ASSUME NEW S, NEW scanned \in Seq(S), NEW x \in S, NEW points \in Seq(Points),
         Len(points) # 0, Holds(scanned, points),
         \A n \in 1..Len(points) : points[n].at < Len(scanned),
         x.value = points[Len(points)].value
  PROVE  Holds(Append(scanned, x), points)
  <1> SUFFICES ASSUME NEW n \in 1..Len(points), NEW s \in 0..Len(Append(scanned, x)) - 1,
                      points[n].at <= s,
                      n < Len(points) => s < points[n + 1].at
               PROVE  Append(scanned, x)[s + 1].value = points[n].value
    BY DEF Holds
  <1>1. Len(scanned) \in Nat /\ Len(points) \in Nat
    OBVIOUS
  <1>2. CASE s = Len(scanned)
    <2>1. n = Len(points)
      <3>1. ASSUME n < Len(points) PROVE FALSE
        <4>1. n + 1 \in 1..Len(points)
          BY <3>1, <1>1
        <4>2. points[n + 1].at < Len(scanned) /\ points[n + 1].at \in Int
          BY <4>1, ElementOfPoints
        <4> QED
          BY <3>1, <4>2, <1>2, <1>1
      <3> QED
        BY <3>1, <1>1
    <2> QED
      BY <2>1, <1>2, Appended
  <1>3. CASE s # Len(scanned)
    <2>1. s \in 0..Len(scanned) - 1 /\ s + 1 \in 1..Len(scanned)
      BY <1>3, <1>1, Appended
    <2>2. Append(scanned, x)[s + 1] = scanned[s + 1]
      BY <2>1, Appended
    <2> QED
      BY <2>1, <2>2 DEF Holds
  <1> QED
    BY <1>2, <1>3

(* Any sample may come with a point of its own. *)
LEMMA HoldsPoint ==
  ASSUME NEW S, NEW scanned \in Seq(S), NEW x \in S, NEW points \in Seq(Points),
         NEW e \in Points, e = Point(x.value, Len(scanned)),
         Holds(scanned, points),
         \A n \in 1..Len(points) : points[n].at < Len(scanned)
  PROVE  Holds(Append(scanned, x), Append(points, e))
  <1> DEFINE longer == Append(points, e)
  <1> SUFFICES ASSUME NEW n \in 1..Len(longer), NEW s \in 0..Len(Append(scanned, x)) - 1,
                      longer[n].at <= s,
                      n < Len(longer) => s < longer[n + 1].at
               PROVE  Append(scanned, x)[s + 1].value = longer[n].value
    BY DEF Holds
  <1> HIDE DEF longer
  <1>1. /\ Len(scanned) \in Nat /\ Len(points) \in Nat
        /\ Len(longer) = Len(points) + 1
        /\ longer[Len(points) + 1] = e
        /\ \A m \in 1..Len(points) : longer[m] = points[m]
    BY Appended DEF longer
  <1>2. CASE s = Len(scanned)
    <2>1. ASSUME n # Len(points) + 1 PROVE FALSE
      <3>1. n \in 1..Len(points) /\ n + 1 \in 1..Len(longer)
        BY <2>1, <1>1
      <3>2. longer[n + 1].at <= Len(scanned) /\ longer[n + 1].at \in Int
        <4>1. CASE n + 1 = Len(points) + 1
          BY <4>1, <1>1 DEF Point
        <4>2. CASE n + 1 # Len(points) + 1
          <5>1. n + 1 \in 1..Len(points)
            BY <4>2, <3>1, <1>1
          <5> QED
            BY <5>1, <1>1, ElementOfPoints
        <4> QED
          BY <4>1, <4>2
      <3> QED
        BY <3>1, <3>2, <1>2, <1>1
    <2>2. longer[n].value = x.value
      BY <2>1, <1>1 DEF Point
    <2> QED
      BY <2>2, <1>2, Appended
  <1>3. CASE s # Len(scanned)
    <2>1. s \in 0..Len(scanned) - 1 /\ s + 1 \in 1..Len(scanned)
      BY <1>3, <1>1, Appended
    <2>2. Append(scanned, x)[s + 1] = scanned[s + 1]
      BY <2>1, Appended
    <2>3. n \in 1..Len(points)
      BY <2>1, <1>1 DEF Point
    <2>4. n < Len(points) => s < points[n + 1].at
      <3>1. SUFFICES ASSUME n < Len(points) PROVE s < points[n + 1].at
        OBVIOUS
      <3>2. n + 1 \in 1..Len(points)
        BY <3>1, <2>3, <1>1
      <3> QED
        BY <3>1, <3>2, <1>1
    <2> QED
      BY <2>1, <2>2, <2>3, <2>4, <1>1 DEF Holds
  <1> QED
    BY <1>2, <1>3

(* One more sample keeps the edges, if it is a point when it must be. *)
LEMMA KeepsEdges ==
  ASSUME NEW scanned, NEW longer, NEW points,
         Len(scanned) \in Nat, Len(longer) = Len(scanned) + 1,
         \A n \in 1..Len(scanned) : longer[n] = scanned[n],
         Edges(scanned, points),
         longer[Len(scanned) + 1].kept =>
           /\ In(longer[Len(scanned) + 1].value, Len(scanned), points)
           /\ Len(scanned) > 0 => In(longer[Len(scanned)].value, Len(scanned) - 1, points)
  PROVE  Edges(longer, points)
  <1> SUFFICES ASSUME NEW s \in 0..Len(longer) - 1, longer[s + 1].kept
               PROVE  /\ In(longer[s + 1].value, s, points)
                      /\ s > 0 => In(longer[s].value, s - 1, points)
    BY DEF Edges
  <1>1. CASE s = Len(scanned)
    BY <1>1
  <1>2. CASE s # Len(scanned)
    <2>1. s \in 0..Len(scanned) - 1 /\ s + 1 \in 1..Len(scanned)
      BY <1>2
    <2>2. longer[s + 1] = scanned[s + 1] /\ (s > 0 => longer[s] = scanned[s])
      BY <2>1
    <2> QED
      BY <2>1, <2>2 DEF Edges
  <1> QED
    BY <1>1, <1>2

(* A sample has a level of its kind. *)
LEMMA LevelOfSample ==
  ASSUME Inv, NEW n \in 1..Len(samples)
  PROVE  samples[n].value \in Levels(kind)
  <1> DEFINE S == [value : Levels(kind), kept : BOOLEAN]
  <1>1. samples \in Seq(S)
    BY DEF Inv, ResamplerTypeOK
  <1>2. samples[n] \in S
    <2> HIDE DEF S
    <2> QED
      BY <1>1, ElementIn
  <1> QED
    BY <1>2

(* What a scan starts with. *)
LEMMA ScanFacts ==
  ASSUME Inv, phase = "scan", Len(samples) < BlockLength
  PROVE  /\ samples \in Seq([value : Levels(kind), kept : BOOLEAN])
         /\ resampled \in Seq(Points)
         /\ Len(samples) \in Nat \ {0} /\ Len(resampled) \in Nat \ {0}
         /\ control \in 0..Len(samples) - 1
         /\ resampled[Len(resampled)] = Point(samples[control + 1].value, control)
         /\ Len(samples) - control <= Interval
         /\ \A n \in 1..Len(resampled) : resampled[n].at < Len(samples)
         /\ Near(resampled)
         /\ BlockLength \in Nat /\ Interval \in Nat \ {0}
  BY ResamplingAssumption DEF Inv, ResamplerTypeOK, AtControl, Points

LEMMA TakeInv == Inv /\ (TakeLogic \/ TakeRadio) => Inv'
  <1> SUFFICES ASSUME Inv, TakeLogic \/ TakeRadio PROVE Inv'
    OBVIOUS
  <1>1. PICK v \in Levels(kind), kept \in BOOLEAN :
          /\ samples' = <<Sample(v, kept)>>
          /\ \/ resampled' = <<Point(v, 0)>> /\ (kind = "radio" => ~kept)
             \/ resampled' = <<Point(v, 0), Point(v, 0)>> /\ kind = "radio"
    <2>1. CASE TakeLogic
      BY <2>1 DEF TakeLogic, Levels
    <2>2. CASE TakeRadio
      BY <2>2, ResamplingAssumption DEF TakeRadio, Levels
    <2> QED
      BY <2>1, <2>2
  <1>2. control' = 0 /\ phase' = "scan" /\ UNCHANGED kind
    BY DEF TakeLogic, TakeRadio
  <1> DEFINE x == Sample(v, kept)
             p == Point(v, 0)
  <1>3. /\ x \in [value : Levels(kind), kept : BOOLEAN] /\ x.value = v
        /\ p \in Points /\ p.at = 0
    BY ResamplingAssumption DEF Sample, Point, Points
  <1>4. /\ samples' \in Seq([value : Levels(kind), kept : BOOLEAN])
        /\ Len(samples') = 1 /\ samples'[1] = x
    <2> HIDE DEF x
    <2> QED
      BY <1>1, <1>3, Short DEF x
  <1>5. /\ resampled' \in Seq(Points)
        /\ Len(resampled') \in 1..2
        /\ \A n \in 1..Len(resampled') : resampled'[n] = p
    <2> HIDE DEF p
    <2>1. CASE resampled' = <<p>>
      BY <2>1, <1>3, Short
    <2>2. CASE resampled' = <<p, p>>
      BY <2>2, <1>3, Short
    <2> QED
      BY <2>1, <2>2, <1>1 DEF p
  <1>6. ResamplerTypeOK'
    BY <1>2, <1>4, <1>5, ResamplingAssumption DEF Inv, ResamplerTypeOK, Points
  <1>7. AtControl'
    <2> HIDE DEF x
    <2>1. Len(resampled') \in 1..Len(resampled')
      BY <1>5
    <2>2. samples'[control' + 1].value = v
      BY <1>2, <1>3, <1>4
    <2>3. resampled'[Len(resampled')] = Point(v, 0)
      BY <2>1, <1>5
    <2> HIDE DEF p
    <2> QED
      BY <2>1, <2>2, <2>3, <1>2, <1>3, <1>4, <1>5, ResamplingAssumption DEF AtControl
  <1>8. Near(resampled)' /\ EndsNear' /\ AtRest'
    <2> HIDE DEF x, p
    <2>1. \A n \in 1..Len(resampled') - 1 : resampled'[n] = p /\ resampled'[n + 1] = p
      BY <1>5
    <2>2. Near(resampled)'
      BY <2>1, <1>3, ResamplingAssumption DEF Near
    <2> QED
      BY <2>2, <1>2 DEF EndsNear, AtRest
  <1>9. EdgesKept'
    <2>1. Holds(samples, resampled)'
      BY <1>3, <1>4, <1>5 DEF Holds, Point
    <2>2. Edges(samples, resampled)'
      <3>1. 1 \in 1..Len(resampled') /\ resampled'[1] = Point(v, 0)
        BY <1>5
      <3>2. In(v, 0, resampled')
        BY <3>1 DEF In
      <3>3. \A s \in 0..Len(samples') - 1 : s = 0 /\ samples'[s + 1].value = v
        <4> HIDE DEF x
        <4> QED
          BY <1>3, <1>4
      <3> QED
        BY <3>2, <3>3 DEF Edges
    <2> QED
      BY <2>1, <2>2 DEF EdgesKept
  <1> QED
    BY <1>6, <1>7, <1>8, <1>9 DEF Inv

(* A sample that needs no point leaves the invariant. *)
LEMMA HoldInv ==
  ASSUME Inv, phase = "scan", Len(samples) < BlockLength,
         NEW v \in Levels(kind), NEW kept \in BOOLEAN,
         samples' = Append(samples, Sample(v, kept)),
         UNCHANGED <<kind, phase, control, resampled>>,
         ~Due,
         kind = "logic" => v = resampled[Len(resampled)].value,
         kind = "radio" => ~kept
  PROVE  Inv'
  <1> DEFINE S == [value : Levels(kind), kept : BOOLEAN]
             x == Sample(v, kept)
  <1>1. x \in S /\ x.value = v /\ x.kept = kept
    BY DEF Sample
  <1> HIDE DEF x
  <1>2. /\ samples \in Seq(S) /\ samples' \in Seq(S) /\ Len(samples') = Len(samples) + 1
        /\ \A n \in 1..Len(samples) : samples'[n] = samples[n]
        /\ samples'[Len(samples) + 1] = x
    <2>1. samples \in Seq(S) /\ samples' = Append(samples, x)
      BY ScanFacts DEF x
    <2> HIDE DEF S
    <2> QED
      BY <2>1, <1>1, Appended
  <1>3. ResamplerTypeOK'
    BY <1>2, ScanFacts DEF Inv, ResamplerTypeOK
  <1>4. AtControl'
    <2>1. control + 1 \in 1..Len(samples)
      BY ScanFacts
    <2>2. samples'[control + 1] = samples[control + 1]
      BY <2>1, <1>2
    <2>3. \A n \in 1..Len(resampled) : resampled[n].at < Len(samples')
      BY <1>2, ScanFacts, ElementOfPoints
    <2> QED
      BY <1>2, <2>2, <2>3, ScanFacts DEF AtControl, Due, Index
  <1>5. Near(resampled)' /\ EndsNear' /\ AtRest'
    BY DEF Inv, EndsNear, AtRest
  <1>6. EdgesKept'
    <2>1. CASE kind = "logic"
      <3>1. Holds(samples, resampled)
        BY <2>1 DEF Inv, EdgesKept
      <3>2. samples \in Seq(S) /\ samples' = Append(samples, x) /\ resampled \in Seq(Points)
        BY ScanFacts DEF x
      <3> HIDE DEF S
      <3>3. Holds(samples', resampled)
        BY <2>1, <3>1, <3>2, <1>1, ScanFacts, HoldsSample
      <3> QED
        BY <2>1, <3>3 DEF EdgesKept
    <2>2. CASE kind = "radio"
      <3>1. Edges(samples, resampled)
        BY <2>2 DEF Inv, EdgesKept
      <3>2. Edges(samples', resampled)
        BY <2>2, <3>1, <1>1, <1>2, ScanFacts, KeepsEdges
      <3> QED
        BY <2>2, <3>2 DEF EdgesKept
    <2> QED
      BY <2>1, <2>2 DEF Inv, ResamplerTypeOK, Kinds
  <1> QED
    BY <1>3, <1>4, <1>5, <1>6 DEF Inv

(* A sample that is stored after points that are fit to be followed by it. *)
LEMMA StoreInv ==
  ASSUME Inv, phase = "scan", Len(samples) < BlockLength,
         NEW v \in Levels(kind), NEW kept \in BOOLEAN,
         NEW points \in Seq(Points),
         samples' = Append(samples, Sample(v, kept)),
         resampled' = Append(points, Point(v, Len(samples))),
         control' = Len(samples),
         UNCHANGED <<kind, phase>>,
         Len(points) # 0, Near(points),
         Len(samples) - points[Len(points)].at <= Interval,
         \A n \in 1..Len(points) : points[n].at < Len(samples),
         kind = "logic" => Holds(samples, points),
         kind = "radio" => Edges(samples, points),
         kind = "radio" /\ kept => In(samples[Len(samples)].value, Len(samples) - 1, points)
  PROVE  Inv'
  <1> DEFINE S == [value : Levels(kind), kept : BOOLEAN]
             x == Sample(v, kept)
             e == Point(v, Len(samples))
  <1>1. /\ x \in S /\ x.value = v /\ x.kept = kept
        /\ e \in Points /\ e.at = Len(samples) /\ e = Point(x.value, Len(samples))
    BY ScanFacts DEF Sample, Point, Points
  <1> HIDE DEF x, e
  <1>2. /\ samples \in Seq(S) /\ samples' \in Seq(S) /\ Len(samples') = Len(samples) + 1
        /\ \A n \in 1..Len(samples) : samples'[n] = samples[n]
        /\ samples'[Len(samples) + 1] = x
        /\ samples' = Append(samples, x)
    <2>1. samples \in Seq(S) /\ samples' = Append(samples, x)
      BY ScanFacts DEF x
    <2> HIDE DEF S
    <2> QED
      BY <2>1, <1>1, Appended
  <1>3. /\ resampled' = Append(points, e) /\ resampled' \in Seq(Points)
        /\ Len(points) \in Nat /\ Len(resampled') = Len(points) + 1
        /\ \A n \in 1..Len(points) : resampled'[n] = points[n]
        /\ resampled'[Len(points) + 1] = e
    <2>1. resampled' = Append(points, e)
      BY DEF e
    <2> QED
      BY <2>1, <1>1, Appended
  <1>4. ResamplerTypeOK'
    <2>1. samples' \in Seq(S) /\ resampled' \in Seq(Points)
      <3> HIDE DEF S
      <3> QED
        BY <1>1, <1>2, <1>3, Appended
    <2>2. kind' = kind /\ phase' = phase /\ kind \in Kinds /\ phase = "scan"
      BY DEF Inv, ResamplerTypeOK
    <2>3. Len(samples') \in 0..BlockLength /\ control' \in 0..BlockLength
      <3> HIDE DEF S
      <3>1. Len(samples) \in Nat /\ BlockLength \in Nat
        BY ScanFacts
      <3> QED
        BY <3>1, <1>2
    <2> QED
      BY <2>1, <2>2, <2>3 DEF ResamplerTypeOK, Points
  <1>5. AtControl'
    <2>1. \A n \in 1..Len(resampled') : resampled'[n].at < Len(samples')
      <3>1. ASSUME NEW n \in 1..Len(resampled') PROVE resampled'[n].at < Len(samples')
        <4>1. CASE n = Len(points) + 1
          BY <4>1, <1>1, <1>2, <1>3, ScanFacts
        <4>2. CASE n # Len(points) + 1
          <5>1. n \in 1..Len(points)
            BY <4>2, <1>3
          <5>2. resampled'[n] = points[n]
            BY <5>1, <1>3
          <5>3. points[n].at \in Int /\ points[n].at < Len(samples)
            BY <5>1, ElementOfPoints
          <5>4. Len(samples') = Len(samples) + 1 /\ Len(samples) \in Nat
            BY <1>2, ScanFacts
          <5> HIDE DEF S
          <5> QED
            BY <5>2, <5>3, <5>4
        <4> QED
          BY <4>1, <4>2
      <3> QED
        BY <3>1
    <2>2. resampled'[Len(resampled')] = Point(samples'[control' + 1].value, control')
      BY <1>1, <1>2, <1>3
    <2>3. /\ Len(samples') \in 1..BlockLength /\ Len(resampled') \in Nat \ {0}
          /\ control' \in 0..Len(samples') - 1 /\ Len(samples') - control' <= Interval
      <3> HIDE DEF S
      <3>1. /\ Len(samples) \in Nat /\ BlockLength \in Nat
            /\ Interval \in Nat \ {0}
        BY ScanFacts
      <3> QED
        BY <3>1, <1>2, <1>3
    <2> HIDE DEF S
    <2> QED
      BY <2>1, <2>2, <2>3 DEF AtControl
  <1>6. Near(resampled)' /\ EndsNear' /\ AtRest'
    <2>1. points[Len(points)].at <= e.at
      <3>1. Len(points) \in 1..Len(points)
        BY <1>3
      <3>2. points[Len(points)].at \in Int /\ points[Len(points)].at < Len(samples)
        BY <3>1, ElementOfPoints
      <3> QED
        BY <3>2, <1>1, ScanFacts
    <2>2. Near(resampled')
      BY <2>1, <1>1, <1>3, NearAppend
    <2> QED
      BY <2>2 DEF EndsNear, AtRest
  <1>7. EdgesKept'
    <2>1. CASE kind = "logic"
      <3> HIDE DEF S
      <3>1. Holds(samples', resampled')
        BY <2>1, <1>1, <1>2, <1>3, HoldsPoint
      <3> QED
        BY <2>1, <3>1 DEF EdgesKept
    <2>2. CASE kind = "radio"
      <3>1. Edges(samples, resampled')
        BY <2>2, <1>1, <1>3, EdgesAppend
      <3>2. In(v, Len(samples), resampled')
        BY <1>1, <1>3, InAppend
      <3>3. kept => In(samples[Len(samples)].value, Len(samples) - 1, resampled')
        BY <2>2, <1>1, <1>3, InAppend
      <3>4. Edges(samples', resampled')
        <4> HIDE DEF S
        <4>1. Len(samples) \in Nat \ {0}
          BY ScanFacts
        <4>2. samples'[Len(samples)] = samples[Len(samples)]
          BY <4>1, <1>2
        <4>3. samples'[Len(samples) + 1].kept =>
                /\ In(samples'[Len(samples) + 1].value, Len(samples), resampled')
                /\ In(samples'[Len(samples)].value, Len(samples) - 1, resampled')
          BY <3>2, <3>3, <4>2, <1>1, <1>2
        <4> QED
          BY <3>1, <4>1, <4>3, <1>2, KeepsEdges
      <3> QED
        BY <2>2, <3>4 DEF EdgesKept
    <2> QED
      BY <2>1, <2>2 DEF Inv, ResamplerTypeOK, Kinds
  <1> QED
    BY <1>4, <1>5, <1>6, <1>7 DEF Inv

LEMMA ScanLogicInv == Inv /\ ScanLogic => Inv'
  <1> SUFFICES ASSUME Inv, ScanLogic PROVE Inv'
    OBVIOUS
  <1>1. phase = "scan" /\ kind = "logic" /\ Len(samples) < BlockLength
    BY DEF ScanLogic, Scanning, Index
  <1>2. PICK v \in LogicLevels :
          LET differs == v # resampled[Len(resampled)].value IN
          /\ samples' = Append(samples, Sample(v, differs))
          /\ IF differs \/ Due
               THEN resampled' = Append(resampled, Point(v, Index)) /\ control' = Index
               ELSE UNCHANGED <<resampled, control>>
    BY DEF ScanLogic
  <1>3. v \in Levels(kind) /\ UNCHANGED <<kind, phase>>
    BY <1>1 DEF Levels, ScanLogic
  <1>4. CASE v # resampled[Len(resampled)].value \/ Due
    <2>1. Len(samples) - resampled[Len(resampled)].at <= Interval
      BY <1>1, ScanFacts DEF Point
    <2>2. Holds(samples, resampled)
      BY <1>1 DEF Inv, EdgesKept
    <2> QED
      BY <1>1, <1>2, <1>3, <1>4, <2>1, <2>2, ScanFacts, StoreInv DEF Index
  <1>5. CASE v = resampled[Len(resampled)].value /\ ~Due
    BY <1>1, <1>2, <1>3, <1>5, HoldInv
  <1> QED
    BY <1>4, <1>5

LEMMA ScanRadioInv == Inv /\ ScanRadio => Inv'
  <1> SUFFICES ASSUME Inv, ScanRadio PROVE Inv'
    OBVIOUS
  <1>1. phase = "scan" /\ kind = "radio" /\ Len(samples) < BlockLength
    BY DEF ScanRadio, Scanning, Index
  <1>2. PICK v \in RadioLevels[Index], deviates \in BOOLEAN :
          /\ samples' = Append(samples, Sample(v, deviates))
          /\ \/ /\ deviates
                /\ resampled' = Append(WithPrevious, Point(v, Index))
                /\ control' = Index
             \/ /\ ~deviates /\ Due
                /\ resampled' = Append(resampled, Point(v, Index))
                /\ control' = Index
             \/ /\ ~deviates /\ ~Due
                /\ UNCHANGED <<resampled, control>>
    BY DEF ScanRadio
  <1>3. v \in Levels(kind) /\ UNCHANGED <<kind, phase>>
    <2>1. Index \in 0..BlockLength - 1
      BY <1>1, ScanFacts DEF Index
    <2> QED
      BY <2>1, <1>1 DEF Levels, ScanRadio
  <1>4. /\ Edges(samples, resampled)
        /\ Len(samples) - resampled[Len(resampled)].at <= Interval
    BY <1>1, ScanFacts DEF Inv, EdgesKept, Point
  <1>5. CASE deviates /\ control < Len(samples) - 1
    <2> DEFINE e == Point(Previous, Index - 1)
               points == Append(resampled, e)
    <2>1. e \in Points /\ e.at = Len(samples) - 1 /\ e = Point(samples[Len(samples)].value, Len(samples) - 1)
      <3>1. samples[Len(samples)].value \in Levels(kind)
        BY <1>1, ScanFacts, LevelOfSample
      <3> QED
        BY <3>1, <1>1, ScanFacts DEF Point, Points, Previous, Index
    <2>2. /\ resampled' = Append(points, Point(v, Len(samples)))
          /\ control' = Len(samples)
      BY <1>2, <1>5 DEF WithPrevious, Index
    <2> HIDE DEF e
    <2>3. /\ points \in Seq(Points) /\ Len(points) = Len(resampled) + 1
          /\ \A n \in 1..Len(resampled) : points[n] = resampled[n]
          /\ points[Len(points)] = e
      BY <2>1, <1>1, ScanFacts, Appended
    <2>4. Near(points)
      <3>1. resampled[Len(resampled)].at = control
        BY <1>1, ScanFacts DEF Point
      <3> QED
        BY <3>1, <2>1, <1>1, <1>5, ScanFacts, NearAppend
    <2>5. \A n \in 1..Len(points) : points[n].at < Len(samples)
      <3>1. ASSUME NEW n \in 1..Len(points) PROVE points[n].at < Len(samples)
        <4>1. CASE n = Len(points)
          BY <4>1, <2>1, <2>3, <1>1, ScanFacts
        <4>2. CASE n # Len(points)
          <5>1. n \in 1..Len(resampled)
            BY <4>2, <2>3, <1>1, ScanFacts
          <5> QED
            BY <5>1, <2>3, <1>1, ScanFacts
        <4> QED
          BY <4>1, <4>2
      <3> QED
        BY <3>1
    <2>6. Len(samples) - points[Len(points)].at <= Interval
      BY <2>1, <2>3, <1>1, ScanFacts
    <2>7. Edges(samples, points) /\ In(samples[Len(samples)].value, Len(samples) - 1, points)
      BY <1>1, <1>4, <2>1, ScanFacts, EdgesAppend, InAppend
    <2>8. Len(points) # 0
      BY <2>3, <1>1, ScanFacts
    <2> HIDE DEF points
    <2> QED
      BY <1>1, <1>2, <1>3, <2>2, <2>3, <2>4, <2>5, <2>6, <2>7, <2>8, StoreInv
  <1>6. CASE deviates /\ ~(control < Len(samples) - 1)
    <2>1. control = Len(samples) - 1
      BY <1>1, <1>6, ScanFacts
    <2>2. In(samples[Len(samples)].value, Len(samples) - 1, resampled)
      <3>1. resampled[Len(resampled)] = Point(samples[Len(samples)].value, Len(samples) - 1)
        BY <2>1, <1>1, ScanFacts
      <3> QED
        BY <3>1, <1>1, ScanFacts DEF In
    <2>3. /\ resampled' = Append(resampled, Point(v, Len(samples)))
          /\ control' = Len(samples)
      BY <1>2, <1>6 DEF WithPrevious, Index
    <2> QED
      BY <1>1, <1>2, <1>3, <1>4, <2>2, <2>3, ScanFacts, StoreInv
  <1>7. CASE ~deviates /\ Due
    BY <1>1, <1>2, <1>3, <1>4, <1>7, ScanFacts, StoreInv DEF Index
  <1>8. CASE ~deviates /\ ~Due
    BY <1>1, <1>2, <1>3, <1>8, HoldInv
  <1> QED
    BY <1>5, <1>6, <1>7, <1>8

LEMMA FlipInv == Inv /\ Flip => Inv'
  <1> SUFFICES ASSUME Inv, Flip PROVE Inv'
    OBVIOUS
  <1>1. /\ phase = "scan" /\ Len(samples) = BlockLength /\ phase' = "storage"
        /\ UNCHANGED <<kind, samples, control>>
    BY DEF Flip, Index
  <1>2. /\ samples \in Seq([value : Levels(kind), kept : BOOLEAN])
        /\ resampled \in Seq(Points)
        /\ Len(samples) \in Nat \ {0} /\ Len(resampled) \in Nat \ {0}
        /\ control \in 0..Len(samples) - 1
        /\ resampled[Len(resampled)].at = control
        /\ Len(samples) - control <= Interval
        /\ Near(resampled) /\ EdgesKept
        /\ BlockLength \in Nat \ {0} /\ Interval \in Nat \ {0}
    BY <1>1, ResamplingAssumption DEF Inv, ResamplerTypeOK, AtControl, Points, Point
  <1>3. CASE kind = "radio" /\ control < Len(samples) - 1
    <2> DEFINE e == Point(Previous, Index - 1)
    <2>1. e \in Points /\ e.at = Len(samples) - 1
      <3>2. samples[Len(samples)].value \in Levels(kind)
        BY <1>2, LevelOfSample
      <3> QED
        BY <3>2, <1>1, <1>2 DEF Point, Points, Previous, Index
    <2>2. resampled' = Append(resampled, e)
      BY <1>3 DEF Flip, Index
    <2> HIDE DEF e
    <2>3. /\ resampled' \in Seq(Points) /\ Len(resampled') = Len(resampled) + 1
          /\ resampled'[Len(resampled')] = e
      BY <1>2, <2>1, <2>2, Appended
    <2>4. Near(resampled')
      BY <1>2, <1>3, <2>1, <2>2, NearAppend
    <2>5. Edges(samples, resampled')
      BY <1>2, <1>3, <2>1, <2>2, EdgesAppend DEF EdgesKept
    <2>6. EndsNear'
      BY <1>1, <1>2, <2>1, <2>3 DEF EndsNear
    <2>7. ResamplerTypeOK'
      BY <1>1, <2>3 DEF Inv, ResamplerTypeOK, Points
    <2> QED
      BY <1>1, <1>3, <2>4, <2>5, <2>6, <2>7 DEF Inv, AtControl, AtRest, EdgesKept
  <1>4. CASE ~(kind = "radio" /\ control < Len(samples) - 1)
    <2>1. UNCHANGED resampled
      BY <1>4 DEF Flip, Index
    <2>2. EndsNear'
      BY <1>1, <1>2, <2>1 DEF EndsNear
    <2>3. ResamplerTypeOK'
      BY <1>1, <2>1 DEF Inv, ResamplerTypeOK
    <2> QED
      BY <1>1, <1>2, <2>1, <2>2, <2>3 DEF Inv, AtControl, AtRest, EdgesKept
  <1> QED
    BY <1>3, <1>4

LEMMA TellInv == Inv /\ (TellStorage \/ TellControl) => Inv'
  <1> SUFFICES ASSUME Inv, TellStorage \/ TellControl PROVE Inv'
    OBVIOUS
  <1>1. samples' = <<>> /\ Len(samples') = 0 /\ UNCHANGED kind
    BY DEF TellStorage, TellControl, Inv, AtRest
  <1>2. EdgesKept'
    BY <1>1 DEF EdgesKept, Holds, Edges
  <1>3. CASE TellStorage
    <2>1. ResamplerTypeOK'
      BY <1>1, <1>3, ResamplingAssumption DEF TellStorage, Inv, ResamplerTypeOK
    <2> QED
      BY <1>1, <1>2, <1>3, <2>1 DEF TellStorage, Inv, AtControl, EndsNear, AtRest
  <1>4. CASE TellControl
    <2>1. ResamplerTypeOK'
      BY <1>1, <1>4 DEF TellControl, Inv, ResamplerTypeOK
    <2>2. Near(resampled)'
      BY <1>4 DEF TellControl, Near
    <2> QED
      BY <1>1, <1>2, <1>4, <2>1, <2>2 DEF TellControl, AtControl, EndsNear, AtRest, Inv
  <1> QED
    BY <1>3, <1>4

LEMMA InitInv == ResamplerInit => Inv
  BY ResamplingAssumption
     DEF ResamplerInit, Inv, ResamplerTypeOK, AtControl, Near, EndsNear, AtRest, EdgesKept,
         Holds, Edges

LEMMA StepInv == Inv /\ [ResamplerNext]_resamplerVars => Inv'
  <1> SUFFICES ASSUME Inv, [ResamplerNext]_resamplerVars PROVE Inv'
    OBVIOUS
  <1>1. CASE ResamplerNext
    BY <1>1, TakeInv, ScanLogicInv, ScanRadioInv, FlipInv, TellInv DEF ResamplerNext
  <1>2. CASE UNCHANGED resamplerVars
    BY <1>2 DEF resamplerVars, Inv, ResamplerTypeOK, AtControl, EndsNear, AtRest, EdgesKept
  <1> QED
    BY <1>1, <1>2

THEOREM ResamplerInvariance == ResamplerSpec => []Inv
  BY InitInv, StepInv, PTL DEF ResamplerSpec

(* processRadioSignal, processLogicSignal: no distance between two points, in *)
(* a buffer or across two, exceeds the interval, so it fits its byte.         *)
THEOREM DistancesFit == ResamplerSpec => []GapsFitByte
  <1>1. Inv => GapsFitByte
    BY DEF Inv, GapsFitByte, EndsNear
  <1> QED
    BY <1>1, ResamplerInvariance, PTL

(* processRadioSignal, processLogicSignal: what is left out is what the drawn *)
(* signal already says.                                                       *)
THEOREM NoEdgeLost == ResamplerSpec => []EdgesKept
  <1>1. Inv => EdgesKept
    BY DEF Inv
  <1> QED
    BY <1>1, ResamplerInvariance, PTL

-----------------------------------------------------------------------------
(* There are at most two points more than the number of the control point:    *)
(* a step that adds two moves the control point by two.                       *)
Room ==
  /\ phase = "idle" => resampled = <<>>
  /\ phase = "scan" => Len(resampled) <= control + 2
  /\ phase \in {"storage", "control"} => Len(resampled) <= BlockLength + 1

LEMMA StepRoom == Inv /\ Room /\ [ResamplerNext]_resamplerVars => Room'
  <1> SUFFICES ASSUME Inv, Room, [ResamplerNext]_resamplerVars PROVE Room'
    OBVIOUS
  <1>1. /\ samples \in Seq([value : Levels(kind), kept : BOOLEAN])
        /\ resampled \in Seq(Points)
        /\ control \in Int /\ Len(resampled) \in Nat /\ Len(samples) \in Nat
        /\ BlockLength \in Nat \ {0}
    BY ResamplingAssumption DEF Inv, ResamplerTypeOK, Points
  <1>2. phase = "scan" => control <= Len(samples) - 1 /\ Len(samples) <= BlockLength
    BY <1>1 DEF Inv, AtControl
  <1>3. \A e : Len(Append(resampled, e)) = Len(resampled) + 1
    BY <1>1
  <1>4. \A e, f : Len(Append(Append(resampled, e), f)) = Len(resampled) + 2
    BY <1>1
  <1>5. CASE TakeLogic \/ TakeRadio
    <2>1. control' = 0 /\ phase' = "scan"
      BY <1>5 DEF TakeLogic, TakeRadio
    <2>2. \A e : Len(<<e>>) = 1 /\ Len(<<e, e>>) = 2
      OBVIOUS
    <2>3. \E e : resampled' = <<e>> \/ resampled' = <<e, e>>
      <3>1. CASE TakeLogic
        BY <3>1 DEF TakeLogic
      <3>2. CASE TakeRadio
        BY <3>2 DEF TakeRadio
      <3> QED
        BY <1>5, <3>1, <3>2
    <2>4. Len(resampled') = 1 \/ Len(resampled') = 2
      BY <2>2, <2>3, Zenon
    <2>5. Len(resampled') <= control' + 2
      <3>1. CASE Len(resampled') = 1
        BY <2>1, <3>1
      <3>2. CASE Len(resampled') = 2
        BY <2>1, <3>2
      <3> QED
        BY <2>4, <3>1, <3>2
    <2> QED
      BY <2>1, <2>5 DEF Room
  <1>6. CASE ScanLogic
    <2>1. Len(resampled') <= control' + 2
      BY <1>1, <1>2, <1>3, <1>6 DEF ScanLogic, Scanning, Index, Room
    <2> QED
      BY <1>6, <2>1 DEF ScanLogic, Scanning, Room
  <1>7. CASE ScanRadio
    <2>1. Len(resampled') <= control' + 2
      BY <1>1, <1>2, <1>3, <1>4, <1>7 DEF ScanRadio, Scanning, Index, WithPrevious, Room
    <2> QED
      BY <1>7, <2>1 DEF ScanRadio, Scanning, Room
  <1>8. CASE Flip
    <2>1. Len(resampled') <= BlockLength + 1
      BY <1>1, <1>2, <1>3, <1>8 DEF Flip, Index, Room
    <2> QED
      BY <1>8, <2>1 DEF Flip, Room
  <1>9. CASE TellStorage \/ TellControl \/ UNCHANGED resamplerVars
    BY <1>9 DEF TellStorage, TellControl, resamplerVars, Room
  <1> QED
    BY <1>5, <1>6, <1>7, <1>8, <1>9 DEF ResamplerNext

(* processRadioSignal, processLogicSignal: resampled never overruns what was  *)
(* allocated for it.                                                          *)
THEOREM RoomSuffices == ResamplerSpec => []PointsFitBuffer
  <1>1. ResamplerInit => Room
    BY DEF ResamplerInit, Room
  <1>2. Inv /\ Room => PointsFitBuffer
    <2> SUFFICES ASSUME Inv, Room, BlockLength >= Interval
                 PROVE  Len(resampled) <= BlockLength + BlockLength \div Interval
      BY DEF PointsFitBuffer
    <2>1. BlockLength \in Nat \ {0} /\ Interval \in Nat \ {0} /\ Len(resampled) \in Nat
      BY ResamplingAssumption DEF Inv, ResamplerTypeOK
    <2>2. BlockLength \div Interval \in Int /\ BlockLength \div Interval >= 1
      BY <2>1
    <2>3. Len(resampled) <= BlockLength + 1
      BY <2>1 DEF Inv, ResamplerTypeOK, AtControl, Room
    <2> QED
      BY <2>1, <2>2, <2>3
  <1> QED
    BY <1>1, <1>2, StepRoom, ResamplerInvariance, PTL DEF ResamplerSpec
=============================================================================
