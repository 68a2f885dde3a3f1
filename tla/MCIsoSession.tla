------------------------------ MODULE MCIsoSession ------------------------------
(* Answers with two levels of TDi, payloads of up to two bytes of any meaning. *)
EXTENDS IsoSession

Some(n) == [i \in 1 .. n |-> Plain("data")]
Texts(n) == [1 .. n -> {Plain(is) : is \in {"data", "sw", "ins", "nins", "null"}}]
Join(S, T) == {s \o t : s \in S, t \in T}
Structural(is, n, t, more) == [is |-> is, n |-> n, t |-> t, more |-> more]

(* n interface bytes beside TDi, h historical bytes; then TCK unless T=0 is    *)
(* all.  Without historical bytes TD1 is for T=1 or the last interface byte:   *)
(* isATR takes <<TS, T0, TD1>> for complete when TD1 announces more for T=0    *)
MCATRs ==
  LET T0(n, h, more) == <<Plain("ts"), Structural("t0", n, h, more)>> \o Some(n)
      TD(n, t, more) == <<Structural("td", n, t, more)>> \o Some(n)
  IN {T0(n, h, FALSE) \o Some(h) : n \in {0, 2}, h \in {0, 1}}
       \cup {T0(n, 0, TRUE) \o TD(0, 0, FALSE) : n \in {0, 2}}
       \cup {T0(n, 1, TRUE) \o TD(1, t, FALSE) \o Some(1 + t) : n \in {0, 2}, t \in {0, 1}}
       \cup {T0(n, 0, TRUE) \o TD(1, 1, FALSE) \o Some(1) : n \in {0, 2}}
       \cup {T0(1, 1, TRUE) \o TD(0, t, TRUE) \o TD(1, 1, FALSE) \o Some(2) : t \in {0, 1}}

(* the procedure byte acknowledges all of the payload, or one byte at a time *)
MCExchanges ==
  LET Header(n) == {Some(4) \o <<Structural("len", n, 0, FALSE)>>}
      Waits == {<<>>, <<Plain("null")>>}
      AtOnce(n) == Join({<<Plain("ins")>>}, Texts(n))
      OneByOne(n) == Join(Join({<<Plain("nins")>>}, Texts(1)),
                          IF n = 1 THEN {<<>>}
                          ELSE Join(Waits, Join({<<Plain("nins")>>}, Texts(1))))
      Status == Join({<<Plain("sw")>>}, {<<Plain("data")>>, <<Plain("sw")>>})
      Body(n) == {<<>>} \cup (IF n = 0 THEN {} ELSE AtOnce(n) \cup OneByOne(n))
  IN UNION {Join(Header(n), Join(Waits, Join(Body(n), Join(Waits, Status)))) : n \in 0 .. 2}

(* NAD, PCB, LEN, the information and the epilogue *)
MCBlocks ==
  {Some(2) \o <<Structural("len", n, 0, FALSE)>> \o Some(n + 1) : n \in 0 .. 2}
===============================================================================
