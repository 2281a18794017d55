--------------------------- MODULE ParserTheorems ---------------------------
(***************************************************************************)
(* Lemmas about the parser, and about loops such as the one of serialIn_h, *)
(* for the proofs about the modules that use them.                         *)
(***************************************************************************)
EXTENDS PrologixParser, TLAPS, WellFoundedInduction

-----------------------------------------------------------------------------
(* Induction over an interval, and functions defined by it.                *)

LEMMA IntervalInduction ==
    ASSUME NEW n \in Nat, NEW P \in SUBSET (0..n), 0 \in P,
           \A k \in 1..n : k - 1 \in P => k \in P
    PROVE  P = 0..n
  <1> DEFINE R == OpToRel(<, Nat)
             T == (0..n) \ P
  <1>1. IsWellFoundedOn(R, Nat)
    BY NatLessThanWellFounded, Zenon
  <1>2. \A k \in 1..n : <<k - 1, k>> \in R
    <2>1. \A k \in 1..n : k - 1 \in Nat /\ k \in Nat /\ k - 1 < k
      OBVIOUS
    <2> QED BY <2>1, Zenon DEF OpToRel
  <1> HIDE DEF R
  <1>3. ASSUME T # {} PROVE FALSE
    <2>1. T \subseteq Nat
      OBVIOUS
    <2>2. PICK x \in T : \A y \in T : ~(<<y, x>> \in R)
      BY <1>1, <1>3, <2>1, WFMin
    <2>3. x \in 1..n /\ x - 1 \in 0..n
      BY <2>2
    <2>4. x - 1 \in T
      BY <2>3
    <2> QED BY <1>2, <2>2, <2>3, <2>4
  <1> QED BY <1>3

(* What a loop computes in n steps from base exists, and stays where its   *)
(* steps stay.                                                             *)
Iterates(g, n, base, F) == g[0] = base /\ \A k \in 1..n : g[k] = F[<<g[k - 1], k>>]
IsLoop(g, D, base, F) == g = [k \in D |-> IF k = 0 THEN base ELSE F[<<g[k - 1], k>>]]

LEMMA LoopExists ==
    ASSUME NEW n \in Nat, NEW V, NEW base \in V, NEW F \in [V \X (1..n) -> V]
    PROVE  \E g \in [0..n -> V] : Iterates(g, n, base, F)
  <1> DEFINE Works(g, m) == Iterates(g, m, base, F)
             P == {m \in 0..n : \E g \in [0..m -> V] : Works(g, m)}
  <1>1. 0 \in P
    <2> DEFINE g == [k \in 0..0 |-> base]
    <2>1. g \in [0..0 -> V] /\ Works(g, 0)
      BY DEF Iterates
    <2> HIDE DEF g
    <2>2. \E f \in [0..0 -> V] : Works(f, 0)
      BY <2>1
    <2> QED BY <2>2
  <1>2. ASSUME NEW m \in 1..n, m - 1 \in P PROVE m \in P
    <2>1. PICK g \in [0..(m - 1) -> V] : Works(g, m - 1)
      BY <1>2
    <2> USE DEF Iterates
    <2> DEFINE h == [k \in 0..m |-> IF k = m THEN F[<<g[m - 1], m>>] ELSE g[k]]
    <2>2. F[<<g[m - 1], m>>] \in V
      BY <2>1
    <2>3. h \in [0..m -> V]
      BY <2>2
    <2>4. h[0] = base
      BY <2>1
    <2>5. ASSUME NEW k \in 1..m PROVE h[k] = F[<<h[k - 1], k>>]
      <3>1. CASE k = m
        <4>1. h[k] = F[<<g[m - 1], m>>]
          BY <3>1
        <4>2. h[k - 1] = g[m - 1]
          BY <3>1
        <4> QED BY <3>1, <4>1, <4>2
      <3>2. CASE k # m
        BY <2>1, <3>2
      <3> QED BY <3>1, <3>2
    <2> HIDE DEF h
    <2>6. \E f \in [0..m -> V] : Works(f, m)
      BY <2>3, <2>4, <2>5
    <2> QED BY <2>6
  <1> HIDE DEF P
  <1>3. P = 0..n
    <2>1. P \in SUBSET (0..n)
      BY DEF P
    <2> QED BY <1>1, <1>2, <2>1, IntervalInduction
  <1>4. n \in P
    BY <1>3
  <1> QED BY <1>4 DEF P

LEMMA SameFunction ==
    ASSUME NEW D, NEW g, NEW h, g = [k \in D |-> g[k]], h = [k \in D |-> h[k]],
           \A k \in D : g[k] = h[k]
    PROVE  g = h
  OBVIOUS

LEMMA LoopFunction ==
    ASSUME NEW n \in Nat, NEW V, NEW base \in V, NEW F \in [V \X (1..n) -> V]
    PROVE  \E g \in [0..n -> V] : IsLoop(g, 0..n, base, F)
  <1>1. PICK g \in [0..n -> V] : Iterates(g, n, base, F)
    BY LoopExists, Zenon
  <1> DEFINE h == [k \in 0..n |-> IF k = 0 THEN base ELSE F[<<g[k - 1], k>>]]
  <1>2. g = [k \in 0..n |-> g[k]] /\ h = [k \in 0..n |-> h[k]]
    OBVIOUS
  <1>3. \A k \in 0..n : k = 0 \/ k \in 1..n
    OBVIOUS
  <1>4. \A k \in 0..n : g[k] = h[k]
    BY <1>1, <1>3 DEF Iterates
  <1>5. g = h
    <2> HIDE DEF h
    <2> QED BY <1>2, <1>4, SameFunction
  <1> QED BY <1>5 DEF IsLoop

(* Two loops that start alike and take the same steps are the same.        *)
LEMMA LoopUnique ==
    ASSUME NEW n \in Nat, NEW base, NEW F, NEW g, NEW h,
           Iterates(g, n, base, F), Iterates(h, n, base, F)
    PROVE  \A k \in 0..n : g[k] = h[k]
  <1> DEFINE P == {k \in 0..n : g[k] = h[k]}
  <1>1. P \in SUBSET (0..n) /\ 0 \in P
    BY DEF Iterates
  <1>2. ASSUME NEW k \in 1..n, k - 1 \in P PROVE k \in P
    <2>1. g[k] = F[<<g[k - 1], k>>] /\ h[k] = F[<<h[k - 1], k>>]
      BY DEF Iterates
    <2>2. g[k - 1] = h[k - 1] /\ k \in 0..n
      BY <1>2
    <2> QED BY <2>1, <2>2
  <1> HIDE DEF P
  <1>3. P = 0..n
    BY <1>1, <1>2, IntervalInduction
  <1> QED BY <1>3 DEF P

(* A loop without an end.                                                  *)
LEMMA EndlessLoopExists ==
    ASSUME NEW V, NEW base \in V, NEW F \in [V \X Nat -> V]
    PROVE  \E g \in [Nat -> V] : IsLoop(g, Nat, base, F)
  <1> DEFINE G(n) == CHOOSE g \in [0..n -> V] : Iterates(g, n, base, F)
             g == [n \in Nat |-> G(n)[n]]
  <1>1. ASSUME NEW n \in Nat PROVE \E f \in [0..n -> V] : Iterates(f, n, base, F)
    <2> DEFINE E == [x \in V \X (1..n) |-> F[x]]
    <2>1. E \in [V \X (1..n) -> V]
      OBVIOUS
    <2>2. \A v \in V : \A k \in 1..n : E[<<v, k>>] = F[<<v, k>>]
      OBVIOUS
    <2> HIDE DEF E
    <2>3. PICK f \in [0..n -> V] : Iterates(f, n, base, E)
      BY <2>1, LoopExists, Zenon
    <2>4. \A k \in 1..n : f[k - 1] \in V
      OBVIOUS
    <2>5. Iterates(f, n, base, F)
      BY <2>2, <2>3, <2>4 DEF Iterates
    <2> QED BY <2>5
  <1>2. \A n \in Nat : G(n) \in [0..n -> V] /\ Iterates(G(n), n, base, F)
    BY <1>1, Zenon
  <1> HIDE DEF G
  <1>3. g \in [Nat -> V]
    BY <1>2
  <1>4. g[0] = base
    BY <1>2 DEF Iterates
  <1>5. ASSUME NEW n \in Nat, n > 0 PROVE g[n] = F[<<g[n - 1], n>>]
    <2>1. n - 1 \in Nat /\ n \in 1..n /\ 1..(n - 1) \subseteq 1..n /\ n - 1 \in 0..(n - 1)
      BY <1>5
    <2>2. Iterates(G(n), n - 1, base, F) /\ Iterates(G(n - 1), n - 1, base, F)
      BY <1>2, <2>1 DEF Iterates
    <2>3. G(n)[n - 1] = G(n - 1)[n - 1]
      BY <2>1, <2>2, LoopUnique
    <2>4. G(n)[n] = F[<<G(n)[n - 1], n>>]
      BY <1>2, <2>1 DEF Iterates
    <2> QED BY <2>1, <2>3, <2>4
  <1>6. \A k \in Nat : g[k] = IF k = 0 THEN base ELSE F[<<g[k - 1], k>>]
    BY <1>4, <1>5
  <1> HIDE DEF g
  <1> DEFINE h == [k \in Nat |-> IF k = 0 THEN base ELSE F[<<g[k - 1], k>>]]
  <1>7. g = [k \in Nat |-> g[k]] /\ h = [k \in Nat |-> h[k]] /\ \A k \in Nat : g[k] = h[k]
    BY <1>3, <1>6
  <1>8. g = h
    <2> HIDE DEF h
    <2> QED BY <1>7, SameFunction
  <1> QED BY <1>3, <1>8 DEF IsLoop

LEMMA LoopStays ==
    ASSUME NEW n \in Nat, NEW V, NEW f, f[0] \in V,
           \A k \in 1..n : f[k - 1] \in V => f[k] \in V
    PROVE  \A k \in 0..n : f[k] \in V
  <1> DEFINE P == {k \in 0..n : f[k] \in V}
  <1>1. P \in SUBSET (0..n) /\ 0 \in P /\ \A k \in 1..n : k - 1 \in P => k \in P
    OBVIOUS
  <1> HIDE DEF P
  <1>2. P = 0..n
    BY <1>1, IntervalInduction
  <1> QED BY <1>2 DEF P

-----------------------------------------------------------------------------
(* The parser.                                                             *)

(* The parse buffer is only full while a line is sent in pieces.           *)
Held(p) ==
    /\ p \in Parsers /\ Len(p.pBuf) <= PBSIZE
    /\ Len(p.pBuf) = PBSIZE => p.dataBufferFull

LEMMA FlushedHeld ==
    ASSUME NEW p \in Parsers
    PROVE  Held(flushPbuf(p)) /\ Held([flushPbuf(p) EXCEPT !.dataBufferFull = FALSE])
           /\ Held([flushPbuf(p) EXCEPT !.sendIdn = TRUE])
  <1>1. <<>> \in Seq(Chars) /\ Len(<<>>) = 0 /\ 0 < PBSIZE
    BY PBSIZEAssumption
  <1> DEFINE q == flushPbuf(p)
  <1>2. q \in Parsers /\ q.pBuf = <<>>
    BY <1>1 DEF flushPbuf, Parsers
  <1> HIDE DEF q
  <1>3. \A f \in {q, [q EXCEPT !.dataBufferFull = FALSE], [q EXCEPT !.sendIdn = TRUE]} :
           f \in Parsers /\ f.pBuf = <<>>
    BY <1>2 DEF Parsers
  <1>4. ASSUME NEW f \in Parsers, f.pBuf = <<>> PROVE Held(f)
    <2>1. Len(f.pBuf) = 0
      BY <1>1, <1>4
    <2> QED BY <2>1, PBSIZEAssumption DEF Held
  <1> QED BY <1>3, <1>4 DEF q

LEMMA ParseHeld ==
    ASSUME NEW p, Held(p), NEW c \in Chars, NEW idn
    PROVE  Held(parseInput(p, c, idn).parser) /\ parseInput(p, c, idn).r \in 0..3
  <1> DEFINE Done(res) == Held(WhenFull(res).parser) /\ WhenFull(res).r \in 0..3
  <1>1. ASSUME NEW q \in Parsers, Len(q.pBuf) <= PBSIZE, NEW r \in 0..3
        PROVE  Done(Result(q, r))
    <2> DEFINE f == [q EXCEPT !.dataBufferFull = TRUE]
    <2>1. WhenFull(Result(q, r)) \in {Result(flushPbuf(q), 0), Result(f, 2)}
          \/ (Len(q.pBuf) < PBSIZE /\ WhenFull(Result(q, r)) = Result(q, r))
      BY DEF WhenFull, Result
    <2>2. Held(f)
      BY <1>1 DEF Held, Parsers
    <2>3. Len(q.pBuf) < PBSIZE => Held(q)
      BY PBSIZEAssumption DEF Held, Parsers
    <2>4. Held(flushPbuf(q))
      BY FlushedHeld
    <2> HIDE DEF f
    <2> QED BY <2>1, <2>2, <2>3, <2>4 DEF Result
  <1> HIDE DEF Done
  <1>2. ASSUME NEW q, Held(q), NEW r \in 0..3 PROVE Done(Result(q, r))
    BY <1>1, <1>2 DEF Held
  <1>3. \E res : Done(res) /\ parseInput(p, c, idn) = WhenFull(res)
    <2>0. p \in Parsers /\ Len(p.pBuf) <= PBSIZE /\ Len(p.pBuf) \in Nat
      BY DEF Held, Parsers
    <2>1. CASE Len(p.pBuf) >= PBSIZE
      BY <1>1, <2>0, <2>1 DEF parseInput
    <2>2. CASE ~(Len(p.pBuf) >= PBSIZE) /\ c \in LineEnds /\ ~p.isEsc
      <3> DEFINE q == [p EXCEPT !.isPlusEscaped = FALSE]
      <3>1. parseInput(p, c, idn) = WhenFull(EndLine(p, idn))
        BY <2>2 DEF parseInput
      <3>2. EndLine(p, idn) \in {Result(p, 0), Result(flushPbuf(q), 3), Result(q, 1), Result(q, 2),
                                 Result([flushPbuf(q) EXCEPT !.sendIdn = TRUE], 0)}
        BY DEF EndLine
      <3>3. q \in Parsers /\ Len(q.pBuf) <= PBSIZE
        BY <2>0 DEF Parsers
      <3> HIDE DEF q
      <3>4. Held(flushPbuf(q)) /\ Held([flushPbuf(q) EXCEPT !.sendIdn = TRUE])
        BY <3>3, FlushedHeld
      <3>5. Done(Result(p, 0)) /\ Done(Result(q, 1)) /\ Done(Result(q, 2))
        BY <1>1, <2>0, <3>3
      <3>6. Done(Result(flushPbuf(q), 3)) /\ Done(Result([flushPbuf(q) EXCEPT !.sendIdn = TRUE], 0))
        BY <1>2, <3>4
      <3> QED BY <3>1, <3>2, <3>5, <3>6
    <2>3. CASE ~(Len(p.pBuf) >= PBSIZE) /\ ~(c \in LineEnds /\ ~p.isEsc) /\ c = "ESC" /\ ~p.isEsc
      <3> DEFINE q == [p EXCEPT !.isEsc = TRUE]
      <3>1. parseInput(p, c, idn) = WhenFull(Result(q, 0))
        BY <2>3 DEF parseInput
      <3>2. q \in Parsers /\ Len(q.pBuf) <= PBSIZE
        BY <2>0 DEF Parsers
      <3> HIDE DEF q
      <3> QED BY <1>1, <3>1, <3>2
    <2>4. CASE ~(Len(p.pBuf) >= PBSIZE) /\ ~(c \in LineEnds /\ ~p.isEsc) /\ ~(c = "ESC" /\ ~p.isEsc)
      <3> DEFINE e == p.isPlusEscaped \/ (c = "PLUS" /\ p.isEsc /\ Len(p.pBuf) < 2)
                 q == [p EXCEPT !.isEsc = FALSE, !.isPlusEscaped = e]
                 a == addPbuf(q, c)
      <3>1. parseInput(p, c, idn) = WhenFull(Result(AddChar(p, c), 0))
        BY <2>4 DEF parseInput
      <3>2. e \in BOOLEAN
        BY <2>0 DEF Parsers
      <3>3. AddChar(p, c) = a
        BY DEF AddChar
      <3> HIDE DEF e
      <3>4. q \in Parsers /\ q.pBuf = p.pBuf
        BY <2>0, <3>2 DEF Parsers
      <3> HIDE DEF q
      <3>5. a \in Parsers /\ Len(a.pBuf) = Len(p.pBuf) + 1
        <4>1. /\ Append(q.pBuf, c) \in Seq(Chars)
              /\ Len(Append(q.pBuf, c)) = Len(p.pBuf) + 1
          BY <3>4 DEF Parsers
        <4>2. a \in Parsers /\ a.pBuf = Append(q.pBuf, c)
          BY <3>4, <4>1 DEF addPbuf, Parsers
        <4> QED BY <4>1, <4>2
      <3> HIDE DEF a
      <3>6. Len(a.pBuf) <= PBSIZE
        BY <2>0, <2>4, <3>5, PBSIZEAssumption
      <3> QED BY <1>1, <3>1, <3>3, <3>5, <3>6
    <2> QED BY <2>1, <2>2, <2>3, <2>4
  <1> QED BY <1>3 DEF Done

LEMMA SerialInHeld ==
    ASSUME NEW p, Held(p), NEW text \in Seq(Chars), NEW idn
    PROVE  /\ Held(serialIn_h(p, text, idn).parser)
           /\ serialIn_h(p, text, idn).r \in 0..3
           /\ serialIn_h(p, text, idn).rest \in Seq(Chars)
  <1> DEFINE n == Len(text)
             fed(s, k) == LET res == parseInput(s.parser, text[k], idn)
                          IN  [parser |-> res.parser, r |-> res.r, read |-> k]
             step(s, k) == IF s.r # 0 THEN s ELSE fed(s, k)
             base == [parser |-> p, r |-> 0, read |-> 0]
             V == [parser : {q \in Parsers : Held(q)}, r : 0..3, read : 0..n]
             F == [x \in V \X (1..n) |-> step(x[1], x[2])]
             Works(f) == f = [k \in 0..n |-> IF k = 0 THEN base ELSE step(f[k - 1], k)]
             after == CHOOSE f : Works(f)
  <1>1. n \in Nat /\ base \in V
    BY DEF Held
  <1>2. ASSUME NEW s \in V, NEW k \in 1..n PROVE step(s, k) \in V
    <2>1. Held(s.parser) /\ text[k] \in Chars
      OBVIOUS
    <2>2. /\ Held(parseInput(s.parser, text[k], idn).parser)
          /\ parseInput(s.parser, text[k], idn).r \in 0..3
      BY <2>1, ParseHeld
    <2> QED BY <2>2 DEF Held
  <1>3. /\ serialIn_h(p, text, idn).parser = after[n].parser
        /\ serialIn_h(p, text, idn).r = after[n].r
        /\ serialIn_h(p, text, idn).rest = SubSeq(text, after[n].read + 1, n)
    BY DEF serialIn_h
  <1> HIDE DEF step, base, V, n
  <1>4. F \in [V \X (1..n) -> V]
    BY <1>2
  <1> HIDE DEF F
  <1>5. PICK g \in [0..n -> V] : Iterates(g, n, base, F)
    BY <1>1, <1>4, LoopExists, Zenon
  <1>6. Works(g)
    <2>1. ASSUME NEW k \in 1..n PROVE g[k] = step(g[k - 1], k)
      <3>1. <<g[k - 1], k>> \in V \X (1..n)
        BY <1>1
      <3>2. F[<<g[k - 1], k>>] = step(g[k - 1], k)
        BY <3>1 DEF F
      <3> QED BY <1>5, <3>2 DEF Iterates
    <2>2. g = [k \in 0..n |-> g[k]] /\ g[0] = base
      BY <1>5 DEF Iterates
    <2>3. \A k \in 0..n : g[k] = IF k = 0 THEN base ELSE step(g[k - 1], k)
      <3> SUFFICES ASSUME NEW k \in 0..n
                   PROVE  g[k] = IF k = 0 THEN base ELSE step(g[k - 1], k)
        OBVIOUS
      <3>1. k = 0 \/ k \in 1..n
        BY <1>1
      <3> QED BY <2>1, <2>2, <3>1
    <2> DEFINE h == [k \in 0..n |-> IF k = 0 THEN base ELSE step(g[k - 1], k)]
    <2>4. h = [k \in 0..n |-> h[k]] /\ \A k \in 0..n : g[k] = h[k]
      BY <2>3
    <2>5. g = h
      <3> HIDE DEF h
      <3> QED BY <2>2, <2>4, SameFunction
    <2> QED BY <2>5
  <1>7. Works(after)
    BY <1>6
  <1> HIDE DEF after
  <1>8. \A k \in 0..n : after[k] \in V
    <2>1. after[0] = base /\ \A k \in 1..n : after[k] = step(after[k - 1], k)
      BY <1>1, <1>7
    <2>2. after[0] \in V /\ \A k \in 1..n : after[k - 1] \in V => after[k] \in V
      BY <1>1, <1>2, <2>1
    <2> QED BY <1>1, <2>2, LoopStays
  <1>9. after[n] \in V
    BY <1>1, <1>8
  <1>10. SubSeq(text, after[n].read + 1, n) \in Seq(Chars)
    <2>1. after[n].read \in 0..n
      BY <1>9 DEF V
    <2> QED BY <2>1 DEF n
  <1> QED BY <1>3, <1>9, <1>10 DEF V
=============================================================================
