---------------------------- MODULE ParserProofs ----------------------------
(***************************************************************************)
(* Theorems about the parser, for every buffer size and every set of keys. *)
(***************************************************************************)
EXTENDS PrologixLines, ParserTheorems

Shape == [pBuf : Seq(Keys), isEsc : BOOLEAN, isPlusEscaped : BOOLEAN,
          dataBufferFull : BOOLEAN, sendIdn : BOOLEAN]

(* The parser between two characters.                                      *)
Open(p) == p \in Shape /\ ~p.dataBufferFull /\ ~p.sendIdn /\ Len(p.pBuf) < PBSIZE

(* What parseInput leaves of an open parser: at most a full buffer, and    *)
(* only when it hands the line over.                                       *)
Read(res) ==
    /\ res.r \in 0..3
    /\ res.parser \in Shape /\ ~res.parser.sendIdn
    /\ Len(res.parser.pBuf) <= PBSIZE
    /\ res.r = 0 => Open(res.parser)

(* flushPbuf keeps the flags and makes room.                               *)
LEMMA Flushed ==
    ASSUME NEW p \in Shape
    PROVE  /\ flushPbuf(p) \in Shape
           /\ Len(flushPbuf(p).pBuf) < PBSIZE
           /\ flushPbuf(p).dataBufferFull <=> p.dataBufferFull
           /\ flushPbuf(p).sendIdn <=> p.sendIdn
  <1>1. <<>> \in Seq(Keys) /\ Len(<<>>) = 0 OBVIOUS
  <1>2. flushPbuf(p).pBuf = <<>> BY DEF Shape, flushPbuf
  <1>3. flushPbuf(p) \in Shape BY <1>1 DEF Shape, flushPbuf
  <1>4. /\ flushPbuf(p).dataBufferFull <=> p.dataBufferFull
        /\ flushPbuf(p).sendIdn <=> p.sendIdn
    BY DEF Shape, flushPbuf
  <1>5. Len(flushPbuf(p).pBuf) < PBSIZE BY <1>1, <1>2, PBSIZEAssumption
  <1> QED BY <1>3, <1>4, <1>5

(* An open parser may be handed over with any result.                      *)
LEMMA OpenRead ==
    ASSUME NEW p, Open(p), NEW r \in 0..3
    PROVE  Read(Result(p, r)) /\ Open(Result(p, r).parser)
  <1>1. Result(p, r).parser = p /\ Result(p, r).r = r BY DEF Result
  <1>2. Len(p.pBuf) <= PBSIZE BY PBSIZEAssumption DEF Open, Shape
  <1> QED BY <1>1, <1>2 DEF Read, Open

(* A line end leaves the buffer as it is or empties it.                    *)
LEMMA EndLineRead ==
    ASSUME NEW p, Open(p)
    PROVE  Read(EndLine(p, 0)) /\ Open(EndLine(p, 0).parser)
  <1> DEFINE q == [p EXCEPT !.isPlusEscaped = FALSE]
  <1>1. Open(q) BY DEF Open, Shape
  <1>2. Open(flushPbuf(q)) BY <1>1, Flushed DEF Open
  <1>3. EndLine(p, 0) \in {Result(p, 0), Result(flushPbuf(q), 3), Result(q, 1), Result(q, 2)}
    BY DEF EndLine
  <1> HIDE DEF q
  <1>4. /\ Read(Result(p, 0)) /\ Open(Result(p, 0).parser)
        /\ Read(Result(flushPbuf(q), 3)) /\ Open(Result(flushPbuf(q), 3).parser)
        /\ Read(Result(q, 1)) /\ Open(Result(q, 1).parser)
        /\ Read(Result(q, 2)) /\ Open(Result(q, 2).parser)
    BY <1>1, <1>2, OpenRead
  <1> QED BY <1>3, <1>4

(* Any other character makes the buffer one longer.                        *)
LEMMA AddCharRead ==
    ASSUME NEW p, Open(p), NEW c \in Keys
    PROVE  /\ AddChar(p, c) \in Shape
           /\ ~AddChar(p, c).dataBufferFull /\ ~AddChar(p, c).sendIdn
           /\ Len(AddChar(p, c).pBuf) <= PBSIZE
  <1> DEFINE b == p.isPlusEscaped \/ (c = "PLUS" /\ p.isEsc /\ Len(p.pBuf) < 2)
             q == [p EXCEPT !.isEsc = FALSE, !.isPlusEscaped = b]
  <1>1. AddChar(p, c) = addPbuf(q, c) BY DEF AddChar
  <1>2. b \in BOOLEAN BY DEF Open, Shape
  <1> HIDE DEF b
  <1>3. q \in Shape /\ ~q.dataBufferFull /\ ~q.sendIdn /\ Len(q.pBuf) < PBSIZE
    BY <1>2 DEF Open, Shape
  <1> HIDE DEF q
  <1>4. addPbuf(q, c) \in Shape /\ Len(addPbuf(q, c).pBuf) = Len(q.pBuf) + 1
    BY <1>3 DEF addPbuf, Shape
  <1>5. ~addPbuf(q, c).dataBufferFull /\ ~addPbuf(q, c).sendIdn
    BY <1>3 DEF addPbuf, Shape
  <1>6. Len(q.pBuf) + 1 <= PBSIZE BY <1>3, PBSIZEAssumption DEF Shape
  <1> QED BY <1>1, <1>4, <1>5, <1>6

(* What is full is handed over as data or, a command, dropped.             *)
LEMMA WhenFullRead ==
    ASSUME NEW p \in Shape, NEW r \in 0..3, ~p.dataBufferFull, ~p.sendIdn,
           Len(p.pBuf) <= PBSIZE
    PROVE  Read(WhenFull(Result(p, r)))
  <1> DEFINE f == [p EXCEPT !.dataBufferFull = TRUE]
  <1>1. CASE Len(p.pBuf) < PBSIZE
    <2>1. Open(p) BY <1>1 DEF Open
    <2>2. WhenFull(Result(p, r)) = Result(p, r) BY <1>1 DEF WhenFull, Result
    <2> QED BY <2>1, <2>2, OpenRead
  <1>2. CASE ~(Len(p.pBuf) < PBSIZE)
    <2>1. Open(flushPbuf(p)) BY Flushed DEF Open
    <2>2. f \in Shape /\ ~f.sendIdn /\ Len(f.pBuf) <= PBSIZE BY DEF Shape
    <2>3. WhenFull(Result(p, r)) \in {Result(flushPbuf(p), 0), Result(f, 2)}
      BY <1>2 DEF WhenFull, Result
    <2> HIDE DEF f
    <2>4. Read(Result(f, 2)) BY <2>2 DEF Read, Result
    <2>5. Read(Result(flushPbuf(p), 0)) BY <2>1, OpenRead
    <2> QED BY <2>3, <2>4, <2>5
  <1> QED BY <1>1, <1>2

(* parseInput never runs past the buffer, and keeps room for the next      *)
(* character unless it hands a line over.                                  *)
LEMMA ParseRead ==
    ASSUME NEW p, Open(p), NEW c \in Keys
    PROVE  Read(parseInput(p, c, 0))
  <1> DEFINE e == [p EXCEPT !.isEsc = TRUE]
  <1>1. Open(e) BY DEF Open, Shape
  <1>2. ~(Len(p.pBuf) >= PBSIZE) BY PBSIZEAssumption DEF Open, Shape
  <1>3. CASE c \in LineEnds /\ ~p.isEsc
    <2>1. parseInput(p, c, 0) = WhenFull(EndLine(p, 0)) BY <1>2, <1>3 DEF parseInput
    <2>2. Read(EndLine(p, 0)) /\ Open(EndLine(p, 0).parser) BY EndLineRead
    <2>3. WhenFull(EndLine(p, 0)) = EndLine(p, 0) BY <2>2 DEF WhenFull, Open
    <2> QED BY <2>1, <2>2, <2>3
  <1>4. CASE ~(c \in LineEnds /\ ~p.isEsc) /\ c = "ESC" /\ ~p.isEsc
    <2>1. parseInput(p, c, 0) = WhenFull(Result(e, 0)) BY <1>2, <1>4 DEF parseInput
    <2>2. WhenFull(Result(e, 0)) = Result(e, 0) BY <1>1 DEF WhenFull, Open, Result
    <2> HIDE DEF e
    <2> QED BY <2>1, <2>2, <1>1, OpenRead
  <1>5. CASE ~(c \in LineEnds /\ ~p.isEsc) /\ ~(c = "ESC" /\ ~p.isEsc)
    <2>1. parseInput(p, c, 0) = WhenFull(Result(AddChar(p, c), 0))
      BY <1>2, <1>5 DEF parseInput
    <2> QED BY <2>1, AddCharRead, WhenFullRead
  <1> QED BY <1>3, <1>4, <1>5

(* The bounded buffers of TypeOK.                                          *)
LEMMA Bounded ==
    ASSUME NEW s
    PROVE  s \in UNION {[1..n -> Keys] : n \in 0..(PBSIZE - 1)}
             <=> s \in Seq(Keys) /\ Len(s) < PBSIZE
  <1> USE PBSIZEAssumption
  <1>1. ASSUME NEW n \in 0..(PBSIZE - 1), s \in [1..n -> Keys]
        PROVE  s \in Seq(Keys) /\ Len(s) < PBSIZE
    BY <1>1
  <1>2. ASSUME s \in Seq(Keys), Len(s) < PBSIZE
        PROVE  Len(s) \in 0..(PBSIZE - 1) /\ s \in [1..Len(s) -> Keys]
    BY <1>2
  <1> QED BY <1>1, <1>2

Handed ==
    \A k \in DOMAIN handed :
        handed[k].kind \in Kinds /\ Len(handed[k].text) <= PBSIZE

(* The inductive invariant: TypeOK with the buffers as sequences.          *)
PInv == Open(parser) /\ Handed /\ handed \in Seq([kind : Kinds, text : Seq(Keys)])

LEMMA PInvInit == Init => PInv
  BY PBSIZEAssumption DEF Init, PInv, Open, Shape, Handed, BootParser

(* The line that was handed over leaves a buffer with room again.          *)
LEMMA PInvStep ==
    ASSUME PInv, [Next]_vars
    PROVE  PInv'
  <1>1. CASE UNCHANGED vars BY <1>1 DEF vars, PInv, Open, Handed
  <1>2. ASSUME NEW c \in Keys, Type(c) PROVE PInv'
    <2> DEFINE res == parseInput(parser, c, 0)
    <2>1. Read(res) BY ParseRead DEF PInv
    <2>2. CASE res.r = 0
      <3>1. parser' = res.parser /\ handed' = handed BY <1>2, <2>2 DEF Type
      <3> QED BY <2>1, <2>2, <3>1 DEF Read, PInv, Open, Handed
    <2>3. CASE res.r # 0
      <3> DEFINE line == [kind |-> KindOf(res.r), text |-> res.parser.pBuf]
      <3>1. parser' = [flushPbuf(res.parser) EXCEPT !.dataBufferFull = FALSE]
            /\ handed' = Append(handed, line)
        BY <1>2, <2>3 DEF Type
      <3> DEFINE p == flushPbuf(res.parser)
      <3>2. Open(parser')
        <4>1. p \in Shape /\ ~p.sendIdn /\ Len(p.pBuf) < PBSIZE
          BY <2>1, Flushed DEF Read
        <4>2. parser' = [p EXCEPT !.dataBufferFull = FALSE] BY <3>1
        <4> HIDE DEF p
        <4> QED BY <4>1, <4>2 DEF Open, Shape
      <3>3. KindOf(res.r) \in Kinds BY <2>1, <2>3 DEF Read, KindOf, Kinds
      <3>4. line \in [kind : Kinds, text : Seq(Keys)] /\ Len(line.text) <= PBSIZE
        <4>1. res.parser.pBuf \in Seq(Keys) /\ Len(res.parser.pBuf) <= PBSIZE
          BY <2>1 DEF Read, Shape
        <4> HIDE DEF res
        <4> QED BY <3>3, <4>1
      <3> HIDE DEF line
      <3>5. handed' \in Seq([kind : Kinds, text : Seq(Keys)]) BY <3>1, <3>4 DEF PInv
      <3>6. Handed' BY <3>1, <3>4 DEF PInv, Handed
      <3> QED BY <3>2, <3>5, <3>6 DEF PInv
    <2> QED BY <2>2, <2>3
  <1> QED BY <1>1, <1>2 DEF Next

(* The parser's type correctness: whatever is typed, pBuf is never written *)
(* past its end, and nothing longer than it is handed on.                  *)
THEOREM ParserTypeCorrect == Spec => []TypeOK
  <1>1. PInv => TypeOK
    BY Bounded DEF PInv, Open, Shape, Handed, TypeOK
  <1> QED BY <1>1, PInvInit, PInvStep, PTL DEF Spec

-----------------------------------------------------------------------------
(* Escapes.                                                                *)

(* The text s ends in exactly r ESC.                                       *)
EndsInEsc(s, r) ==
    /\ r \in 0..Len(s)
    /\ \A j \in (Len(s) + 1 - r)..Len(s) : s[j] = "ESC"
    /\ r < Len(s) => s[Len(s) - r] # "ESC"

(* The reference's parity, in terms of that number.                        *)
LEMMA EscapedLemma ==
    ASSUME NEW s \in Seq(Keys), NEW r, EndsInEsc(s, r)
    PROVE  Escaped(s, Len(s) + 1) <=> r % 2 = 1
  <1> DEFINE i == Len(s) + 1
             run == {k \in 0..(i - 1) : \A j \in (i - k)..(i - 1) : s[j] = "ESC"}
  <1>1. r \in Nat /\ Len(s) \in Nat
    BY DEF EndsInEsc
  <1>2. run = 0..r
    <2>1. ASSUME NEW k \in run PROVE k \in 0..r
      <3>1. CASE k > r
        <4>1. Len(s) - r \in (i - k)..(i - 1) /\ r < Len(s)
          BY <1>1, <3>1
        <4> QED BY <4>1 DEF EndsInEsc
      <3> QED BY <1>1, <3>1
    <2>2. ASSUME NEW k \in 0..r PROVE k \in run
      <3>1. \A j \in (i - k)..(i - 1) : j \in (Len(s) + 1 - r)..Len(s)
        BY <1>1
      <3>2. k \in 0..(i - 1)
        BY <1>1 DEF EndsInEsc
      <3> QED BY <3>1, <3>2 DEF EndsInEsc
    <2> QED BY <2>1, <2>2
  <1>3. Escaped(s, i) <=> Max(run) % 2 = 1
    BY DEF Escaped
  <1> HIDE DEF run
  <1>4. Max(run) = r
    BY <1>1, <1>2 DEF Max
  <1> QED BY <1>3, <1>4

LEMMA EscGrows ==
    ASSUME NEW s \in Seq(Keys), NEW r, EndsInEsc(s, r), NEW c \in Keys
    PROVE  /\ c = "ESC" => EndsInEsc(Append(s, c), r + 1)
           /\ c # "ESC" => EndsInEsc(Append(s, c), 0)
  <1> DEFINE t == Append(s, c)
  <1>1. /\ Len(s) \in Nat /\ Len(t) = Len(s) + 1 /\ t[Len(t)] = c
        /\ \A j \in 1..Len(s) : t[j] = s[j]
    OBVIOUS
  <1>2. r \in 0..Len(s)
    BY DEF EndsInEsc
  <1> HIDE DEF t
  <1>3. CASE c = "ESC"
    <2>1. ASSUME NEW j \in (Len(t) + 1 - (r + 1))..Len(t) PROVE t[j] = "ESC"
      <3>1. j = Len(t) \/ (j \in 1..Len(s) /\ j \in (Len(s) + 1 - r)..Len(s))
        BY <1>1, <1>2
      <3> QED BY <1>1, <1>3, <3>1 DEF EndsInEsc
    <2>2. r + 1 < Len(t) => t[Len(t) - (r + 1)] # "ESC"
      <3>1. r + 1 < Len(t) => /\ Len(t) - (r + 1) = Len(s) - r /\ Len(s) - r \in 1..Len(s)
                              /\ r < Len(s)
        BY <1>1, <1>2
      <3> QED BY <1>1, <3>1 DEF EndsInEsc
    <2>3. r + 1 \in 0..Len(t)
      BY <1>1, <1>2
    <2> QED BY <1>3, <2>1, <2>2, <2>3 DEF EndsInEsc, t
  <1>4. CASE c # "ESC"
    <2>1. EndsInEsc(t, 0)
      BY <1>1, <1>4 DEF EndsInEsc
    <2> QED BY <1>4, <2>1 DEF t
  <1> QED BY <1>3, <1>4

(* What is typed later does not change what is escaped.                    *)
LEMMA EscapedStays ==
    ASSUME NEW s \in Seq(Keys), NEW c \in Keys, NEW i \in 1..(Len(s) + 1)
    PROVE  Escaped(Append(s, c), i) <=> Escaped(s, i)
  <1> DEFINE run(x) == {k \in 0..(i - 1) : \A j \in (i - k)..(i - 1) : x[j] = "ESC"}
  <1>1. \A j \in 1..Len(s) : Append(s, c)[j] = s[j]
    OBVIOUS
  <1>2. \A k \in 0..(i - 1) : \A j \in (i - k)..(i - 1) : j \in 1..Len(s)
    OBVIOUS
  <1>3. run(Append(s, c)) = run(s)
    BY <1>1, <1>2
  <1> QED BY <1>3 DEF Escaped

(* isEsc says whether the next character is escaped.                       *)
LEMMA ParseEscapes ==
    ASSUME NEW p, Open(p), NEW c \in Keys
    PROVE  parseInput(p, c, 0).parser.isEsc <=> (c = "ESC" /\ ~p.isEsc)
  <1>1. ~(Len(p.pBuf) >= PBSIZE) /\ p \in Shape
    BY PBSIZEAssumption DEF Open, Shape
  <1>2. ASSUME NEW q \in Shape, NEW r PROVE WhenFull(Result(q, r)).parser.isEsc <=> q.isEsc
    BY DEF WhenFull, Result, flushPbuf, Shape
  <1>3. CASE c \in LineEnds /\ ~p.isEsc
    <2> DEFINE q == [p EXCEPT !.isPlusEscaped = FALSE]
    <2>1. parseInput(p, c, 0) = WhenFull(EndLine(p, 0))
      BY <1>1, <1>3 DEF parseInput
    <2>2. EndLine(p, 0) \in {Result(p, 0), Result(flushPbuf(q), 3), Result(q, 1), Result(q, 2)}
      BY DEF EndLine
    <2>3. q \in Shape /\ ~q.isEsc
      BY <1>1, <1>3 DEF Shape
    <2> HIDE DEF q
    <2>4. flushPbuf(q) \in Shape /\ ~flushPbuf(q).isEsc
      BY <2>3, Flushed DEF flushPbuf, Shape
    <2>5. ~WhenFull(EndLine(p, 0)).parser.isEsc
      BY <1>1, <1>2, <1>3, <2>2, <2>3, <2>4
    <2> QED BY <1>3, <2>1, <2>5 DEF LineEnds
  <1>4. CASE ~(c \in LineEnds /\ ~p.isEsc) /\ c = "ESC" /\ ~p.isEsc
    <2> DEFINE q == [p EXCEPT !.isEsc = TRUE]
    <2>1. parseInput(p, c, 0) = WhenFull(Result(q, 0))
      BY <1>1, <1>4 DEF parseInput
    <2>2. q \in Shape /\ q.isEsc
      BY <1>1 DEF Shape
    <2> HIDE DEF q
    <2> QED BY <1>2, <1>4, <2>1, <2>2
  <1>5. CASE ~(c \in LineEnds /\ ~p.isEsc) /\ ~(c = "ESC" /\ ~p.isEsc)
    <2>1. parseInput(p, c, 0) = WhenFull(Result(AddChar(p, c), 0))
      BY <1>1, <1>5 DEF parseInput
    <2>2. AddChar(p, c) \in Shape /\ ~AddChar(p, c).isEsc
      <3>1. ~AddChar(p, c).isEsc
        BY <1>1 DEF AddChar, addPbuf, Shape
      <3> QED BY <3>1, AddCharRead
    <2> QED BY <1>2, <1>5, <2>1, <2>2
  <1> QED BY <1>3, <1>4, <1>5

-----------------------------------------------------------------------------
(* A client that escapes every plus.                                       *)

EveryPlus(s) == \A i \in DOMAIN s : s[i] = "PLUS" => Escaped(s, i)

(* The parser knows that the plus its line begins with was escaped.        *)
Guarded(p) == Len(p.pBuf) > 0 /\ p.pBuf[1] = "PLUS" => p.isPlusEscaped

LEMMA GuardedIsData ==
    ASSUME NEW p, Guarded(p)
    PROVE  ~isCommandLine(p)
  BY DEF Guarded, isCommandLine, isCmd

LEMMA ParseGuarded ==
    ASSUME NEW p, Open(p), Guarded(p), NEW c \in Keys, c = "PLUS" => p.isEsc
    PROVE  /\ parseInput(p, c, 0).r \in {0, 2}
           /\ parseInput(p, c, 0).r = 0 => Guarded(parseInput(p, c, 0).parser)
  <1>1. ~(Len(p.pBuf) >= PBSIZE) /\ p \in Shape
    BY PBSIZEAssumption DEF Open, Shape
  <1>2. ASSUME NEW q \in Shape, Guarded(q), NEW r \in {0, 2}
        PROVE  /\ WhenFull(Result(q, r)).r \in {0, 2}
               /\ WhenFull(Result(q, r)).r = 0 => Guarded(WhenFull(Result(q, r)).parser)
    <2>1. flushPbuf(q).pBuf = <<>> /\ Len(<<>>) = 0
      BY DEF flushPbuf, Shape
    <2>2. Guarded(flushPbuf(q))
      BY <2>1 DEF Guarded
    <2>3. WhenFull(Result(q, r)) \in {Result(q, r), Result(flushPbuf(q), 0)}
          \/ WhenFull(Result(q, r)).r = 2
      BY DEF WhenFull, Result
    <2> QED BY <1>2, <2>2, <2>3 DEF Result
  <1>3. CASE c \in LineEnds /\ ~p.isEsc
    <2> DEFINE q == [p EXCEPT !.isPlusEscaped = FALSE]
    <2>1. parseInput(p, c, 0) = WhenFull(EndLine(p, 0))
      BY <1>1, <1>3 DEF parseInput
    <2>2. EndLine(p, 0) \in {Result(p, 0), Result(q, 2)}
      BY GuardedIsData DEF EndLine
    <2>3. WhenFull(Result(q, 2)).r = 2
      BY DEF WhenFull, Result
    <2> HIDE DEF q
    <2> QED BY <1>1, <1>2, <2>1, <2>2, <2>3
  <1>4. CASE ~(c \in LineEnds /\ ~p.isEsc) /\ c = "ESC" /\ ~p.isEsc
    <2> DEFINE q == [p EXCEPT !.isEsc = TRUE]
    <2>1. parseInput(p, c, 0) = WhenFull(Result(q, 0))
      BY <1>1, <1>4 DEF parseInput
    <2>2. q \in Shape /\ Guarded(q)
      BY <1>1 DEF Shape, Guarded
    <2> HIDE DEF q
    <2> QED BY <1>2, <2>1, <2>2
  <1>5. CASE ~(c \in LineEnds /\ ~p.isEsc) /\ ~(c = "ESC" /\ ~p.isEsc)
    <2> DEFINE e == p.isPlusEscaped \/ (c = "PLUS" /\ p.isEsc /\ Len(p.pBuf) < 2)
               q == [p EXCEPT !.isEsc = FALSE, !.isPlusEscaped = e]
    <2>1. parseInput(p, c, 0) = WhenFull(Result(AddChar(p, c), 0))
      BY <1>1, <1>5 DEF parseInput
    <2>2. AddChar(p, c) = addPbuf(q, c) /\ e \in BOOLEAN
      BY <1>1 DEF AddChar, Shape
    <2>3. (Len(p.pBuf) = 0 /\ c = "PLUS" => e) /\ (p.isPlusEscaped => e)
      OBVIOUS
    <2> HIDE DEF e
    <2>4. q \in Shape /\ q.pBuf = p.pBuf /\ q.isPlusEscaped = e
      BY <1>1, <2>2 DEF Shape
    <2> HIDE DEF q
    <2>5. addPbuf(q, c).pBuf = Append(p.pBuf, c) /\ addPbuf(q, c).isPlusEscaped = e
      BY <2>4 DEF addPbuf, Shape
    <2>6. Append(p.pBuf, c)[1] = IF Len(p.pBuf) = 0 THEN c ELSE p.pBuf[1]
      BY <1>1 DEF Shape
    <2>7. p.pBuf \in Seq(Keys) /\ Len(p.pBuf) \in Nat
      BY <1>1 DEF Shape
    <2>8. Guarded(addPbuf(q, c))
      BY <2>3, <2>5, <2>6, <2>7 DEF Guarded
    <2>9. AddChar(p, c) \in Shape
      BY AddCharRead
    <2> QED BY <1>2, <2>1, <2>2, <2>8, <2>9
  <1> QED BY <1>3, <1>4, <1>5

(* The parser's isEsc is the parity of the ESC typed last; as long as every*)
(* plus is escaped, it knows of the one in its buffer, and nothing but data*)
(* has been handed on.                                                     *)
EscapeInv ==
    /\ PInv
    /\ typed \in Seq(Keys)
    /\ \E r : EndsInEsc(typed, r) /\ (parser.isEsc <=> r % 2 = 1)
    /\ EveryPlus(typed) => Guarded(parser) /\ \A k \in DOMAIN handed : handed[k].kind = "data"

LEMMA EscapeStep ==
    ASSUME EscapeInv, PInv', NEW c \in Keys, Type(c)
    PROVE  EscapeInv'
  <1> DEFINE res == parseInput(parser, c, 0)
             line == [kind |-> KindOf(res.r), text |-> res.parser.pBuf]
             q == flushPbuf(res.parser)
             f == [q EXCEPT !.dataBufferFull = FALSE]
  <1>1. Open(parser) /\ Read(res) /\ typed \in Seq(Keys) /\ typed' = Append(typed, c)
    BY ParseRead DEF EscapeInv, PInv, Type
  <1>2. /\ res.r = 0 => parser' = res.parser /\ handed' = handed
        /\ res.r # 0 => parser' = f /\ handed' = Append(handed, line)
    BY DEF Type
  <1>3. PICK r : EndsInEsc(typed, r) /\ (parser.isEsc <=> r % 2 = 1)
    BY DEF EscapeInv
  <1>4. res.parser.isEsc <=> (c = "ESC" /\ ~parser.isEsc)
    BY <1>1, ParseEscapes
  <1>5. EveryPlus(typed) /\ (c = "PLUS" => parser.isEsc) =>
          res.r \in {0, 2} /\ (res.r = 0 => Guarded(res.parser))
    BY <1>1, ParseGuarded DEF EscapeInv
  <1>6. f.isEsc = res.parser.isEsc /\ Guarded(f)
    <2>1. f.isEsc = res.parser.isEsc /\ f.pBuf = <<>> /\ Len(<<>>) = 0
      BY <1>1 DEF Read, Shape, flushPbuf
    <2> QED BY <2>1 DEF Guarded
  <1> HIDE DEF res, f
  <1>7. parser'.isEsc <=> (c = "ESC" /\ ~parser.isEsc)
    BY <1>1, <1>2, <1>4, <1>6 DEF Read
  <1>8. \E m : EndsInEsc(typed', m) /\ (parser'.isEsc <=> m % 2 = 1)
    <2>1. r \in Nat
      BY <1>1, <1>3 DEF EndsInEsc
    <2>2. CASE c = "ESC"
      <3>1. EndsInEsc(typed', r + 1)
        BY <1>1, <1>3, <2>2, EscGrows
      <3>2. (r + 1) % 2 = 1 <=> ~(r % 2 = 1)
        BY <2>1
      <3> QED BY <1>3, <1>7, <2>2, <3>1, <3>2
    <2>3. CASE c # "ESC"
      <3>1. EndsInEsc(typed', 0)
        BY <1>1, <1>3, <2>3, EscGrows
      <3> QED BY <1>7, <2>3, <3>1
    <2> QED BY <2>2, <2>3
  <1>9. ASSUME EveryPlus(typed')
        PROVE  EveryPlus(typed) /\ (c = "PLUS" => parser.isEsc)
    <2>1. /\ DOMAIN typed = 1..Len(typed) /\ DOMAIN typed' = 1..(Len(typed) + 1)
          /\ typed'[Len(typed) + 1] = c /\ \A i \in 1..Len(typed) : typed'[i] = typed[i]
          /\ Len(typed) \in Nat
      BY <1>1
    <2>2. \A i \in 1..(Len(typed) + 1) : Escaped(typed', i) <=> Escaped(typed, i)
      BY <1>1, EscapedStays
    <2>3. EveryPlus(typed)
      BY <1>9, <2>1, <2>2 DEF EveryPlus
    <2>4. c = "PLUS" => Escaped(typed, Len(typed) + 1)
      BY <1>9, <2>1, <2>2 DEF EveryPlus
    <2> QED BY <1>1, <1>3, <2>3, <2>4, EscapedLemma
  <1>10. ASSUME EveryPlus(typed')
         PROVE  Guarded(parser') /\ \A k \in DOMAIN handed' : handed'[k].kind = "data"
    <2>1. /\ \A k \in DOMAIN handed : handed[k].kind = "data"
          /\ res.r \in {0, 2} /\ (res.r = 0 => Guarded(res.parser))
      BY <1>5, <1>9, <1>10 DEF EscapeInv
    <2>2. CASE res.r = 0
      BY <1>2, <2>1, <2>2
    <2>3. CASE res.r = 2
      <3>1. parser' = f /\ handed' = Append(handed, line) /\ line.kind = "data"
        BY <1>2, <2>3 DEF KindOf
      <3>2. handed \in Seq([kind : Kinds, text : Seq(Keys)])
        BY DEF EscapeInv, PInv
      <3> HIDE DEF line
      <3>3. \A k \in DOMAIN handed' :
               (k \in DOMAIN handed /\ handed'[k] = handed[k]) \/ handed'[k] = line
        BY <3>1, <3>2
      <3> QED BY <1>6, <2>1, <3>1, <3>3
    <2> QED BY <2>1, <2>2, <2>3
  <1>11. typed' \in Seq(Keys)
    BY <1>1
  <1> QED BY <1>8, <1>10, <1>11 DEF EscapeInv

LEMMA EscapeInvInit == Init => EscapeInv
  <1> SUFFICES ASSUME Init PROVE EscapeInv OBVIOUS
  <1>1. typed = <<>> /\ handed = <<>> /\ parser = BootParser
    BY DEF Init
  <1>2. /\ Len(<<>>) = 0 /\ DOMAIN <<>> = {} /\ <<>> \in Seq(Keys)
        /\ parser.pBuf = <<>> /\ parser.isEsc = FALSE
    BY <1>1 DEF BootParser
  <1>3. EndsInEsc(<<>>, 0)
    BY <1>2 DEF EndsInEsc
  <1>4. parser.isEsc <=> 0 % 2 = 1
    BY <1>2
  <1>5. Guarded(parser)
    BY <1>2 DEF Guarded
  <1> QED BY <1>1, <1>2, <1>3, <1>4, <1>5, PInvInit DEF EscapeInv

LEMMA EscapeInvStep ==
    ASSUME EscapeInv, [Next]_vars
    PROVE  EscapeInv'
  <1>1. PInv'
    BY PInvStep DEF EscapeInv
  <1>2. CASE UNCHANGED vars
    <2>1. parser' = parser /\ typed' = typed /\ handed' = handed
      BY <1>2 DEF vars
    <2> QED BY <1>1, <2>1 DEF EscapeInv
  <1>3. CASE Next
    BY <1>1, <1>3, EscapeStep DEF Next
  <1> QED BY <1>2, <1>3

(* A client that escapes every plus has none of its data executed as a     *)
(* command, whatever it types and wherever a full buffer cuts its lines.   *)
THEOREM EscapedCorrect == Spec => []EscapedStaysData
  <1>1. EscapeInv => EscapedStaysData
    BY DEF EscapeInv, EveryPlus, EscapedStaysData
  <1> QED BY <1>1, EscapeInvInit, EscapeInvStep, PTL DEF Spec

-----------------------------------------------------------------------------
(* The reference's loops.                                                  *)

LEMMA InSequenceSteps ==
    ASSUME NEW S
    PROVE  /\ InSequence(0, S) = <<>>
           /\ \A n \in Nat : n > 0 =>
                 InSequence(n, S) = IF n \in S THEN Append(InSequence(n - 1, S), n)
                                    ELSE InSequence(n - 1, S)
           /\ \A n \in Nat : InSequence(n, S) \in Seq(Nat)
  <1> DEFINE V == Seq(Nat)
             base == <<>>
             step(v, k) == IF k \in S THEN Append(v, k) ELSE v
             F == [x \in V \X Nat |-> step(x[1], x[2])]
             Works(f) == f = [k \in Nat |-> IF k = 0 THEN base ELSE step(f[k - 1], k)]
             upto == CHOOSE f : Works(f)
  <1>1. base \in V /\ F \in [V \X Nat -> V]
    OBVIOUS
  <1>2. \A n : InSequence(n, S) = upto[n]
    BY DEF InSequence
  <1>3. \A v \in V, k \in Nat : F[<<v, k>>] = step(v, k)
    OBVIOUS
  <1>4. \A v \in V, k \in Nat : step(v, k) \in V
    OBVIOUS
  <1> HIDE DEF F, step, base, V
  <1>5. PICK g \in [Nat -> V] : IsLoop(g, Nat, base, F)
    BY <1>1, EndlessLoopExists, Zenon
  <1>6. \A k \in Nat : k # 0 => k - 1 \in Nat /\ g[k - 1] \in V
    OBVIOUS
  <1>7. Works(g)
    BY <1>3, <1>5, <1>6 DEF IsLoop
  <1>8. Works(upto)
    BY <1>7
  <1> HIDE DEF upto
  <1>9. upto[0] = base /\ \A k \in Nat : k > 0 => upto[k] = step(upto[k - 1], k)
    BY <1>8
  <1>10. ASSUME NEW n \in Nat PROVE upto[n] \in V
    <2>1. upto[0] \in V /\ \A k \in 1..n : upto[k - 1] \in V => upto[k] \in V
      BY <1>1, <1>4, <1>9
    <2>2. \A k \in 0..n : upto[k] \in V
      BY <2>1, LoopStays
    <2> QED BY <2>2
  <1> QED BY <1>2, <1>9, <1>10 DEF base, V, step

LEMMA InSequenceNext ==
    ASSUME NEW n \in Nat, NEW S
    PROVE  InSequence(n + 1, S) = IF n + 1 \in S THEN Append(InSequence(n, S), n + 1)
                                  ELSE InSequence(n, S)
  <1>1. n + 1 \in Nat /\ n + 1 > 0 /\ (n + 1) - 1 = n
    OBVIOUS
  <1>2. \A m \in Nat : m > 0 =>
           InSequence(m, S) = IF m \in S THEN Append(InSequence(m - 1, S), m)
                              ELSE InSequence(m - 1, S)
    BY InSequenceSteps, Zenon
  <1>3. InSequence(n + 1, S) = IF n + 1 \in S THEN Append(InSequence((n + 1) - 1, S), n + 1)
                               ELSE InSequence((n + 1) - 1, S)
    BY <1>1, <1>2, Zenon
  <1> QED BY <1>1, <1>3, Zenon

(* Only the positions up to n count.                                       *)
LEMMA InSequenceLocal ==
    ASSUME NEW n \in Nat, NEW S, NEW T, \A k \in 1..n : k \in S <=> k \in T
    PROVE  InSequence(n, S) = InSequence(n, T)
  <1> DEFINE P == {k \in 0..n : InSequence(k, S) = InSequence(k, T)}
  <1>1. P \in SUBSET (0..n) /\ 0 \in P
    BY InSequenceSteps
  <1>2. ASSUME NEW k \in 1..n, k - 1 \in P PROVE k \in P
    <2>1. k \in Nat /\ k > 0 /\ k \in 0..n /\ InSequence(k - 1, S) = InSequence(k - 1, T)
      BY <1>2
    <2>2. k \in S <=> k \in T
      OBVIOUS
    <2>3. InSequence(k, S) = IF k \in S THEN Append(InSequence(k - 1, S), k)
                             ELSE InSequence(k - 1, S)
      BY <2>1, InSequenceSteps
    <2>4. InSequence(k, T) = IF k \in T THEN Append(InSequence(k - 1, T), k)
                             ELSE InSequence(k - 1, T)
      BY <2>1, InSequenceSteps
    <2>5. InSequence(k, S) = InSequence(k, T)
      BY <2>1, <2>2, <2>3, <2>4
    <2> QED BY <2>1, <2>5
  <1> HIDE DEF P
  <1>3. P = 0..n
    BY <1>1, <1>2, IntervalInduction
  <1> QED BY <1>3 DEF P

LEMMA InSequenceEmpty ==
    ASSUME NEW n \in Nat, NEW S, \A k \in 1..n : k \notin S
    PROVE  InSequence(n, S) = <<>>
  <1> DEFINE P == {k \in 0..n : InSequence(k, S) = <<>>}
  <1>1. P \in SUBSET (0..n) /\ 0 \in P
    BY InSequenceSteps
  <1>2. ASSUME NEW k \in 1..n, k - 1 \in P PROVE k \in P
    <2>1. k \in Nat /\ k > 0 /\ k \in 0..n /\ InSequence(k - 1, S) = <<>>
      BY <1>2
    <2> QED BY <2>1, InSequenceSteps
  <1> HIDE DEF P
  <1>3. P = 0..n
    BY <1>1, <1>2, IntervalInduction
  <1> QED BY <1>3 DEF P

(* They are positions of S.                                                *)
LEMMA InSequenceRange ==
    ASSUME NEW n \in Nat, NEW S
    PROVE  InSequence(n, S) \in Seq(S \cap (1..n))
  <1> DEFINE A == S \cap (1..n)
             P == {k \in 0..n : InSequence(k, S) \in Seq(A)}
  <1>1. P \in SUBSET (0..n) /\ 0 \in P
    <2>1. <<>> \in Seq(A)
      OBVIOUS
    <2> QED BY <2>1, InSequenceSteps
  <1>2. ASSUME NEW k \in 1..n, k - 1 \in P PROVE k \in P
    <2>1. k \in Nat /\ k > 0 /\ k \in 0..n /\ InSequence(k - 1, S) \in Seq(A)
      BY <1>2
    <2>2. k \in S => k \in A
      OBVIOUS
    <2> HIDE DEF A
    <2>3. InSequence(k, S) = IF k \in S THEN Append(InSequence(k - 1, S), k)
                             ELSE InSequence(k - 1, S)
      BY <2>1, InSequenceSteps
    <2>4. InSequence(k, S) \in Seq(A)
      BY <2>1, <2>2, <2>3
    <2> QED BY <2>1, <2>4 DEF P
  <1> HIDE DEF P
  <1>3. P = 0..n
    BY <1>1, <1>2, IntervalInduction
  <1> QED BY <1>3 DEF P

LEMMA JoinedLoop ==
    ASSUME NEW V, NEW lines \in Seq([kind : Kinds, text : Seq(V)])
    PROVE  \E g \in [0..Len(lines) -> Seq(V)] :
               /\ g[0] = <<>>
               /\ \A k \in 1..Len(lines) : g[k] = g[k - 1] \o lines[k].text
               /\ Joined(lines) = g[Len(lines)]
  <1> DEFINE n == Len(lines)
             W == Seq(V)
             base == <<>>
             step(v, k) == v \o lines[k].text
             F == [x \in W \X (1..n) |-> step(x[1], x[2])]
             Works(f) == f = [k \in 0..n |-> IF k = 0 THEN base ELSE step(f[k - 1], k)]
             upto == CHOOSE f : Works(f)
  <1>1. n \in Nat /\ base \in W /\ F \in [W \X (1..n) -> W]
    <2>1. n \in Nat /\ base \in W
      OBVIOUS
    <2>2. ASSUME NEW k \in 1..n PROVE lines[k].text \in Seq(V)
      <3> DEFINE R == [kind : Kinds, text : Seq(V)]
      <3>1. lines \in Seq(R) /\ k \in 1..Len(lines)
        OBVIOUS
      <3> HIDE DEF R
      <3>2. lines[k] \in R
        BY <3>1
      <3> QED BY <3>2 DEF R
    <2>3. \A v \in W, k \in 1..n : step(v, k) \in W
      BY <2>2
    <2> HIDE DEF step, W, n
    <2> QED BY <2>1, <2>3
  <1>2. Joined(lines) = upto[n]
    BY DEF Joined
  <1>3. \A v \in W, k \in 1..n : F[<<v, k>>] = step(v, k)
    OBVIOUS
  <1> HIDE DEF F, step, base, W, n
  <1>5. PICK g \in [0..n -> W] : IsLoop(g, 0..n, base, F)
    BY <1>1, LoopFunction, Zenon
  <1>6. \A k \in 0..n : k # 0 => k \in 1..n /\ g[k - 1] \in W
    BY <1>1
  <1>7. Works(g)
    BY <1>3, <1>5, <1>6 DEF IsLoop
  <1>8. Works(upto)
    BY <1>7
  <1>9. upto = g
    <2> HIDE DEF upto
    <2>0. ASSUME NEW f, Works(f)
          PROVE  /\ f = [k \in 0..n |-> f[k]] /\ f[0] = base
                 /\ \A k \in 1..n : f[k] = step(f[k - 1], k)
      <3> HIDE DEF step
      <3>1. 0 \in 0..n /\ \A k \in 1..n : k \in 0..n /\ k # 0
        BY <1>1
      <3>2. \A k \in 0..n : f[k] = IF k = 0 THEN base ELSE step(f[k - 1], k)
        BY <2>0
      <3>3. f = [k \in 0..n |-> f[k]]
        BY <2>0
      <3> QED BY <3>1, <3>2, <3>3
    <2> HIDE DEF Works
    <2>1. upto = [k \in 0..n |-> upto[k]] /\ g = [k \in 0..n |-> g[k]]
      BY <1>7, <1>8, <2>0
    <2>2. \A k \in 1..n : g[k] = step(g[k - 1], k) /\ upto[k] = step(upto[k - 1], k)
      BY <1>7, <1>8, <2>0
    <2>3. g[0] = base /\ upto[0] = base
      BY <1>7, <1>8, <2>0
    <2> DEFINE P == {k \in 0..n : upto[k] = g[k]}
    <2>4. P \in SUBSET (0..n) /\ 0 \in P
      BY <1>1, <2>3
    <2>5. \A k \in 1..n : k - 1 \in P => k \in P
      BY <2>2
    <2> HIDE DEF P
    <2>6. P = 0..n
      BY <1>1, <2>4, <2>5, IntervalInduction
    <2>7. \A k \in 0..n : upto[k] = g[k]
      BY <2>6 DEF P
    <2> QED BY <2>1, <2>7, SameFunction
  <1> HIDE DEF upto
  <1>10. g[0] = base /\ \A k \in 1..n : g[k] = step(g[k - 1], k)
    BY <1>1, <1>7
  <1> QED BY <1>2, <1>9, <1>10 DEF base, step, n, W

LEMMA JoinedSteps ==
    ASSUME NEW V, NEW lines \in Seq([kind : Kinds, text : Seq(V)])
    PROVE  /\ Joined(lines) \in Seq(V)
           /\ lines = <<>> => Joined(lines) = <<>>
           /\ \A line \in [kind : Kinds, text : Seq(V)] :
                 Joined(Append(lines, line)) = Joined(lines) \o line.text
  <1> DEFINE n == Len(lines)
  <1>1. PICK g \in [0..n -> Seq(V)] :
               /\ g[0] = <<>>
               /\ \A k \in 1..n : g[k] = g[k - 1] \o lines[k].text
               /\ Joined(lines) = g[n]
    BY JoinedLoop
  <1>2. n \in 0..n
    OBVIOUS
  <1>3. lines = <<>> => n = 0
    OBVIOUS
  <1>4. ASSUME NEW line \in [kind : Kinds, text : Seq(V)]
        PROVE  Joined(Append(lines, line)) = Joined(lines) \o line.text
    <2> DEFINE more == Append(lines, line)
    <2>1. /\ more \in Seq([kind : Kinds, text : Seq(V)]) /\ Len(more) = n + 1
          /\ more[n + 1] = line /\ \A k \in 1..n : more[k] = lines[k]
      OBVIOUS
    <2>2. PICK h \in [0..Len(more) -> Seq(V)] :
                 /\ h[0] = <<>>
                 /\ \A k \in 1..Len(more) : h[k] = h[k - 1] \o more[k].text
                 /\ Joined(more) = h[Len(more)]
      <3> HIDE DEF more
      <3> QED BY <2>1, JoinedLoop
    <2> HIDE DEF more
    <2>3. {k \in 0..n : h[k] = g[k]} = 0..n
      <3> DEFINE Q == {k \in 0..n : h[k] = g[k]}
      <3>1. Q \in SUBSET (0..n) /\ 0 \in Q
        BY <1>1, <1>2, <2>2
      <3>2. ASSUME NEW k \in 1..n, k - 1 \in Q PROVE k \in Q
        <4>1. k \in 1..Len(more) /\ k \in 0..n /\ h[k - 1] = g[k - 1]
          BY <2>1, <3>2
        <4> QED BY <1>1, <2>1, <2>2, <4>1
      <3> HIDE DEF Q
      <3>3. Q = 0..n
        BY <1>2, <3>1, <3>2, IntervalInduction
      <3> QED BY <3>3 DEF Q
    <2>4. h[n] = g[n]
      BY <1>2, <2>3
    <2>5. n + 1 \in 1..Len(more) /\ (n + 1) - 1 = n
      BY <2>1
    <2>6. h[n + 1] = h[n] \o line.text
      BY <2>1, <2>2, <2>5
    <2> QED BY <1>1, <2>1, <2>2, <2>4, <2>6 DEF more
  <1> QED BY <1>1, <1>2, <1>3, <1>4

(* A set of numbers up to n has a largest.                                 *)
LEMMA MaxIn ==
    ASSUME NEW n \in Nat, NEW S, S \subseteq 0..n, S # {}
    PROVE  Max(S) \in S /\ \A k \in S : k <= Max(S)
  <1> DEFINE Top(m) == \E x \in S : x <= m /\ \A y \in S : y <= m => y <= x
             P == {m \in 0..n : (\E x \in S : x <= m) => Top(m)}
  <1>1. P \in SUBSET (0..n) /\ 0 \in P
    OBVIOUS
  <1>2. ASSUME NEW m \in 1..n, m - 1 \in P PROVE m \in P
    <2>1. CASE m \in S
      <3>1. m \in S /\ m <= m /\ \A y \in S : y <= m => y <= m
        BY <2>1
      <3>2. Top(m)
        BY <3>1
      <3> QED BY <3>2
    <2>2. CASE m \notin S
      <3>1. \A x \in S : x <= m <=> x <= m - 1
        BY <2>2
      <3>2. (\E x \in S : x <= m - 1) => Top(m - 1)
        BY <1>2
      <3>3. Top(m - 1) => Top(m)
        BY <3>1
      <3> QED BY <3>1, <3>2, <3>3
    <2> QED BY <2>1, <2>2
  <1> HIDE DEF P
  <1>3. n \in P
    BY <1>1, <1>2, IntervalInduction
  <1>4. \E x \in S : \A y \in S : y <= x
    <2>1. \A y \in S : y <= n
      OBVIOUS
    <2>2. Top(n)
      BY <1>3, <2>1 DEF P
    <2> QED BY <2>1, <2>2
  <1>5. \E x \in S : \A y \in S : x >= y
    BY <1>4
  <1> QED BY <1>5 DEF Max

-----------------------------------------------------------------------------
(* The reference, one character later.                                     *)

IsEnd(s, c) == c \in LineEnds /\ ~Escaped(s, Len(s) + 1)
IsEscape(s, c) == c = "ESC" /\ ~Escaped(s, Len(s) + 1)

LEMMA EndsBetween == ASSUME NEW s \in Seq(Keys) PROVE Ends(s) \subseteq 1..Len(s)
  BY DEF Ends

LEMMA EndsGrow ==
    ASSUME NEW s \in Seq(Keys), NEW c \in Keys
    PROVE  Ends(Append(s, c)) = Ends(s) \cup (IF IsEnd(s, c) THEN {Len(s) + 1} ELSE {})
  <1> DEFINE t == Append(s, c)
             n == Len(s)
  <1>1. /\ n \in Nat /\ DOMAIN t = 1..(n + 1) /\ DOMAIN s = 1..n
        /\ t[n + 1] = c /\ \A i \in 1..n : t[i] = s[i]
    OBVIOUS
  <1>2. \A i \in 1..(n + 1) : Escaped(t, i) <=> Escaped(s, i)
    BY EscapedStays
  <1>3. \A i \in 1..(n + 1) : i \in 1..n \/ i = n + 1
    BY <1>1
  <1>4. \A i \in 1..n : i \in Ends(t) <=> i \in Ends(s)
    <2>1. \A i \in 1..n : i \in 1..(n + 1)
      BY <1>1
    <2> HIDE DEF t, n
    <2> QED BY <1>1, <1>2, <2>1 DEF Ends
  <1>5. n + 1 \in Ends(t) <=> IsEnd(s, c)
    <2>1. n + 1 \in 1..(n + 1)
      BY <1>1
    <2> HIDE DEF t
    <2> QED BY <1>1, <1>2, <2>1 DEF Ends, IsEnd
  <1>6. Ends(t) \subseteq 1..(n + 1) /\ Ends(s) \subseteq 1..n
    BY <1>1 DEF Ends
  <1> HIDE DEF t, n
  <1> QED BY <1>3, <1>4, <1>5, <1>6 DEF t, n

(* The lines that had begun are the same.                                  *)
LEMMA LineStays ==
    ASSUME NEW s \in Seq(Keys), NEW c \in Keys, NEW e \in 1..(Len(s) + 1)
    PROVE  Line(Append(s, c), e) = Line(s, e)
  <1> DEFINE t == Append(s, c)
             n == Len(s)
             inText(x) == {i \in Start(x, e)..(e - 1) : x[i] # "ESC" \/ Escaped(x, i)}
  <1>1. n \in Nat /\ e - 1 \in Nat /\ \A i \in 1..(e - 1) : i \in 1..(n + 1) /\ t[i] = s[i]
    OBVIOUS
  <1>2. \A i \in 1..(n + 1) : Escaped(t, i) <=> Escaped(s, i)
    BY EscapedStays
  <1>3. Start(t, e) = Start(s, e)
    <2>1. \A k \in Ends(t) : k < e => k \in Ends(s)
      BY EndsGrow
    <2>2. Ends(s) \subseteq Ends(t)
      BY EndsGrow
    <2>3. {k \in Ends(t) : k < e} = {k \in Ends(s) : k < e}
      BY <2>1, <2>2
    <2> QED BY <2>3 DEF Start
  <1>4. Line(t, e) = InSequence(e - 1, inText(t)) /\ Line(s, e) = InSequence(e - 1, inText(s))
    BY DEF Line, Text
  <1>5. \A i \in 1..(e - 1) : i \in inText(t) <=> i \in inText(s)
    <2> HIDE DEF t
    <2> QED BY <1>1, <1>2, <1>3
  <1> HIDE DEF inText, t
  <1>6. InSequence(e - 1, inText(t)) = InSequence(e - 1, inText(s))
    BY <1>1, <1>5, InSequenceLocal
  <1> QED BY <1>4, <1>6 DEF t

(* A line end begins a new line, another character belongs to the line     *)
(* that is pending unless it is an ESC that escapes the next one.          *)
LEMMA PendingGrows ==
    ASSUME NEW s \in Seq(Keys), NEW c \in Keys
    PROVE  Pending(Append(s, c)) = IF IsEnd(s, c) THEN <<>>
                                   ELSE IF IsEscape(s, c) THEN Pending(s)
                                   ELSE Append(Pending(s), Len(s) + 1)
  <1> DEFINE t == Append(s, c)
             n == Len(s)
             inText(x, to) == {i \in Start(x, to + 1)..to : x[i] # "ESC" \/ Escaped(x, i)}
  <1>1. /\ n \in Nat /\ n + 1 \in Nat /\ Len(t) = n + 1 /\ t[n + 1] = c
        /\ \A i \in 1..n : t[i] = s[i] /\ i \in 1..(n + 1)
    OBVIOUS
  <1>2. \A i \in 1..(n + 1) : Escaped(t, i) <=> Escaped(s, i)
    BY EscapedStays
  <1>3. /\ Pending(t) = InSequence(n + 1, inText(t, n + 1))
        /\ Pending(s) = InSequence(n, inText(s, n))
    <2>1. (n + 1) + 1 - 1 = n + 1 /\ (n + 1) - 1 = n
      BY <1>1
    <2> QED BY <1>1, <2>1 DEF Pending, Line, Text
  <1> HIDE DEF t, n
  <1>4. CASE IsEnd(s, c)
    <2>1. n + 1 \in Ends(t) /\ Ends(t) \subseteq 1..(n + 1)
      BY <1>1, <1>4, EndsGrow, EndsBetween DEF t, n
    <2>2. Start(t, (n + 1) + 1) = (n + 1) + 1
      <3> DEFINE E == {k \in Ends(t) : k < (n + 1) + 1} \cup {0}
      <3>1. E \subseteq 0..(n + 1) /\ n + 1 \in E
        BY <1>1, <2>1
      <3> HIDE DEF E
      <3>2. Max(E) \in E /\ n + 1 <= Max(E)
        BY <1>1, <3>1, MaxIn
      <3>3. Max(E) = n + 1
        <4>1. Max(E) \in 0..(n + 1)
          BY <3>1, <3>2
        <4> QED BY <1>1, <3>2, <4>1
      <3> QED BY <3>3 DEF Start, E
    <2>3. \A k \in 1..(n + 1) : k \notin inText(t, n + 1)
      BY <1>1, <2>2
    <2> HIDE DEF inText
    <2>4. Pending(t) = <<>>
      BY <1>1, <1>3, <2>3, InSequenceEmpty
    <2> QED BY <1>4, <2>4 DEF t
  <1>5. CASE ~IsEnd(s, c)
    <2>1. Ends(t) = Ends(s) /\ Ends(s) \subseteq 1..n
      BY <1>5, EndsGrow, EndsBetween DEF t, n
    <2>2. Start(t, (n + 1) + 1) = Start(s, n + 1) /\ Start(s, n + 1) <= n + 1
      <3> DEFINE E(x, e) == {k \in Ends(x) : k < e} \cup {0}
      <3>1. E(t, (n + 1) + 1) = E(s, n + 1)
        BY <1>1, <2>1
      <3>2. E(s, n + 1) \subseteq 0..n /\ E(s, n + 1) # {}
        BY <1>1, <2>1
      <3>3. Start(t, (n + 1) + 1) = Max(E(t, (n + 1) + 1)) + 1
            /\ Start(s, n + 1) = Max(E(s, n + 1)) + 1
        BY DEF Start
      <3> HIDE DEF E
      <3>4. Max(E(s, n + 1)) \in 0..n
        BY <1>1, <3>2, MaxIn
      <3> QED BY <1>1, <3>1, <3>3, <3>4
    <2>3. ASSUME NEW i \in 1..n PROVE i \in inText(t, n + 1) <=> i \in inText(s, n)
      BY <1>1, <1>2, <2>2
    <2>4. n + 1 \in inText(t, n + 1) <=> ~IsEscape(s, c)
      <3>1. Start(t, (n + 1) + 1) \in Int
        <4>1. {k \in Ends(s) : k < n + 1} \cup {0} \subseteq 0..n
          BY <1>1, <2>1
        <4>2. Max({k \in Ends(s) : k < n + 1} \cup {0}) \in 0..n
          BY <1>1, <4>1, MaxIn
        <4> QED BY <1>1, <2>2, <4>2 DEF Start
      <3>2. n + 1 \in 1..(n + 1) /\ n + 1 \in Start(t, (n + 1) + 1)..(n + 1)
        BY <1>1, <2>2, <3>1
      <3>3. Escaped(t, n + 1) <=> Escaped(s, n + 1)
        BY <1>2, <3>2
      <3> QED BY <1>1, <3>2, <3>3 DEF IsEscape, n
    <2> HIDE DEF inText
    <2>5. InSequence(n, inText(t, n + 1)) = InSequence(n, inText(s, n))
      BY <1>1, <2>3, InSequenceLocal
    <2>6. Pending(t) = IF IsEscape(s, c) THEN Pending(s) ELSE Append(Pending(s), n + 1)
      <3>2. InSequence(n + 1, inText(t, n + 1)) =
              IF n + 1 \in inText(t, n + 1) THEN Append(InSequence(n, inText(t, n + 1)), n + 1)
              ELSE InSequence(n, inText(t, n + 1))
        BY <1>1, InSequenceNext
      <3> QED BY <1>3, <2>4, <2>5, <3>2
    <2> QED BY <1>5, <2>6 DEF t, n
  <1> QED BY <1>4, <1>5

(* A line end ends a line unless it is blank.                              *)
LEMMA FullEndsGrow ==
    ASSUME NEW s \in Seq(Keys), NEW c \in Keys
    PROVE  FullEnds(Append(s, c)) = IF IsEnd(s, c) /\ Pending(s) # <<>>
                                    THEN Append(FullEnds(s), Len(s) + 1) ELSE FullEnds(s)
  <1> DEFINE t == Append(s, c)
             n == Len(s)
             full(x) == {e \in Ends(x) : Line(x, e) # <<>>}
  <1>1. n \in Nat /\ n + 1 \in Nat /\ n + 1 > 0 /\ (n + 1) - 1 = n /\ Len(t) = n + 1
    OBVIOUS
  <1>2. ASSUME NEW e \in 1..n PROVE e \in full(t) <=> e \in full(s)
    <2>1. e \in 1..(n + 1) /\ e # n + 1
      BY <1>1
    <2>2. e \in Ends(t) <=> e \in Ends(s)
      BY <2>1, EndsGrow
    <2>3. Line(t, e) = Line(s, e)
      BY <2>1, LineStays
    <2> QED BY <2>2, <2>3
  <1>3. n + 1 \in full(t) <=> IsEnd(s, c) /\ Pending(s) # <<>>
    <2>1. n + 1 \in Ends(t) <=> IsEnd(s, c)
      <3>1. n + 1 \notin Ends(s)
        BY <1>1, EndsBetween
      <3> QED BY <3>1, EndsGrow
    <2>2. Line(t, n + 1) = Pending(s)
      <3>1. n + 1 \in 1..(n + 1)
        BY <1>1
      <3> QED BY <3>1, LineStays DEF Pending
    <2> QED BY <2>1, <2>2
  <1>4. FullEnds(t) = InSequence(n + 1, full(t)) /\ FullEnds(s) = InSequence(n, full(s))
    BY <1>1 DEF FullEnds
  <1> HIDE DEF t, n, full
  <1>5. InSequence(n, full(t)) = InSequence(n, full(s))
    BY <1>1, <1>2, InSequenceLocal
  <1>6. InSequence(n + 1, full(t)) = IF n + 1 \in full(t) THEN Append(InSequence(n, full(t)), n + 1)
                                     ELSE InSequence(n, full(t))
    BY <1>1, InSequenceNext
  <1> QED BY <1>3, <1>4, <1>5, <1>6 DEF t, n

LEMMA FullEndsType ==
    ASSUME NEW s \in Seq(Keys)
    PROVE  FullEnds(s) \in Seq(1..Len(s))
  <1> DEFINE full == {e \in Ends(s) : Line(s, e) # <<>>}
  <1>1. InSequence(Len(s), full) \in Seq(full \cap (1..Len(s)))
    BY InSequenceRange
  <1> HIDE DEF full
  <1>2. InSequence(Len(s), full) \in Seq(1..Len(s))
    BY <1>1
  <1> QED BY <1>2 DEF FullEnds, full

LEMMA LineType ==
    ASSUME NEW s \in Seq(Keys), NEW e \in 1..(Len(s) + 1)
    PROVE  Line(s, e) \in Seq(1..Len(s))
  <1> DEFINE inText == {i \in Start(s, e)..(e - 1) : s[i] # "ESC" \/ Escaped(s, i)}
  <1>1. e - 1 \in Nat /\ 1..(e - 1) \subseteq 1..Len(s)
    OBVIOUS
  <1>2. Line(s, e) = InSequence(e - 1, inText)
    BY DEF Line, Text
  <1> HIDE DEF inText
  <1>3. InSequence(e - 1, inText) \in Seq(inText \cap (1..(e - 1)))
    BY <1>1, InSequenceRange
  <1>4. InSequence(e - 1, inText) \in Seq(1..Len(s))
    BY <1>1, <1>3
  <1> QED BY <1>2, <1>4

LEMMA PendingType ==
    ASSUME NEW s \in Seq(Keys)
    PROVE  Pending(s) \in Seq(1..Len(s))
  <1>1. Len(s) + 1 \in 1..(Len(s) + 1)
    OBVIOUS
  <1> QED BY <1>1, LineType DEF Pending

(* The characters at the positions of a line.                              *)
TextOf(s, line) == [k \in DOMAIN line |-> s[line[k]]]

(* The line begins with two plus that are not escaped.                     *)
Marked(s, line) ==
    Len(line) > 2 /\ \A k \in 1..2 : s[line[k]] = "PLUS" /\ ~Escaped(s, line[k])

LEMMA MeaningLemma ==
    ASSUME NEW s \in Seq(Keys), NEW line \in Seq(1..Len(s))
    PROVE  /\ TextOf(s, line) \in Seq(Keys) /\ Len(TextOf(s, line)) = Len(line)
           /\ \A k \in 1..Len(line) : TextOf(s, line)[k] = s[line[k]]
           /\ ~Marked(s, line) => Meaning(s, line) = [kind |-> "data", text |-> TextOf(s, line)]
           /\ Marked(s, line) =>
                 Meaning(s, line) = IF s[line[3]] = "BANG" THEN [kind |-> "break", text |-> <<>>]
                                    ELSE [kind |-> "command", text |-> TextOf(s, line)]
           /\ Meaning(s, line) \in [kind : Kinds, text : Seq(Keys)]
  <1> DEFINE text == [k \in DOMAIN line |-> s[line[k]]]
             marked == /\ Len(line) > 2
                       /\ \A k \in 1..2 : text[k] = "PLUS" /\ ~Escaped(s, line[k])
  <1>1. /\ DOMAIN line = 1..Len(line) /\ Len(line) \in Nat
        /\ \A k \in 1..Len(line) : s[line[k]] \in Keys
    OBVIOUS
  <1>2. /\ text \in Seq(Keys) /\ Len(text) = Len(line)
        /\ \A k \in 1..Len(line) : text[k] = s[line[k]]
    BY <1>1
  <1>3. TextOf(s, line) = text
    BY DEF TextOf
  <1>4. Meaning(s, line) = IF ~marked THEN [kind |-> "data", text |-> text]
                           ELSE IF text[3] = "BANG" THEN [kind |-> "break", text |-> <<>>]
                           ELSE [kind |-> "command", text |-> text]
    BY DEF Meaning
  <1> HIDE DEF text
  <1>5. marked <=> Marked(s, line)
    <2>1. Len(line) > 2 => \A k \in 1..2 : k \in 1..Len(line)
      BY <1>1
    <2> QED BY <1>2, <2>1 DEF Marked
  <1>6. marked => text[3] = s[line[3]]
    BY <1>1, <1>2
  <1> HIDE DEF marked
  <1>7. <<>> \in Seq(Keys) /\ {"data", "break", "command"} \subseteq Kinds
    BY DEF Kinds
  <1>8. Meaning(s, line) \in [kind : Kinds, text : Seq(Keys)]
    BY <1>2, <1>4, <1>7
  <1> QED BY <1>2, <1>3, <1>4, <1>5, <1>6, <1>8

LEMMA MeaningStays ==
    ASSUME NEW s \in Seq(Keys), NEW c \in Keys, NEW line \in Seq(1..Len(s))
    PROVE  /\ Meaning(Append(s, c), line) = Meaning(s, line)
           /\ TextOf(Append(s, c), line) = TextOf(s, line)
           /\ Marked(Append(s, c), line) <=> Marked(s, line)
  <1> DEFINE t == Append(s, c)
             n == Len(s)
  <1>1. /\ t \in Seq(Keys) /\ n \in Nat /\ Len(t) = n + 1
        /\ \A i \in 1..n : t[i] = s[i] /\ i \in 1..(n + 1)
        /\ Len(line) \in Nat /\ DOMAIN line = 1..Len(line)
        /\ \A k \in 1..Len(line) : line[k] \in 1..n
    OBVIOUS
  <1>2. \A i \in 1..n : Escaped(t, i) <=> Escaped(s, i)
    BY <1>1, EscapedStays
  <1>3. line \in Seq(1..Len(t))
    BY <1>1
  <1> HIDE DEF t, n
  <1>4. TextOf(t, line) = TextOf(s, line)
    BY <1>1 DEF TextOf
  <1>5. Len(line) > 2 => 1 \in 1..Len(line) /\ 2 \in 1..Len(line) /\ 3 \in 1..Len(line)
    BY <1>1
  <1>6. Marked(t, line) <=> Marked(s, line)
    BY <1>1, <1>2, <1>5 DEF Marked
  <1>7. Marked(s, line) => t[line[3]] = s[line[3]]
    BY <1>1, <1>5 DEF Marked
  <1>8. Meaning(t, line) = Meaning(s, line)
    <2> DEFINE meaning(x) == IF s[line[3]] = "BANG" THEN [kind |-> "break", text |-> <<>>]
                             ELSE [kind |-> "command", text |-> TextOf(x, line)]
               data(x) == [kind |-> "data", text |-> TextOf(x, line)]
    <2>1. /\ Marked(s, line) => Meaning(s, line) = meaning(s)
          /\ ~Marked(s, line) => Meaning(s, line) = data(s)
      BY MeaningLemma
    <2>2. ~Marked(t, line) => Meaning(t, line) = data(t)
      BY <1>1, <1>3, MeaningLemma
    <2>3. Marked(t, line) => Meaning(t, line) = meaning(t)
      <3>1. Marked(t, line) =>
              Meaning(t, line) = IF t[line[3]] = "BANG" THEN [kind |-> "break", text |-> <<>>]
                                 ELSE [kind |-> "command", text |-> TextOf(t, line)]
        BY <1>1, <1>3, MeaningLemma
      <3> QED BY <1>6, <1>7, <3>1
    <2> QED BY <1>4, <1>6, <2>1, <2>2, <2>3
  <1> QED BY <1>4, <1>6, <1>8 DEF t

LEMMA MeantGrows ==
    ASSUME NEW s \in Seq(Keys), NEW c \in Keys
    PROVE  /\ Meant(s) \in Seq([kind : Kinds, text : Seq(Keys)])
           /\ Meant(Append(s, c)) = IF IsEnd(s, c) /\ Pending(s) # <<>>
                                    THEN Append(Meant(s), Meaning(s, Pending(s))) ELSE Meant(s)
  <1> DEFINE t == Append(s, c)
             n == Len(s)
             ends == FullEnds(s)
             m == Len(ends)
             R == [kind : Kinds, text : Seq(Keys)]
  <1>1. ends \in Seq(1..n) /\ m \in Nat /\ n \in Nat /\ DOMAIN ends = 1..m
        /\ \A k \in 1..m : ends[k] \in 1..n /\ ends[k] \in 1..(n + 1)
    <2>1. ends \in Seq(1..n)
      BY FullEndsType
    <2> HIDE DEF ends
    <2> QED BY <2>1
  <1>2. Meant(s) = [k \in 1..m |-> Meaning(s, Line(s, ends[k]))]
    BY <1>1 DEF Meant
  <1>3. \A k \in 1..m : Meaning(s, Line(s, ends[k])) \in R
    BY <1>1, LineType, MeaningLemma
  <1>4. \A e \in 1..(n + 1) : Meaning(t, Line(t, e)) = Meaning(s, Line(s, e))
    BY LineStays, LineType, MeaningStays
  <1> HIDE DEF ends, R
  <1>5. Meant(s) \in Seq(R) /\ Len(Meant(s)) = m
    BY <1>1, <1>2, <1>3
  <1>6. CASE IsEnd(s, c) /\ Pending(s) # <<>>
    <2>1. FullEnds(t) = Append(ends, n + 1)
      BY <1>6, FullEndsGrow DEF ends
    <2>2. /\ DOMAIN FullEnds(t) = 1..(m + 1) /\ FullEnds(t)[m + 1] = n + 1
          /\ \A k \in 1..m : FullEnds(t)[k] = ends[k]
      BY <1>1, <2>1
    <2>3. Meaning(s, Pending(s)) \in R
      BY PendingType, MeaningLemma DEF R
    <2>4. Meaning(t, Line(t, n + 1)) = Meaning(s, Pending(s))
      BY <1>1, <1>4 DEF Pending
    <2> DEFINE grown == Append(Meant(s), Meaning(s, Pending(s)))
    <2>5. DOMAIN grown = 1..(m + 1) /\ grown[m + 1] = Meaning(s, Pending(s))
          /\ \A k \in 1..m : grown[k] = Meaning(s, Line(s, ends[k]))
      BY <1>1, <1>2, <1>5, <2>3
    <2>6. \A k \in 1..(m + 1) : k \in 1..m \/ k = m + 1
      BY <1>1
    <2>7. \A k \in 1..(m + 1) : grown[k] = Meaning(t, Line(t, FullEnds(t)[k]))
      <3> HIDE DEF grown, t
      <3> QED BY <1>1, <1>4, <2>2, <2>4, <2>5, <2>6
    <2>8. Meant(t) = [k \in 1..(m + 1) |-> Meaning(t, Line(t, FullEnds(t)[k]))]
      BY <2>2 DEF Meant
    <2>9. grown = [k \in 1..(m + 1) |-> grown[k]]
      <3>1. grown \in Seq(R) /\ Len(grown) = m + 1
        BY <1>5, <2>3
      <3> HIDE DEF grown
      <3> QED BY <3>1
    <2>10. grown = Meant(t)
      <3> HIDE DEF grown, t
      <3> QED BY <2>7, <2>8, <2>9
    <2> QED BY <1>5, <1>6, <2>10 DEF R
  <1>7. CASE ~(IsEnd(s, c) /\ Pending(s) # <<>>)
    <2>1. FullEnds(t) = ends
      BY <1>7, FullEndsGrow DEF ends
    <2>2. Meant(t) = [k \in 1..m |-> Meaning(t, Line(t, ends[k]))]
      BY <1>1, <2>1 DEF Meant
    <2>3. Meant(t) = Meant(s)
      <3> HIDE DEF t
      <3> QED BY <1>1, <1>2, <1>4, <2>2
    <2> QED BY <1>5, <1>7, <2>3 DEF R
  <1> QED BY <1>6, <1>7

-----------------------------------------------------------------------------
(* The parser, one character later.                                        *)

LEMMA ParseCases ==
    ASSUME NEW p, Open(p), NEW c \in Keys
    PROVE  parseInput(p, c, 0) = IF c \in LineEnds /\ ~p.isEsc THEN EndLine(p, 0)
                                 ELSE IF c = "ESC" /\ ~p.isEsc
                                 THEN Result([p EXCEPT !.isEsc = TRUE], 0)
                                 ELSE WhenFull(Result(AddChar(p, c), 0))
  <1>1. ~(Len(p.pBuf) >= PBSIZE)
    BY PBSIZEAssumption DEF Open, Shape
  <1>2. ASSUME NEW res, Len(res.parser.pBuf) < PBSIZE PROVE WhenFull(res) = res
    BY <1>2 DEF WhenFull
  <1>3. Len(EndLine(p, 0).parser.pBuf) < PBSIZE
    BY EndLineRead DEF Open
  <1>4. Len(Result([p EXCEPT !.isEsc = TRUE], 0).parser.pBuf) < PBSIZE
    BY DEF Open, Shape, Result
  <1>5. CASE c \in LineEnds /\ ~p.isEsc
    BY <1>1, <1>2, <1>3, <1>5 DEF parseInput
  <1>6. CASE ~(c \in LineEnds /\ ~p.isEsc) /\ c = "ESC" /\ ~p.isEsc
    BY <1>1, <1>2, <1>4, <1>6 DEF parseInput
  <1>7. CASE ~(c \in LineEnds /\ ~p.isEsc) /\ ~(c = "ESC" /\ ~p.isEsc)
    BY <1>1, <1>7 DEF parseInput
  <1> QED BY <1>5, <1>6, <1>7

(* A line end empties the buffer and, if it held something, hands it on    *)
(* and forgets the escaped plus.                                           *)
LEMMA EndLineEmpties ==
    ASSUME NEW p, Open(p)
    PROVE  /\ EndLine(p, 0).r \in 0..3
           /\ EndLine(p, 0).r = 0 <=> p.pBuf = <<>>
           /\ EndLine(p, 0).r = 0 => EndLine(p, 0).parser = p
           /\ EndLine(p, 0).r # 0 => /\ ~EndLine(p, 0).parser.isPlusEscaped
                                     /\ EndLine(p, 0).r = IF ~isCommandLine(p) THEN 2
                                                          ELSE IF p.pBuf[3] = "BANG" THEN 3 ELSE 1
                                     /\ EndLine(p, 0).parser.pBuf =
                                           IF EndLine(p, 0).r = 3 THEN <<>> ELSE p.pBuf
  <1> DEFINE q == [p EXCEPT !.isPlusEscaped = FALSE]
  <1>1. /\ ~q.isPlusEscaped /\ q.pBuf = p.pBuf
        /\ ~flushPbuf(q).isPlusEscaped /\ flushPbuf(q).pBuf = <<>>
    BY DEF Open, Shape, flushPbuf
  <1>2. EndLine(p, 0) = IF p.pBuf = <<>> THEN Result(p, 0)
                        ELSE IF ~isCommandLine(p) THEN Result(q, 2)
                        ELSE IF p.pBuf[3] = "BANG" THEN Result(flushPbuf(q), 3) ELSE Result(q, 1)
    BY DEF EndLine
  <1> HIDE DEF q
  <1>3. \A f, r : Result(f, r).parser = f /\ Result(f, r).r = r
    BY DEF Result
  <1>4. CASE p.pBuf = <<>>
    BY <1>2, <1>3, <1>4
  <1>5. CASE p.pBuf # <<>> /\ ~isCommandLine(p)
    <2>1. EndLine(p, 0) = Result(q, 2)
      BY <1>2, <1>5
    <2> QED BY <1>1, <1>3, <1>5, <2>1
  <1>6. CASE p.pBuf # <<>> /\ isCommandLine(p) /\ p.pBuf[3] = "BANG"
    <2>1. EndLine(p, 0) = Result(flushPbuf(q), 3)
      BY <1>2, <1>6
    <2> QED BY <1>1, <1>3, <1>6, <2>1
  <1>7. CASE p.pBuf # <<>> /\ isCommandLine(p) /\ p.pBuf[3] # "BANG"
    <2>1. EndLine(p, 0) = Result(q, 1)
      BY <1>2, <1>7
    <2> QED BY <1>1, <1>3, <1>7, <2>1
  <1> QED BY <1>4, <1>5, <1>6, <1>7

(* One of the first two characters of a line is an escaped plus.           *)
PlusEscaped(s, line) ==
    \E k \in 1..2 : k <= Len(line) /\ s[line[k]] = "PLUS" /\ Escaped(s, line[k])

(* What a parser that holds the line makes of its end is what was meant.   *)
LEMMA EndLineMeans ==
    ASSUME NEW s \in Seq(Keys), NEW line \in Seq(1..Len(s)), line # <<>>, NEW p, Open(p),
           p.pBuf = TextOf(s, line), p.isPlusEscaped <=> PlusEscaped(s, line)
    PROVE  /\ EndLine(p, 0).r # 0
           /\ [kind |-> KindOf(EndLine(p, 0).r), text |-> EndLine(p, 0).parser.pBuf] =
                 Meaning(s, line)
  <1>1. /\ Len(p.pBuf) = Len(line) /\ Len(line) \in Nat
        /\ \A k \in 1..Len(line) : p.pBuf[k] = s[line[k]]
    BY MeaningLemma
  <1>2. p.pBuf # <<>>
    <2>1. Len(line) # 0 /\ Len(<<>>) = 0
      OBVIOUS
    <2> QED BY <1>1, <2>1
  <1>3. isCommandLine(p) <=> Marked(s, line)
    <2>1. Len(line) > 2 => p.pBuf[1] = s[line[1]] /\ p.pBuf[2] = s[line[2]]
      BY <1>1
    <2>2. isCommandLine(p) <=> /\ Len(line) > 2 /\ ~PlusEscaped(s, line)
                               /\ s[line[1]] = "PLUS" /\ s[line[2]] = "PLUS"
      BY <1>1, <2>1 DEF isCommandLine, isCmd
    <2>3. Len(line) > 2 => (PlusEscaped(s, line) <=>
              \E k \in 1..2 : s[line[k]] = "PLUS" /\ Escaped(s, line[k]))
      BY <1>1 DEF PlusEscaped
    <2>4. \A k \in 1..2 : k = 1 \/ k = 2
      OBVIOUS
    <2> QED BY <2>2, <2>3, <2>4 DEF Marked
  <1>4. isCommandLine(p) => p.pBuf[3] = s[line[3]]
    BY <1>1 DEF isCommandLine
  <1>5. KindOf(1) = "command" /\ KindOf(2) = "data" /\ KindOf(3) = "break"
    BY DEF KindOf
  <1>6. EndLine(p, 0).r # 0
    BY <1>2, EndLineEmpties
  <1>7. CASE ~Marked(s, line)
    <2>1. EndLine(p, 0).r = 2 /\ EndLine(p, 0).parser.pBuf = p.pBuf
      BY <1>3, <1>6, <1>7, EndLineEmpties
    <2>2. Meaning(s, line) = [kind |-> "data", text |-> TextOf(s, line)]
      BY <1>7, MeaningLemma
    <2> QED BY <1>5, <1>6, <2>1, <2>2
  <1>8. CASE Marked(s, line) /\ s[line[3]] = "BANG"
    <2>1. EndLine(p, 0).r = 3 /\ EndLine(p, 0).parser.pBuf = <<>>
      BY <1>3, <1>4, <1>6, <1>8, EndLineEmpties
    <2>2. Meaning(s, line) = [kind |-> "break", text |-> <<>>]
      BY <1>8, MeaningLemma
    <2> QED BY <1>5, <1>6, <2>1, <2>2
  <1>9. CASE Marked(s, line) /\ s[line[3]] # "BANG"
    <2>1. EndLine(p, 0).r = 1 /\ EndLine(p, 0).parser.pBuf = p.pBuf
      BY <1>3, <1>4, <1>6, <1>9, EndLineEmpties
    <2>2. Meaning(s, line) = [kind |-> "command", text |-> TextOf(s, line)]
      BY <1>9, MeaningLemma
    <2> QED BY <1>5, <1>6, <2>1, <2>2
  <1> QED BY <1>7, <1>8, <1>9

(* What AddChar does to the parser.                                        *)
LEMMA AddCharFields ==
    ASSUME NEW p, Open(p), NEW c \in Keys
    PROVE  /\ AddChar(p, c).pBuf = Append(p.pBuf, c)
           /\ AddChar(p, c).isPlusEscaped <=>
                 p.isPlusEscaped \/ (c = "PLUS" /\ p.isEsc /\ Len(p.pBuf) < 2)
  <1> DEFINE b == p.isPlusEscaped \/ (c = "PLUS" /\ p.isEsc /\ Len(p.pBuf) < 2)
             q == [p EXCEPT !.isEsc = FALSE, !.isPlusEscaped = b]
  <1>1. AddChar(p, c) = addPbuf(q, c)
    BY DEF AddChar
  <1>2. b \in BOOLEAN
    BY DEF Open, Shape
  <1> HIDE DEF b
  <1>3. q \in Shape /\ q.pBuf = p.pBuf /\ q.isPlusEscaped = b
    BY <1>2 DEF Open, Shape
  <1> HIDE DEF q
  <1>4. addPbuf(q, c).pBuf = Append(p.pBuf, c) /\ addPbuf(q, c).isPlusEscaped = b
    BY <1>3 DEF addPbuf, Shape
  <1> QED BY <1>1, <1>4 DEF b

LEMMA PlusEscapedStays ==
    ASSUME NEW s \in Seq(Keys), NEW c \in Keys, NEW line \in Seq(1..Len(s))
    PROVE  PlusEscaped(Append(s, c), line) <=> PlusEscaped(s, line)
  <1> DEFINE t == Append(s, c)
             n == Len(s)
  <1>1. \A i \in 1..n : t[i] = s[i] /\ i \in 1..(n + 1)
    OBVIOUS
  <1>2. \A i \in 1..n : Escaped(t, i) <=> Escaped(s, i)
    BY <1>1, EscapedStays
  <1>3. \A k \in 1..2 : k <= Len(line) => line[k] \in 1..n
    OBVIOUS
  <1> HIDE DEF t, n
  <1>4. PlusEscaped(t, line) <=> PlusEscaped(s, line)
    BY <1>1, <1>2, <1>3 DEF PlusEscaped
  <1> QED BY <1>4 DEF t

(* The parser holds the line that is pending.                              *)
Holds(p, s) == p.pBuf = TextOf(s, Pending(s))
Knows(p, s) == p.isPlusEscaped <=> PlusEscaped(s, Pending(s))

LEMMA TextGrows ==
    ASSUME NEW s \in Seq(Keys), NEW c \in Keys
    PROVE  TextOf(Append(s, c), Append(Pending(s), Len(s) + 1)) = Append(TextOf(s, Pending(s)), c)
  <1> DEFINE t == Append(s, c)
             n == Len(s)
             line == Pending(s)
             more == Append(line, n + 1)
             text == Append(TextOf(s, line), c)
  <1>1. /\ n \in Nat /\ t[n + 1] = c /\ \A i \in 1..n : t[i] = s[i]
    OBVIOUS
  <1>2. line \in Seq(1..n)
    BY PendingType
  <1>3. /\ TextOf(s, line) \in Seq(Keys) /\ Len(TextOf(s, line)) = Len(line)
        /\ \A k \in 1..Len(line) : TextOf(s, line)[k] = s[line[k]]
    BY <1>2, MeaningLemma
  <1> HIDE DEF line, t, n
  <1>4. /\ Len(line) \in Nat /\ more[Len(line) + 1] = n + 1
        /\ \A k \in 1..Len(line) : more[k] = line[k] /\ line[k] \in 1..n
        /\ DOMAIN more = 1..(Len(line) + 1)
    BY <1>1, <1>2
  <1>5. text \in Seq(Keys) /\ Len(text) = Len(line) + 1 /\ text[Len(line) + 1] = c
        /\ \A k \in 1..Len(line) : text[k] = s[line[k]]
    BY <1>3, <1>4
  <1> HIDE DEF text, more
  <1>6. ASSUME NEW k \in 1..(Len(line) + 1) PROVE text[k] = t[more[k]]
    <2>1. CASE k \in 1..Len(line)
      <3>1. more[k] = line[k] /\ line[k] \in 1..n
        BY <1>4, <2>1
      <3>2. t[line[k]] = s[line[k]] /\ text[k] = s[line[k]]
        BY <1>1, <1>5, <2>1, <3>1
      <3> QED BY <3>1, <3>2
    <2>2. CASE k = Len(line) + 1
      BY <1>1, <1>4, <1>5, <2>2
    <2> QED BY <1>4, <2>1, <2>2
  <1>7. text = [k \in 1..(Len(line) + 1) |-> text[k]]
    BY <1>5
  <1>8. text = TextOf(t, more)
    BY <1>4, <1>6, <1>7 DEF TextOf
  <1> QED BY <1>8 DEF text, more, line, t, n

(* A character that joins the line and does not fill the buffer.           *)
LEMMA CharJoins ==
    ASSUME NEW s \in Seq(Keys), NEW c \in Keys, NEW p, Open(p), Holds(p, s),
           p.isEsc <=> Escaped(s, Len(s) + 1), ~IsEnd(s, c), ~IsEscape(s, c),
           Fits(Pending(Append(s, c)))
    PROVE  /\ parseInput(p, c, 0) = Result(AddChar(p, c), 0)
           /\ Holds(AddChar(p, c), Append(s, c))
           /\ Knows(p, s) => Knows(AddChar(p, c), Append(s, c))
  <1> DEFINE t == Append(s, c)
             n == Len(s)
             line == Pending(s)
             more == Append(line, n + 1)
  <1>1. /\ n \in Nat /\ t \in Seq(Keys) /\ Len(t) = n + 1 /\ t[n + 1] = c
        /\ \A i \in 1..n : t[i] = s[i]
    OBVIOUS
  <1>2. Pending(t) = more /\ line \in Seq(1..n)
    BY PendingGrows, PendingType
  <1> HIDE DEF line, t, n
  <1>3. /\ Len(line) \in Nat /\ Len(more) = Len(line) + 1 /\ more[Len(line) + 1] = n + 1
        /\ \A k \in 1..Len(line) : more[k] = line[k] /\ line[k] \in 1..n
        /\ more \in Seq(1..(n + 1)) /\ DOMAIN more = 1..(Len(line) + 1)
    BY <1>1, <1>2
  <1>4. /\ p.pBuf \in Seq(Keys) /\ Len(p.pBuf) = Len(line)
        /\ \A k \in 1..Len(line) : p.pBuf[k] = s[line[k]]
    BY <1>2, MeaningLemma DEF Holds, line, n
  <1>5. AddChar(p, c).pBuf = TextOf(t, more)
    <2>1. AddChar(p, c).pBuf = Append(TextOf(s, line), c)
      BY AddCharFields DEF Holds, line
    <2>2. TextOf(t, more) = Append(TextOf(s, line), c)
      BY TextGrows DEF t, line, n
    <2> QED BY <2>1, <2>2
  <1>6. parseInput(p, c, 0) = Result(AddChar(p, c), 0)
    <2>1. parseInput(p, c, 0) = WhenFull(Result(AddChar(p, c), 0))
      BY ParseCases DEF IsEnd, IsEscape
    <2>2. Len(AddChar(p, c).pBuf) < PBSIZE
      <3>1. Len(AddChar(p, c).pBuf) = Len(line) + 1
        BY <1>4, AddCharFields
      <3> QED BY <1>2, <1>3, <3>1 DEF Fits, t
    <2> QED BY <2>1, <2>2 DEF WhenFull, Result
  <1>7. ASSUME Knows(p, s) PROVE AddChar(p, c).isPlusEscaped <=> PlusEscaped(t, more)
    <2> DEFINE at(x, l, k) == k <= Len(l) /\ x[l[k]] = "PLUS" /\ Escaped(x, l[k])
    <2>1. \A i \in 1..(n + 1) : Escaped(t, i) <=> Escaped(s, i)
      BY EscapedStays DEF t, n
    <2>2. ASSUME NEW k \in 1..2
          PROVE  at(t, more, k) <=> at(s, line, k) \/ (k = Len(line) + 1 /\ c = "PLUS" /\ p.isEsc)
      <3>1. CASE k \in 1..Len(line)
        <4>1. more[k] = line[k] /\ line[k] \in 1..n /\ line[k] \in 1..(n + 1)
          BY <1>1, <1>3, <3>1
        <4>2. k <= Len(line) /\ k <= Len(more) /\ k # Len(line) + 1
          BY <1>3, <3>1
        <4> HIDE DEF more
        <4> QED BY <1>1, <2>1, <4>1, <4>2
      <3>2. CASE k = Len(line) + 1
        <4>1. more[k] = n + 1 /\ n + 1 \in 1..(n + 1)
          BY <1>1, <1>3, <3>2
        <4>2. ~(k <= Len(line)) /\ k <= Len(more)
          BY <1>3, <3>2
        <4>3. Escaped(t, n + 1) <=> p.isEsc
          BY <2>1, <4>1 DEF n
        <4> HIDE DEF more
        <4> QED BY <1>1, <3>2, <4>1, <4>2, <4>3
      <3>3. CASE k > Len(line) + 1
        <4>1. ~(k <= Len(line)) /\ ~(k <= Len(more)) /\ k # Len(line) + 1
          BY <1>3, <3>3
        <4> QED BY <4>1
      <3> QED BY <1>3, <3>1, <3>2, <3>3
    <2>3. PlusEscaped(t, more) <=> \E k \in 1..2 : at(t, more, k)
      BY DEF PlusEscaped
    <2>4. PlusEscaped(s, line) <=> \E k \in 1..2 : at(s, line, k)
      BY DEF PlusEscaped
    <2>5. Len(line) < 2 <=> Len(line) + 1 \in 1..2
      BY <1>3
    <2> HIDE DEF at
    <2>6. PlusEscaped(t, more) <=>
            PlusEscaped(s, line) \/ (Len(line) + 1 \in 1..2 /\ c = "PLUS" /\ p.isEsc)
      BY <2>2, <2>3, <2>4
    <2> QED BY <1>4, <1>7, <2>5, <2>6, AddCharFields DEF Knows, line
  <1> QED BY <1>2, <1>5, <1>6, <1>7 DEF Holds, Knows, t

-----------------------------------------------------------------------------
(* Lines are taken as they were typed.                                     *)

AllFit(s) == \A e \in Ends(s) \cup {Len(s) + 1} : Fits(Line(s, e))

LEMMA LastIn ==
    ASSUME NEW V, NEW q \in Seq(V), q # <<>>
    PROVE  Last(q) \in V
  <1>1. Len(q) \in 1..Len(q)
    OBVIOUS
  <1> QED BY <1>1 DEF Last

(* The line before the one that is pending, blank ones aside, fitted.      *)
Clean(s) == FullEnds(s) # <<>> => Fits(Line(s, Last(FullEnds(s))))

LEMMA CleanGrows ==
    ASSUME NEW s \in Seq(Keys), NEW c \in Keys
    PROVE  /\ IsEnd(s, c) /\ Pending(s) # <<>> => (Clean(Append(s, c)) <=> Fits(Pending(s)))
           /\ ~(IsEnd(s, c) /\ Pending(s) # <<>>) => (Clean(Append(s, c)) <=> Clean(s))
  <1> DEFINE t == Append(s, c)
             n == Len(s)
             ends == FullEnds(s)
  <1>1. n \in Nat /\ n + 1 \in 1..(n + 1) /\ \A e \in 1..n : e \in 1..(n + 1)
    OBVIOUS
  <1>2. ends \in Seq(1..n)
    BY FullEndsType
  <1>3. \A e \in 1..(n + 1) : Line(t, e) = Line(s, e)
    BY LineStays
  <1>4. ASSUME IsEnd(s, c), Pending(s) # <<>> PROVE Clean(t) <=> Fits(Pending(s))
    <2>1. FullEnds(t) = Append(ends, n + 1)
      BY <1>4, FullEndsGrow
    <2> HIDE DEF ends, t, n
    <2>2. FullEnds(t) # <<>> /\ Last(FullEnds(t)) = n + 1
      BY <1>2, <2>1 DEF Last
    <2>3. Line(t, n + 1) = Pending(s)
      BY <1>1, <1>3 DEF Pending, n
    <2> QED BY <2>2, <2>3 DEF Clean
  <1>5. ASSUME ~(IsEnd(s, c) /\ Pending(s) # <<>>) PROVE Clean(t) <=> Clean(s)
    <2>1. FullEnds(t) = ends
      BY <1>5, FullEndsGrow
    <2> HIDE DEF ends, t, n
    <2>2. ends # <<>> => Last(ends) \in 1..n
      BY <1>2, LastIn
    <2>3. ends # <<>> => Line(t, Last(ends)) = Line(s, Last(ends))
      BY <1>1, <1>3, <2>2
    <2> QED BY <2>1, <2>3 DEF Clean, ends
  <1> QED BY <1>4, <1>5

LEMMA AllFitGrows ==
    ASSUME NEW s \in Seq(Keys), NEW c \in Keys, AllFit(Append(s, c))
    PROVE  AllFit(s) /\ Fits(Pending(Append(s, c)))
  <1> DEFINE t == Append(s, c)
             n == Len(s)
  <1>1. n \in Nat /\ n + 1 \in 1..(n + 1) /\ Len(t) = n + 1 /\ \A e \in 1..n : e \in 1..(n + 1)
    OBVIOUS
  <1>2. \A e \in 1..(n + 1) : Line(t, e) = Line(s, e)
    BY LineStays
  <1>3. Fits(Pending(t))
    BY <1>1 DEF AllFit, Pending
  <1>4. ASSUME NEW e \in Ends(s) PROVE Fits(Line(s, e))
    <2>1. e \in Ends(t) /\ e \in 1..(n + 1)
      BY <1>1, EndsGrow, EndsBetween
    <2>2. Line(t, e) = Line(s, e)
      BY <1>2, <2>1
    <2>3. Fits(Line(t, e))
      BY <2>1 DEF AllFit
    <2> QED BY <2>2, <2>3
  <1>5. Fits(Line(s, n + 1))
    <2>1. Line(s, n + 1) = Pending(s) /\ Line(t, n + 1) = Pending(s)
      BY <1>1, <1>2 DEF Pending
    <2>2. CASE IsEnd(s, c)
      <3>1. n + 1 \in Ends(t)
        BY <2>2, EndsGrow
      <3>2. Fits(Line(t, n + 1))
        BY <3>1 DEF AllFit
      <3> QED BY <2>1, <3>2
    <2>3. CASE ~IsEnd(s, c)
      <3>1. Pending(s) \in Seq(1..n) /\ Len(Append(Pending(s), n + 1)) = Len(Pending(s)) + 1
        BY PendingType
      <3>2. Pending(t) = Pending(s) \/ Pending(t) = Append(Pending(s), n + 1)
        BY <2>3, PendingGrows
      <3>3. Len(Pending(s)) <= Len(Pending(t)) /\ Len(Pending(s)) \in Nat /\ Len(Pending(t)) \in Nat
        BY <3>1, <3>2
      <3>4. Len(Pending(s)) < PBSIZE
        BY <1>3, <3>3, PBSIZEAssumption DEF Fits
      <3> QED BY <2>1, <3>4 DEF Fits
    <2> QED BY <2>2, <2>3
  <1> QED BY <1>3, <1>4, <1>5 DEF AllFit

LEMMA AllFitClean ==
    ASSUME NEW s \in Seq(Keys), AllFit(s)
    PROVE  Clean(s) /\ Fits(Pending(s))
  <1> DEFINE full == {e \in Ends(s) : Line(s, e) # <<>>}
  <1>1. FullEnds(s) \in Seq(full \cap (1..Len(s)))
    BY InSequenceRange DEF FullEnds
  <1>2. FullEnds(s) # <<>> => Last(FullEnds(s)) \in full
    <2>1. FullEnds(s) # <<>> => Last(FullEnds(s)) \in full \cap (1..Len(s))
      BY <1>1, LastIn
    <2> QED BY <2>1
  <1>3. FullEnds(s) # <<>> => Last(FullEnds(s)) \in Ends(s)
    BY <1>2
  <1> QED BY <1>3 DEF Clean, AllFit, Pending

(* A line that fits is in the buffer, whatever came before; after one that *)
(* fitted its escaped plus is known.                                       *)
LineInv ==
    /\ EscapeInv
    /\ Fits(Pending(typed)) => Holds(parser, typed)
    /\ Fits(Pending(typed)) /\ Clean(typed) => Knows(parser, typed)
    /\ AllFit(typed) => handed = Meant(typed)
    /\ Resynchronises

LEMMA EscKnown == ASSUME EscapeInv PROVE parser.isEsc <=> Escaped(typed, Len(typed) + 1)
  BY EscapedLemma DEF EscapeInv

LEMMA EmptyLine ==
    ASSUME NEW s
    PROVE  TextOf(s, <<>>) = <<>> /\ ~PlusEscaped(s, <<>>) /\ Fits(<<>>)
  <1>1. DOMAIN <<>> = {} /\ Len(<<>>) = 0
    OBVIOUS
  <1>2. TextOf(s, <<>>) = <<>>
    BY <1>1 DEF TextOf
  <1>3. ~PlusEscaped(s, <<>>)
    BY <1>1 DEF PlusEscaped
  <1> QED BY <1>1, <1>2, <1>3, PBSIZEAssumption DEF Fits

(* What a line end does to the parser and to what is handed on.            *)
LEMMA TypeEnd ==
    ASSUME LineInv, NEW c \in Keys, Type(c), IsEnd(typed, c)
    PROVE  /\ parser'.pBuf = <<>>
           /\ parser'.isPlusEscaped <=> parser.pBuf = <<>> /\ parser.isPlusEscaped
           /\ parser.pBuf = <<>> => handed' = handed
           /\ Pending(typed) # <<>> /\ Fits(Pending(typed)) /\ Clean(typed) =>
                 handed' = Append(handed, Meaning(typed, Pending(typed)))
  <1> DEFINE res == parseInput(parser, c, 0)
             f == [flushPbuf(res.parser) EXCEPT !.dataBufferFull = FALSE]
  <1>1. Open(parser) /\ typed \in Seq(Keys) /\ (parser.isEsc <=> Escaped(typed, Len(typed) + 1))
    BY EscKnown DEF LineInv, EscapeInv, PInv
  <1>2. res = EndLine(parser, 0)
    BY <1>1, ParseCases DEF IsEnd
  <1>3. /\ res.r = 0 => parser' = res.parser /\ handed' = handed
        /\ res.r # 0 => /\ parser' = f
                        /\ handed' = Append(handed, [kind |-> KindOf(res.r),
                                                     text |-> res.parser.pBuf])
    BY DEF Type
  <1>4. res.parser \in Shape
    BY <1>1, ParseRead DEF Read
  <1>5. f.pBuf = <<>> /\ f.isPlusEscaped = res.parser.isPlusEscaped
    BY <1>4 DEF flushPbuf, Shape
  <1> HIDE DEF res, f
  <1>6. /\ res.r = 0 <=> parser.pBuf = <<>>
        /\ res.r = 0 => res.parser = parser
        /\ res.r # 0 => ~res.parser.isPlusEscaped
    BY <1>1, <1>2, EndLineEmpties
  <1>7. ASSUME Pending(typed) # <<>>, Fits(Pending(typed)), Clean(typed)
        PROVE  handed' = Append(handed, Meaning(typed, Pending(typed)))
    <2>1. Holds(parser, typed) /\ Knows(parser, typed)
      BY <1>7 DEF LineInv
    <2>2. Pending(typed) \in Seq(1..Len(typed))
      BY <1>1, PendingType
    <2>3. /\ res.r # 0
          /\ [kind |-> KindOf(res.r), text |-> res.parser.pBuf] = Meaning(typed, Pending(typed))
      BY <1>1, <1>2, <1>7, <2>1, <2>2, EndLineMeans DEF Holds, Knows
    <2> QED BY <1>3, <2>3
  <1>8. CASE res.r = 0
    BY <1>3, <1>6, <1>7, <1>8
  <1>9. CASE res.r # 0
    BY <1>3, <1>5, <1>6, <1>7, <1>9
  <1> QED BY <1>8, <1>9

LEMMA LineStepEnd ==
    ASSUME LineInv, NEW c \in Keys, Type(c), IsEnd(typed, c)
    PROVE  /\ Holds(parser', typed')
           /\ Clean(typed') => Knows(parser', typed')
           /\ AllFit(typed') => handed' = Meant(typed')
  <1>1. typed \in Seq(Keys) /\ typed' = Append(typed, c)
    BY DEF LineInv, EscapeInv, Type
  <1>2. Pending(typed') = <<>>
    BY <1>1, PendingGrows
  <1>3. Holds(parser', typed')
    BY <1>2, TypeEnd, EmptyLine DEF Holds
  <1>4. Knows(parser', typed') <=> ~parser'.isPlusEscaped
    BY <1>2, EmptyLine DEF Knows
  <1>5. AllFit(typed') => /\ AllFit(typed) /\ Clean(typed) /\ Fits(Pending(typed))
                          /\ handed = Meant(typed)
    BY <1>1, AllFitGrows, AllFitClean DEF LineInv
  <1>6. CASE Pending(typed) = <<>>
    <2>1. Holds(parser, typed) /\ (Clean(typed) => Knows(parser, typed))
      BY <1>6, EmptyLine DEF LineInv
    <2>2. parser.pBuf = <<>> /\ (Clean(typed) => ~parser.isPlusEscaped)
      BY <1>6, <2>1, EmptyLine DEF Holds, Knows
    <2>3. (Clean(typed') <=> Clean(typed)) /\ Meant(typed') = Meant(typed)
      BY <1>1, <1>6, CleanGrows, MeantGrows
    <2> QED BY <1>3, <1>4, <1>5, <2>2, <2>3, TypeEnd
  <1>7. CASE Pending(typed) # <<>>
    <2>1. Fits(Pending(typed)) => parser.pBuf # <<>>
      <3>1. Pending(typed) \in Seq(1..Len(typed))
        BY <1>1, PendingType
      <3>2. Len(TextOf(typed, Pending(typed))) = Len(Pending(typed))
        BY <1>1, <3>1, MeaningLemma
      <3>3. Len(Pending(typed)) # 0 /\ Len(<<>>) = 0
        BY <1>7, <3>1
      <3> QED BY <3>2, <3>3 DEF LineInv, Holds
    <2>2. (Clean(typed') <=> Fits(Pending(typed)))
          /\ Meant(typed') = Append(Meant(typed), Meaning(typed, Pending(typed)))
      BY <1>1, <1>7, CleanGrows, MeantGrows
    <2>3. Clean(typed') => Knows(parser', typed')
      BY <1>4, <2>1, <2>2, TypeEnd
    <2>4. AllFit(typed') => handed' = Meant(typed')
      BY <1>5, <1>7, <2>2, TypeEnd
    <2> QED BY <1>3, <2>3, <2>4
  <1> QED BY <1>6, <1>7

LEMMA LineStepEscape ==
    ASSUME LineInv, NEW c \in Keys, Type(c), ~IsEnd(typed, c), IsEscape(typed, c)
    PROVE  /\ Fits(Pending(typed')) => Holds(parser', typed')
           /\ Fits(Pending(typed')) /\ Clean(typed') => Knows(parser', typed')
           /\ AllFit(typed') => handed' = Meant(typed')
  <1> DEFINE e == [parser EXCEPT !.isEsc = TRUE]
  <1>1. Open(parser) /\ typed \in Seq(Keys) /\ typed' = Append(typed, c)
        /\ (parser.isEsc <=> Escaped(typed, Len(typed) + 1))
    BY EscKnown DEF LineInv, EscapeInv, PInv, Type
  <1>2. parseInput(parser, c, 0) = Result(e, 0)
    BY <1>1, ParseCases DEF IsEnd, IsEscape
  <1>3. parser' = e /\ handed' = handed
    BY <1>2 DEF Type, Result
  <1>4. parser'.pBuf = parser.pBuf /\ parser'.isPlusEscaped = parser.isPlusEscaped
    BY <1>1, <1>3 DEF Open, Shape
  <1>5. /\ Pending(typed') = Pending(typed) /\ Meant(typed') = Meant(typed)
        /\ Clean(typed') <=> Clean(typed)
    BY <1>1, PendingGrows, CleanGrows, MeantGrows
  <1>6. TextOf(typed', Pending(typed)) = TextOf(typed, Pending(typed))
        /\ (PlusEscaped(typed', Pending(typed)) <=> PlusEscaped(typed, Pending(typed)))
    <2>1. Pending(typed) \in Seq(1..Len(typed))
      BY <1>1, PendingType
    <2> QED BY <1>1, <2>1, MeaningStays, PlusEscapedStays
  <1>7. AllFit(typed') => AllFit(typed)
    BY <1>1, AllFitGrows
  <1> QED BY <1>3, <1>4, <1>5, <1>6, <1>7 DEF LineInv, Holds, Knows

LEMMA LineStepChar ==
    ASSUME LineInv, NEW c \in Keys, Type(c), ~IsEnd(typed, c), ~IsEscape(typed, c)
    PROVE  /\ Fits(Pending(typed')) => Holds(parser', typed')
           /\ Fits(Pending(typed')) /\ Clean(typed') => Knows(parser', typed')
           /\ AllFit(typed') => handed' = Meant(typed')
  <1>1. Open(parser) /\ typed \in Seq(Keys) /\ typed' = Append(typed, c)
        /\ (parser.isEsc <=> Escaped(typed, Len(typed) + 1))
    BY EscKnown DEF LineInv, EscapeInv, PInv, Type
  <1>2. (Clean(typed') <=> Clean(typed)) /\ Meant(typed') = Meant(typed)
    BY <1>1, CleanGrows, MeantGrows
  <1>3. ASSUME Fits(Pending(typed'))
        PROVE  /\ Holds(parser', typed') /\ (Clean(typed') => Knows(parser', typed'))
               /\ handed' = handed
    <2>1. Fits(Pending(typed))
      <3>1. Pending(typed') = Append(Pending(typed), Len(typed) + 1)
        BY <1>1, PendingGrows
      <3>2. Pending(typed) \in Seq(1..Len(typed))
        BY <1>1, PendingType
      <3>3. Len(Pending(typed')) = Len(Pending(typed)) + 1 /\ Len(Pending(typed)) \in Nat
        BY <3>1, <3>2
      <3> QED BY <1>3, <3>3, PBSIZEAssumption DEF Fits
    <2>2. Holds(parser, typed) /\ (Clean(typed) => Knows(parser, typed))
      BY <2>1 DEF LineInv
    <2>3. /\ parseInput(parser, c, 0) = Result(AddChar(parser, c), 0)
          /\ Holds(AddChar(parser, c), typed')
          /\ Knows(parser, typed) => Knows(AddChar(parser, c), typed')
      BY <1>1, <1>3, <2>2, CharJoins
    <2>4. parser' = AddChar(parser, c) /\ handed' = handed
      BY <2>3 DEF Type, Result
    <2> QED BY <1>2, <2>2, <2>3, <2>4
  <1>4. ASSUME AllFit(typed') PROVE handed' = Meant(typed')
    <2>1. AllFit(typed) /\ Fits(Pending(typed'))
      BY <1>1, <1>4, AllFitGrows
    <2> QED BY <1>2, <1>3, <2>1 DEF LineInv
  <1> QED BY <1>3, <1>4

(* The second of two lines that fit is understood.                         *)
LEMMA ResyncStep ==
    ASSUME LineInv, NEW c \in Keys, Type(c)
    PROVE  Resynchronises'
  <1> DEFINE ends == FullEnds(typed')
             n == Len(typed)
  <1>1. typed \in Seq(Keys) /\ typed' = Append(typed, c) /\ n \in Nat /\ Len(typed') = n + 1
        /\ n + 1 \in 1..(n + 1)
    BY DEF LineInv, EscapeInv, Type
  <1>2. FullEnds(typed) \in Seq(1..n)
    BY <1>1, FullEndsType
  <1> SUFFICES ASSUME Len(ends) > 1, ends[Len(ends)] = n + 1,
                      Fits(Line(typed', ends[Len(ends)])),
                      Fits(Line(typed', ends[Len(ends) - 1]))
               PROVE  /\ handed' # <<>>
                      /\ Last(handed') = Meaning(typed', Line(typed', ends[Len(ends)]))
    BY <1>1 DEF Resynchronises
  <1>3. IsEnd(typed, c) /\ Pending(typed) # <<>> /\ ends = Append(FullEnds(typed), n + 1)
    <2>1. CASE ends = FullEnds(typed)
      <3>1. ends \in Seq(1..n) /\ Len(ends) \in 1..Len(ends)
        BY <1>2, <2>1
      <3>2. ends[Len(ends)] \in 1..n
        <4> HIDE DEF ends
        <4> QED BY <3>1
      <3> QED BY <1>1, <3>2
    <2> QED BY <1>1, <2>1, FullEndsGrow
  <1>4. /\ FullEnds(typed) # <<>> /\ ends[Len(ends) - 1] = Last(FullEnds(typed))
        /\ Last(FullEnds(typed)) \in 1..n
    <2> DEFINE old == FullEnds(typed)
    <2>1. Len(old) \in Nat /\ Len(ends) = Len(old) + 1 /\ Len(old) > 0
      <3> HIDE DEF ends, n
      <3> QED BY <1>2, <1>3
    <2>2. old # <<>> /\ ends[Len(old)] = old[Len(old)]
      <3> HIDE DEF ends, n, old
      <3> QED BY <1>2, <1>3, <2>1 DEF old
    <2> QED BY <1>2, <2>1, <2>2, LastIn DEF Last
  <1>5. Clean(typed) /\ Fits(Pending(typed)) /\ Line(typed', ends[Len(ends)]) = Pending(typed)
    <2>1. \A e \in 1..(n + 1) : Line(typed', e) = Line(typed, e)
      BY <1>1, LineStays
    <2>2. Last(FullEnds(typed)) \in 1..(n + 1)
      BY <1>1, <1>4
    <2>3. Line(typed', ends[Len(ends) - 1]) = Line(typed, Last(FullEnds(typed)))
      BY <1>4, <2>1, <2>2
    <2>4. Line(typed', ends[Len(ends)]) = Pending(typed)
      BY <1>1, <2>1 DEF Pending
    <2> HIDE DEF ends
    <2> QED BY <2>3, <2>4 DEF Clean
  <1>6. handed' = Append(handed, Meaning(typed, Pending(typed)))
    BY <1>3, <1>5, TypeEnd
  <1>7. Meaning(typed', Pending(typed)) = Meaning(typed, Pending(typed))
        /\ Meaning(typed, Pending(typed)) \in [kind : Kinds, text : Seq(Keys)]
    BY <1>1, PendingType, MeaningStays, MeaningLemma
  <1>8. handed \in Seq([kind : Kinds, text : Seq(Keys)])
    BY DEF LineInv, EscapeInv, PInv
  <1>9. handed' # <<>> /\ Last(handed') = Meaning(typed, Pending(typed))
    <2> DEFINE m == Meaning(typed, Pending(typed))
               R == [kind : Kinds, text : Seq(Keys)]
    <2>1. m \in R /\ handed \in Seq(R) /\ handed' = Append(handed, m)
      BY <1>6, <1>7, <1>8
    <2> HIDE DEF m, R
    <2>2. handed' # <<>> /\ Last(handed') = m
      BY <2>1 DEF Last
    <2> QED BY <2>2 DEF m
  <1> QED BY <1>5, <1>7, <1>9

LEMMA NothingTyped ==
    /\ Pending(<<>>) = <<>> /\ FullEnds(<<>>) = <<>> /\ Meant(<<>>) = <<>>
  <1>1. Len(<<>>) = 0 /\ (0 + 1) - 1 = 0 /\ DOMAIN <<>> = {}
    OBVIOUS
  <1>2. \A S : InSequence(0, S) = <<>>
    BY InSequenceSteps
  <1>3. Pending(<<>>) = <<>>
    BY <1>1, <1>2 DEF Pending, Line, Text
  <1>4. FullEnds(<<>>) = <<>>
    BY <1>1, <1>2 DEF FullEnds
  <1>5. Meant(<<>>) = <<>>
    BY <1>1, <1>4 DEF Meant
  <1> QED BY <1>3, <1>4, <1>5

LEMMA LineInvInit == Init => LineInv
  <1> SUFFICES ASSUME Init PROVE LineInv OBVIOUS
  <1>1. typed = <<>> /\ handed = <<>> /\ parser = BootParser
    BY DEF Init
  <1>2. parser.pBuf = <<>> /\ ~parser.isPlusEscaped
    BY <1>1 DEF BootParser
  <1>3. Holds(parser, typed) /\ Knows(parser, typed)
    BY <1>1, <1>2, NothingTyped, EmptyLine DEF Holds, Knows
  <1>4. handed = Meant(typed)
    BY <1>1, NothingTyped
  <1>5. Resynchronises
    <2>1. Len(FullEnds(typed)) = 0
      BY <1>1, NothingTyped
    <2> QED BY <2>1 DEF Resynchronises
  <1> QED BY <1>3, <1>4, <1>5, EscapeInvInit DEF LineInv

LEMMA LineInvStep ==
    ASSUME LineInv, [Next]_vars
    PROVE  LineInv'
  <1>1. EscapeInv'
    BY EscapeInvStep DEF LineInv
  <1>2. CASE UNCHANGED vars
    <2>1. parser' = parser /\ typed' = typed /\ handed' = handed
      BY <1>2 DEF vars
    <2>2. Resynchronises'
      BY <2>1 DEF LineInv, Resynchronises
    <2> QED BY <1>1, <2>1, <2>2 DEF LineInv
  <1>3. ASSUME NEW c \in Keys, Type(c) PROVE LineInv'
    <2>1. Resynchronises'
      BY <1>3, ResyncStep
    <2>2. CASE IsEnd(typed, c)
      BY <1>1, <1>3, <2>1, <2>2, LineStepEnd DEF LineInv
    <2>3. CASE ~IsEnd(typed, c) /\ IsEscape(typed, c)
      BY <1>1, <1>3, <2>1, <2>3, LineStepEscape DEF LineInv
    <2>4. CASE ~IsEnd(typed, c) /\ ~IsEscape(typed, c)
      BY <1>1, <1>3, <2>1, <2>4, LineStepChar DEF LineInv
    <2> QED BY <2>2, <2>3, <2>4
  <1> QED BY <1>2, <1>3 DEF Next

(* As long as every line is shorter than the buffer, execCmd and           *)
(* sendToInstrument get every line that was typed, in order, as the        *)
(* command or the data it was meant to be, with the escapes resolved.      *)
THEOREM LinesCorrect == Spec => []LinesAsTyped
  <1>1. LineInv => LinesAsTyped
    BY DEF LineInv, AllFit, LinesAsTyped
  <1> QED BY <1>1, LineInvInit, LineInvStep, PTL DEF Spec

(* Whatever was typed before, overlong lines too, the second of two lines  *)
(* that fit is understood.                                                 *)
THEOREM ResyncCorrect == Spec => []Resynchronises
  <1>1. LineInv => Resynchronises
    BY DEF LineInv
  <1> QED BY <1>1, LineInvInit, LineInvStep, PTL DEF Spec

-----------------------------------------------------------------------------
(* Data of any length.                                                     *)

NoPlus(q) == \A i \in DOMAIN q : q[i] # "PLUS"

(* As long as there is no plus, what was handed on and what waits are all  *)
(* that was typed.                                                         *)
Whole(p, h, s) ==
    Joined(h) \o p.pBuf = Joined(Meant(s)) \o TextOf(s, Pending(s))

PieceInv ==
    /\ EscapeInv
    /\ NoPlus(typed) => NoPlus(parser.pBuf) /\ Whole(parser, handed, typed)

LEMMA NoPlusData ==
    ASSUME NEW s \in Seq(Keys), NoPlus(s), NEW line \in Seq(1..Len(s))
    PROVE  Meaning(s, line) = [kind |-> "data", text |-> TextOf(s, line)]
  <1>1. ~Marked(s, line)
    <2>1. Len(line) > 2 => line[1] \in DOMAIN s
      OBVIOUS
    <2> QED BY <2>1 DEF Marked, NoPlus
  <1> QED BY <1>1, MeaningLemma

(* A step hands on the buffer with the character, if it is one of the      *)
(* text, or keeps it.                                                      *)
LEMMA TypePlain ==
    ASSUME EscapeInv, NEW c \in Keys, Type(c), c # "PLUS", NoPlus(parser.pBuf)
    PROVE  LET text == IF IsEnd(typed, c) \/ IsEscape(typed, c) THEN parser.pBuf
                       ELSE Append(parser.pBuf, c)
           IN  \/ parser'.pBuf = text /\ handed' = handed
               \/ /\ parser'.pBuf = <<>>
                  /\ handed' = Append(handed, [kind |-> "data", text |-> text])
  <1> DEFINE res == parseInput(parser, c, 0)
             f == [flushPbuf(res.parser) EXCEPT !.dataBufferFull = FALSE]
  <1>1. Open(parser) /\ (parser.isEsc <=> Escaped(typed, Len(typed) + 1))
    BY EscKnown DEF EscapeInv, PInv
  <1>2. /\ res.r = 0 => parser' = res.parser /\ handed' = handed
        /\ res.r # 0 => /\ parser' = f
                        /\ handed' = Append(handed, [kind |-> KindOf(res.r),
                                                     text |-> res.parser.pBuf])
    BY DEF Type
  <1>3. KindOf(2) = "data"
    BY DEF KindOf
  <1>4. f.pBuf = <<>>
    <2>1. res.parser \in Shape
      BY <1>1, ParseRead DEF Read
    <2> HIDE DEF res
    <2> QED BY <2>1 DEF flushPbuf, Shape
  <1> HIDE DEF f
  <1>5. \A q, r : Result(q, r).parser = q /\ Result(q, r).r = r
    BY DEF Result
  <1>6. CASE IsEnd(typed, c)
    <2>1. res = EndLine(parser, 0)
      BY <1>1, <1>6, ParseCases DEF IsEnd
    <2>2. ~isCommandLine(parser)
      <3>1. parser.pBuf \in Seq(Keys)
        BY <1>1 DEF Open, Shape
      <3> QED BY <3>1 DEF isCommandLine, isCmd, NoPlus
    <2> HIDE DEF res
    <2>3. \/ res.r = 0 /\ res.parser = parser
          \/ res.r = 2 /\ res.parser.pBuf = parser.pBuf
      BY <1>1, <2>1, <2>2, EndLineEmpties
    <2> QED BY <1>2, <1>3, <1>4, <1>6, <2>3
  <1>7. CASE ~IsEnd(typed, c) /\ IsEscape(typed, c)
    <2> DEFINE e == [parser EXCEPT !.isEsc = TRUE]
    <2>1. res = Result(e, 0)
      BY <1>1, <1>7, ParseCases DEF IsEnd, IsEscape
    <2>2. e.pBuf = parser.pBuf
      BY <1>1 DEF Open, Shape
    <2> HIDE DEF res, e
    <2> QED BY <1>2, <1>5, <1>7, <2>1, <2>2
  <1>8. CASE ~IsEnd(typed, c) /\ ~IsEscape(typed, c)
    <2> DEFINE a == AddChar(parser, c)
               full == [a EXCEPT !.dataBufferFull = TRUE]
    <2>1. res = WhenFull(Result(a, 0))
      BY <1>1, <1>8, ParseCases DEF IsEnd, IsEscape
    <2>2. a.pBuf = Append(parser.pBuf, c) /\ a \in Shape
      BY <1>1, AddCharFields, AddCharRead
    <2>3. ~isCmd(a.pBuf)
      <3>1. parser.pBuf \in Seq(Keys)
        BY <1>1 DEF Open, Shape
      <3>2. Append(parser.pBuf, c)[1] = IF Len(parser.pBuf) = 0 THEN c ELSE parser.pBuf[1]
        BY <3>1
      <3>3. Append(parser.pBuf, c)[1] # "PLUS"
        BY <3>1, <3>2 DEF NoPlus
      <3> QED BY <2>2, <3>3 DEF isCmd
    <2> HIDE DEF a, res
    <2>4. full.pBuf = a.pBuf
      BY <2>2 DEF Shape
    <2> HIDE DEF full
    <2>5. res \in {Result(a, 0), Result(full, 2)}
      BY <1>5, <2>1, <2>3 DEF WhenFull, full
    <2>6. \/ res.r = 0 /\ res.parser.pBuf = Append(parser.pBuf, c)
          \/ res.r = 2 /\ res.parser.pBuf = Append(parser.pBuf, c)
      BY <1>5, <2>2, <2>4, <2>5
    <2>7. \/ parser'.pBuf = Append(parser.pBuf, c) /\ handed' = handed
          \/ /\ parser'.pBuf = <<>>
             /\ handed' = Append(handed, [kind |-> "data", text |-> Append(parser.pBuf, c)])
      BY <1>2, <1>3, <1>4, <2>6
    <2> QED BY <1>8, <2>7
  <1> QED BY <1>6, <1>7, <1>8

LEMMA PieceStep ==
    ASSUME PieceInv, EscapeInv', NEW c \in Keys, Type(c), NoPlus(typed')
    PROVE  NoPlus(parser'.pBuf) /\ Whole(parser', handed', typed')
  <1> DEFINE s == typed
             R == [kind : Kinds, text : Seq(Keys)]
             b == parser.pBuf
             J == Joined(handed)
             M == Joined(Meant(s))
             T == TextOf(s, Pending(s))
             added == IsEnd(s, c) \/ IsEscape(s, c)
             text == IF added THEN b ELSE Append(b, c)
  <1>1. /\ s \in Seq(Keys) /\ typed' = Append(s, c) /\ handed \in Seq(R)
        /\ b \in Seq(Keys)
    BY DEF PieceInv, EscapeInv, PInv, Open, Shape, Type
  <1>2. NoPlus(s) /\ c # "PLUS"
    <2>1. /\ Len(s) \in Nat /\ DOMAIN s = 1..Len(s) /\ DOMAIN typed' = 1..(Len(s) + 1)
          /\ typed'[Len(s) + 1] = c /\ \A i \in 1..Len(s) : typed'[i] = s[i]
      BY <1>1
    <2> QED BY <2>1 DEF NoPlus
  <1>3. NoPlus(b) /\ J \o b = M \o T
    BY <1>2 DEF PieceInv, Whole
  <1>4. \/ parser'.pBuf = text /\ handed' = handed
        \/ parser'.pBuf = <<>> /\ handed' = Append(handed, [kind |-> "data", text |-> text])
    BY <1>2, <1>3, TypePlain DEF PieceInv
  <1>5. Pending(s) \in Seq(1..Len(s)) /\ T \in Seq(Keys) /\ Meant(s) \in Seq(R)
    BY <1>1, PendingType, MeaningLemma, MeantGrows
  <1>6. J \in Seq(Keys) /\ M \in Seq(Keys)
    BY <1>1, <1>5, JoinedSteps
  <1>7. text \in Seq(Keys) /\ NoPlus(text) /\ NoPlus(<<>>)
    <2>1. NoPlus(<<>>)
      BY DEF NoPlus
    <2>2. NoPlus(Append(b, c)) /\ Append(b, c) \in Seq(Keys)
      BY <1>1, <1>2, <1>3 DEF NoPlus
    <2> QED BY <1>1, <1>3, <2>1, <2>2
  <1>8. Joined(handed') \o parser'.pBuf = J \o text
    <2>1. CASE parser'.pBuf = text /\ handed' = handed
      BY <2>1
    <2>2. CASE parser'.pBuf = <<>> /\ handed' = Append(handed, [kind |-> "data", text |-> text])
      <3>1. [kind |-> "data", text |-> text] \in R
        BY <1>7 DEF Kinds
      <3>2. Joined(handed') = J \o text
        <4> DEFINE line == [kind |-> "data", text |-> text]
        <4>1. line.text = text
          OBVIOUS
        <4> HIDE DEF line, text
        <4>2. Joined(Append(handed, line)) = J \o line.text
          BY <1>1, <3>1, JoinedSteps DEF line
        <4> QED BY <2>2, <4>1, <4>2 DEF line
      <3> HIDE DEF text, J
      <3>3. J \o text \in Seq(Keys)
        BY <1>6, <1>7
      <3> QED BY <2>2, <3>2, <3>3
    <2> QED BY <1>4, <2>1, <2>2
  <1>9. Joined(Meant(typed')) \o TextOf(typed', Pending(typed')) =
          IF added THEN M \o T ELSE Append(M \o T, c)
    <2> HIDE DEF M, T, R
    <2>1. CASE IsEnd(s, c)
      <3>1. Pending(typed') = <<>> /\ TextOf(typed', <<>>) = <<>>
        BY <1>1, <2>1, PendingGrows, EmptyLine
      <3>2. CASE Pending(s) = <<>>
        <4>1. Meant(typed') = Meant(s) /\ T = <<>>
          BY <1>1, <3>2, MeantGrows, EmptyLine DEF T
        <4> QED BY <2>1, <3>1, <4>1 DEF M
      <3>3. CASE Pending(s) # <<>>
        <4> DEFINE line == [kind |-> "data", text |-> T]
        <4>1. Meant(typed') = Append(Meant(s), line)
          BY <1>1, <1>2, <1>5, <2>1, <3>3, MeantGrows, NoPlusData DEF T
        <4>2. line \in R /\ line.text = T
          BY <1>5 DEF R, Kinds
        <4> HIDE DEF line
        <4>3. Joined(Append(Meant(s), line)) = M \o T
          BY <1>5, <4>2, JoinedSteps DEF M, R
        <4>4. M \o T \in Seq(Keys) /\ (M \o T) \o <<>> = M \o T
          BY <1>5, <1>6
        <4> QED BY <2>1, <3>1, <4>1, <4>3, <4>4
      <3> QED BY <3>2, <3>3
    <2>2. CASE ~IsEnd(s, c)
      <3>1. Meant(typed') = Meant(s)
        BY <1>1, <2>2, MeantGrows
      <3>2. CASE IsEscape(s, c)
        <4>1. TextOf(typed', Pending(typed')) = T
          BY <1>1, <1>5, <2>2, <3>2, PendingGrows, MeaningStays DEF T
        <4> QED BY <3>1, <3>2, <4>1 DEF M
      <3>3. CASE ~IsEscape(s, c)
        <4>1. TextOf(typed', Pending(typed')) = Append(T, c)
          BY <1>1, <2>2, <3>3, PendingGrows, TextGrows DEF T
        <4>2. M \o Append(T, c) = Append(M \o T, c)
          BY <1>5, <1>6
        <4> QED BY <2>2, <3>1, <3>3, <4>1, <4>2 DEF M
      <3> QED BY <3>2, <3>3
    <2> QED BY <2>1, <2>2
  <1>10. J \o text = IF added THEN J \o b ELSE Append(J \o b, c)
    <2> HIDE DEF J, b
    <2>1. J \o Append(b, c) = Append(J \o b, c)
      BY <1>1, <1>6
    <2> QED BY <2>1
  <1>11. Whole(parser', handed', typed')
    <2> HIDE DEF J, M, T, b, text, added
    <2> QED BY <1>3, <1>8, <1>9, <1>10 DEF Whole
  <1> QED BY <1>4, <1>7, <1>11

LEMMA PieceInvInit == Init => PieceInv
  <1> SUFFICES ASSUME Init PROVE PieceInv OBVIOUS
  <1>1. typed = <<>> /\ handed = <<>> /\ parser.pBuf = <<>>
    BY DEF Init, BootParser
  <1>2. NoPlus(<<>>)
    BY DEF NoPlus
  <1>3. Meant(typed) = handed /\ TextOf(typed, Pending(typed)) = parser.pBuf
    BY <1>1, NothingTyped, EmptyLine
  <1> QED BY <1>1, <1>2, <1>3, EscapeInvInit DEF PieceInv, Whole

LEMMA PieceInvStep ==
    ASSUME PieceInv, [Next]_vars
    PROVE  PieceInv'
  <1>1. EscapeInv'
    BY EscapeInvStep DEF PieceInv
  <1>2. CASE UNCHANGED vars
    <2>1. parser' = parser /\ typed' = typed /\ handed' = handed
      BY <1>2 DEF vars
    <2> QED BY <1>1, <2>1 DEF PieceInv
  <1>3. CASE Next
    BY <1>1, <1>3, PieceStep DEF Next, PieceInv
  <1> QED BY <1>2, <1>3

(* Data without a plus is sent whole and in order, however long its lines  *)
(* are and wherever a full buffer cuts them.                               *)
THEOREM PiecesCorrect == Spec => []DataInPieces
  <1>1. PieceInv => DataInPieces
    <2> SUFFICES ASSUME PieceInv, NoPlus(typed)
                 PROVE  Joined(handed) \o parser.pBuf =
                          Joined(Meant(typed)) \o Meaning(typed, Pending(typed)).text
      BY DEF DataInPieces, NoPlus
    <2>1. typed \in Seq(Keys) /\ Whole(parser, handed, typed)
      BY DEF PieceInv, EscapeInv
    <2>2. Meaning(typed, Pending(typed)) = [kind |-> "data", text |-> TextOf(typed, Pending(typed))]
      BY <2>1, PendingType, NoPlusData
    <2> QED BY <2>1, <2>2 DEF Whole
  <1> QED BY <1>1, PieceInvInit, PieceInvStep, PTL DEF Spec
=============================================================================
