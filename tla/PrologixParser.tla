--------------------------- MODULE PrologixParser ---------------------------
(***************************************************************************)
(* The input of the Prologix server (prologix_server.cpp): parseInput puts *)
(* one character into the parse buffer and says whether a line is ready,   *)
(* serialIn_h feeds it what has arrived until one is.                      *)
(*                                                                         *)
(* A character stands for itself, a word ("addr 2", "*idn?") where the     *)
(* code only ever looks at all of it.  Echo (verbose mode) is left out.    *)
(***************************************************************************)
EXTENDS Integers, SequencesExt

CONSTANTS
    PBSIZE,  \* the size of pBuf, 128 in the code
    Others   \* characters parseInput has no case for

LineEnds == {"CR", "LF"}
Cases == LineEnds \cup {"ESC", "PLUS"}
Chars == Cases \cup Others

ASSUME PBSIZEAssumption == PBSIZE \in Nat /\ PBSIZE > 2
ASSUME OthersAssumption == Others \cap Cases = {}

(* The parser's globals; pbPtr is the length of pBuf.                      *)
Parsers == [pBuf : Seq(Chars), isEsc : BOOLEAN, isPlusEscaped : BOOLEAN,
            dataBufferFull : BOOLEAN, sendIdn : BOOLEAN]

BootParser == [pBuf |-> <<>>, isEsc |-> FALSE, isPlusEscaped |-> FALSE,
               dataBufferFull |-> FALSE, sendIdn |-> FALSE]

(* What parseInput returns: 0 nothing yet, 1 a ++ command, 2 data for the  *)
(* instrument, 3 "++!".                                                    *)
Result(p, r) == [parser |-> p, r |-> r]

addPbuf(p, c) == [p EXCEPT !.pBuf = Append(@, c)]
flushPbuf(p) == [p EXCEPT !.pBuf = <<>>]
isCmd(buf) == Len(buf) > 1 /\ buf[1] = "PLUS" /\ buf[2] = "PLUS"
isIdnQuery(buf) == Len(buf) > 0 /\ buf[1] = "*idn?"
isCommandLine(p) == Len(p.pBuf) > 2 /\ isCmd(p.pBuf) /\ ~p.isPlusEscaped

(* A variant of EndLine that does not forget an escaped plus.              *)
EndLineSticky(p, idn) ==
    IF p.pBuf = <<>> THEN Result(p, 0)
    ELSE Result(p, IF isCommandLine(p) THEN 1 ELSE 2)

(* A line end that is not escaped; idn is cfg.idn.  A blank line leaves    *)
(* everything as it is.                                                    *)
EndLine(p, idn) ==
    LET q == [p EXCEPT !.isPlusEscaped = FALSE] IN
    IF p.pBuf = <<>> THEN Result(p, 0)
    ELSE IF isCommandLine(p)
         THEN IF p.pBuf[3] = "BANG" THEN Result(flushPbuf(q), 3) ELSE Result(q, 1)
    ELSE IF idn > 0 /\ isIdnQuery(p.pBuf)
         THEN Result([flushPbuf(q) EXCEPT !.sendIdn = TRUE], 0)
    ELSE Result(q, 2)

(* A variant that forgets that the ++ was escaped.                         *)
AddCharPlain(p, c) == addPbuf([p EXCEPT !.isEsc = FALSE], c)

(* Any other character; an escaped plus among the first two is remembered. *)
AddChar(p, c) ==
    addPbuf([p EXCEPT !.isEsc = FALSE,
                      !.isPlusEscaped = @ \/ (c = "PLUS" /\ p.isEsc /\ Len(p.pBuf) < 2)], c)

(* Variants: a full buffer is dropped; an overlong command stays.          *)
WhenFullDropping(res) ==
    IF Len(res.parser.pBuf) < PBSIZE THEN res ELSE Result(flushPbuf(res.parser), 0)
WhenFullKeeping(res) ==
    IF Len(res.parser.pBuf) < PBSIZE \/ (isCmd(res.parser.pBuf) /\ res.r = 0) THEN res
    ELSE Result([res.parser EXCEPT !.dataBufferFull = TRUE], 2)

(* A full buffer: a command is dropped, data goes out as it is.            *)
WhenFull(res) ==
    IF Len(res.parser.pBuf) < PBSIZE THEN res
    ELSE IF isCmd(res.parser.pBuf) /\ res.r = 0 THEN Result(flushPbuf(res.parser), 0)
    ELSE Result([res.parser EXCEPT !.dataBufferFull = TRUE], 2)

parseInput(p, c, idn) ==
    WhenFull(IF Len(p.pBuf) >= PBSIZE THEN Result(p, 0)
             ELSE IF c \in LineEnds /\ ~p.isEsc THEN EndLine(p, idn)
             ELSE IF c = "ESC" /\ ~p.isEsc THEN Result([p EXCEPT !.isEsc = TRUE], 0)
             ELSE Result(AddChar(p, c), 0))

(* parseInput until a line is ready or nothing is left of the input: what  *)
(* there is after k characters, of which so many were read.                *)
serialIn_h(p, input, idn) ==
    LET after[k \in 0..Len(input)] ==
            IF k = 0 THEN [parser |-> p, r |-> 0, read |-> 0]
            ELSE LET s == after[k - 1]
                     res == parseInput(s.parser, input[k], idn)
                 IN  IF s.r # 0 THEN s
                     ELSE [parser |-> res.parser, r |-> res.r, read |-> k]
        last == after[Len(input)]
    IN  [parser |-> last.parser, r |-> last.r,
         rest |-> SubSeq(input, last.read + 1, Len(input))]
=============================================================================
