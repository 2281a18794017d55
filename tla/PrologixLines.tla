---------------------------- MODULE PrologixLines ----------------------------
(***************************************************************************)
(* What the parser makes of a client's characters, against what the client *)
(* meant by them: a reference definition over the whole of what was typed. *)
(*                                                                         *)
(* The main loop hands on a line before it parses the next character       *)
(* (execCmd and sendToInstrument flush the buffer), so a step is one       *)
(* character and what the loop does with the line it completes.            *)
(***************************************************************************)
EXTENDS PrologixParser, FiniteSetsExt

CONSTANTS
    Keys,     \* the characters clients type
    MaxTyped  \* how many

ASSUME KeysAssumption == Keys \subseteq Chars
ASSUME MaxTypedAssumption == MaxTyped \in Nat

VARIABLES
    parser,
    typed,   \* history: every character so far
    handed   \* history: what the loop has executed or sent

vars == <<parser, typed, handed>>

Kinds == {"command", "data", "break"}
KindOf(r) == CASE r = 1 -> "command" [] r = 2 -> "data" [] r = 3 -> "break"

Init == parser = BootParser /\ typed = <<>> /\ handed = <<>>

(* "++!" has no text left: parseInput flushes the buffer itself.           *)
Type(c) ==
    /\ Len(typed) < MaxTyped
    /\ typed' = Append(typed, c)
    /\ LET res == parseInput(parser, c, 0) IN
       IF res.r = 0
       THEN parser' = res.parser /\ handed' = handed
       ELSE /\ parser' = [flushPbuf(res.parser) EXCEPT !.dataBufferFull = FALSE]
            /\ handed' = Append(handed, [kind |-> KindOf(res.r), text |-> res.parser.pBuf])

Next == \E c \in Keys : Type(c)
Spec == Init /\ [][Next]_vars

-----------------------------------------------------------------------------
(* The reference.  A character is escaped when an odd number of ESC stands *)
(* directly before it; an ESC that is not escaped is not part of the text. *)

Escaped(s, i) ==
    LET run == {k \in 0..(i - 1) : \A j \in (i - k)..(i - 1) : s[j] = "ESC"}
    IN  Max(run) % 2 = 1

Ends(s) == {i \in DOMAIN s : s[i] \in LineEnds /\ ~Escaped(s, i)}

(* The positions up to n that are in S, in order.                          *)
InSequence(n, S) ==
    LET upto[k \in Nat] == IF k = 0 THEN <<>>
                           ELSE IF k \in S THEN Append(upto[k - 1], k) ELSE upto[k - 1]
    IN  upto[n]

(* The positions of the text between two line ends, in order.              *)
Text(s, from, to) ==
    InSequence(to, {i \in from..to : s[i] # "ESC" \/ Escaped(s, i)})

(* The line that ends at e, and what was typed since the last one.         *)
Start(s, e) == Max({k \in Ends(s) : k < e} \cup {0}) + 1
Line(s, e) == Text(s, Start(s, e), e - 1)
Pending(s) == Line(s, Len(s) + 1)

Meaning(s, line) ==
    LET text == [k \in DOMAIN line |-> s[line[k]]]
        marked == /\ Len(line) > 2
                  /\ \A k \in 1..2 : text[k] = "PLUS" /\ ~Escaped(s, line[k])
    IN  IF ~marked THEN [kind |-> "data", text |-> text]
        ELSE IF text[3] = "BANG" THEN [kind |-> "break", text |-> <<>>]
        ELSE [kind |-> "command", text |-> text]

(* The ends of the lines that are not blank.                               *)
FullEnds(s) == InSequence(Len(s), {e \in Ends(s) : Line(s, e) # <<>>})
Meant(s) == LET ends == FullEnds(s)
            IN  [k \in DOMAIN ends |-> Meaning(s, Line(s, ends[k]))]

Fits(line) == Len(line) < PBSIZE

(* The texts of some lines, one after the other.                           *)
Joined(lines) ==
    LET upto[k \in 0..Len(lines)] ==
            IF k = 0 THEN <<>> ELSE upto[k - 1] \o lines[k].text
    IN  upto[Len(lines)]

-----------------------------------------------------------------------------
(* Properties.                                                             *)

(* The buffer never runs over, and between two characters it has room for  *)
(* the next; no line is left marked as incomplete.                         *)
TypeOK ==
    /\ parser \in [pBuf : UNION {[1..n -> Keys] : n \in 0..(PBSIZE - 1)},
                   isEsc : BOOLEAN, isPlusEscaped : BOOLEAN,
                   dataBufferFull : {FALSE}, sendIdn : {FALSE}]
    /\ \A k \in DOMAIN handed :
          handed[k].kind \in Kinds /\ Len(handed[k].text) <= PBSIZE

(* As long as every line is shorter than the buffer, what is executed and  *)
(* sent is what was typed: every line, in order, as the command or the     *)
(* data it was meant to be, with the escapes resolved.                     *)
LinesAsTyped ==
    (\A e \in Ends(typed) \cup {Len(typed) + 1} : Fits(Line(typed, e)))
        => handed = Meant(typed)

(* Whatever came before, overlong lines too: once two lines in a row fit,  *)
(* the second of them is understood.                                       *)
Resynchronises ==
    LET ends == FullEnds(typed)
        n == Len(ends)
        fits == Fits(Line(typed, ends[n])) /\ Fits(Line(typed, ends[n - 1]))
    IN  n > 1 /\ ends[n] = Len(typed) /\ fits
          => handed # <<>> /\ Last(handed) = Meaning(typed, Line(typed, ends[n]))

(* A client that escapes every plus has none of its data executed as a     *)
(* command, wherever a full buffer cuts its lines.                         *)
EscapedStaysData ==
    (\A i \in DOMAIN typed : typed[i] = "PLUS" => Escaped(typed, i))
        => \A k \in DOMAIN handed : handed[k].kind = "data"

(* Data of any length is sent whole and in order, in pieces if it must be, *)
(* as long as no line looks like a command.                                *)
DataInPieces ==
    (\A i \in DOMAIN typed : typed[i] # "PLUS")
        => Joined(handed) \o parser.pBuf =
               Joined(Meant(typed)) \o Meaning(typed, Pending(typed)).text
=============================================================================
