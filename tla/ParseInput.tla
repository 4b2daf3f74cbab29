----------------------------- MODULE ParseInput -----------------------------
(***************************************************************************)
(* The scanner of parse/parse.go: an input buffer that is filled from a    *)
(* reader in pieces, a stack of saved positions, and the matching of a     *)
(* format against the input.  An operator on inputs takes an input and     *)
(* returns what the function of the same name in the code leaves behind:   *)
(* [in, ok, val, panic].  A character is a one-letter string; the decoding *)
(* of UTF-8 is left out.                                                   *)
(***************************************************************************)
EXTENDS Integers, Sequences, FiniteSets

CONSTANTS
  Texts,    \* bound: what the reader delivers, as sequences of characters
  Formats,  \* bound: the formats given to Parse, each a sequence of items
  Word,     \* values of a uint64
  IntLimit, \* values of the integer type that is parsed (Word for 64 bits)
  MaxCalls  \* bound: calls of Parse

\* Assumed where the module is instantiated
LimitAssumption == Word \in Nat \ {0} /\ IntLimit \in 2..Word /\ MaxCalls \in Nat

EOF == "end"

Digit == [c \in {"0", "1", "2", "3", "4", "5", "6", "7", "8", "9", "a", "b", "c", "d", "e", "f"} |->
            CASE c = "0" -> 0 [] c = "1" -> 1 [] c = "2" -> 2 [] c = "3" -> 3 [] c = "4" -> 4
              [] c = "5" -> 5 [] c = "6" -> 6 [] c = "7" -> 7 [] c = "8" -> 8 [] c = "9" -> 9
              [] c = "a" -> 10 [] c = "b" -> 11 [] c = "c" -> 12 [] c = "d" -> 13
              [] c = "e" -> 14 [] c = "f" -> 15]
Letters == {"a", "b", "c", "d", "e", "f", "o", "t", "x"}
isSpace(c) == c \in {" ", "\n"}
isLetter(c) == c \in Letters
digitOf(c, base) == IF c \in DOMAIN Digit THEN Digit[c] ELSE base

\* What a call leaves behind
Done(in, val) == [in |-> in, ok |-> TRUE, val |-> val, panic |-> FALSE]
Fail(in) == [in |-> in, ok |-> FALSE, val |-> 0, panic |-> FALSE]
Panic(in) == [in |-> in, ok |-> FALSE, val |-> 0, panic |-> TRUE]

\* After what leads to x, what comes next
Then(x, Rest(_)) == Rest(x)

-----------------------------------------------------------------------------
(* The buffer.  in.rest is what the reader still holds, one element for     *)
(* each Read; in.base (history) counts the characters truncate dropped.     *)

Reader(chunks) == [rest |-> chunks, buf |-> <<>>, index |-> 0, saves |-> <<>>,
                   sawEnd |-> FALSE, base |-> 0]

Position(in) == in.base + in.index

Save(in) == [in EXCEPT !.saves = Append(@, in.index)]

restore(in, advance) ==
  LET n == Len(in.saves)
  IN [in EXCEPT !.index = IF advance THEN @ ELSE in.saves[n],
                !.saves = SubSeq(@, 1, n - 1)]

truncate(in) == [in EXCEPT !.base = @ + in.index, !.index = 0,
                           !.buf = SubSeq(@, in.index + 1, Len(@))]

\* At the end Read returns nothing and io.EOF
read(in) ==
  Then(IF in.saves = <<>> THEN truncate(in) ELSE in, LAMBDA kept :
    IF in.rest = <<>> THEN [kept EXCEPT !.sawEnd = TRUE]
    ELSE [kept EXCEPT !.buf = @ \o Head(in.rest), !.rest = Tail(@)])

\* The loop of end and doRead: read until n more characters are there
RECURSIVE Fill(_, _)
Fill(in, n) == IF in.index + n <= Len(in.buf) \/ in.sawEnd THEN in ELSE Fill(read(in), n)

EndNoSkip(in) == in.index >= Len(in.buf)   \* of an input that is filled

\* The next character, EOF if there is none; in is filled
Peek(in) == IF EndNoSkip(in) THEN EOF ELSE in.buf[in.index + 1]
Step(in) == [in EXCEPT !.index = @ + 1]

\* ReadRune: at the end of the input it panics
ReadRune(in) ==
  Then(Fill(in, 1), LAMBDA f : IF EndNoSkip(f) THEN Panic(f) ELSE Done(Step(f), Peek(f)))

RECURSIVE skipSpace(_)
skipSpace(in) ==
  Then(Fill(in, 1), LAMBDA f : IF isSpace(Peek(f)) THEN skipSpace(Step(f)) ELSE f)

\* The characters up to the first that is in Stop or the end
RECURSIVE TakeUntil(_, _, _)
TakeUntil(in, Stop(_), taken) ==
  Then(Fill(in, 1), LAMBDA f :
    IF EndNoSkip(f) \/ Stop(Peek(f)) THEN [in |-> f, taken |-> taken]
    ELSE TakeUntil(Step(f), Stop, Append(taken, Peek(f))))

\* TokenF and Token: it fails, and goes back, at the end of the input
Token(in) ==
  Then(TakeUntil(skipSpace(Save(in)), isSpace, <<>>), LAMBDA t :
    [Done(restore(t.in, t.taken # <<>>), t.taken) EXCEPT !.ok = t.taken # <<>>])

AtOneof(in, S) ==
  Then(ReadRune(in), LAMBDA r : IF r.panic \/ r.val \in S THEN r ELSE Done(Fill(in, 1), EOF))

\* At(c): tryRead leaves the input alone at its end
At(in, c) == Then(Fill(in, 1), LAMBDA f : IF Peek(f) = c THEN Done(Step(f), c) ELSE Fail(f))

-----------------------------------------------------------------------------
(* Numbers *)

\* The digits from in on: x is their value as a uint64.  A sum that wraps is
\* noticed only if it is less than before.
RECURSIVE Digits(_, _, _, _)
Digits(in, base, x, n) ==
  Then(Fill(in, 1), LAMBDA f :
  Then(IF Peek(f) = EOF THEN base ELSE digitOf(Peek(f), base), LAMBDA d :
  Then((base * x + d) % Word, LAMBDA y :
    IF d >= base THEN [in |-> f, x |-> x, n |-> n, panic |-> FALSE]
    ELSE IF y < x THEN [in |-> Step(f), x |-> x, n |-> n, panic |-> TRUE]
    ELSE Digits(Step(f), base, y, n + 1))))

\* The range check at the end of parseInt; x is negated already
InRange(x, negate, signed) ==
  IF signed THEN IF negate THEN x <= IntLimit \div 2 ELSE x < IntLimit \div 2
  ELSE IntLimit < Word => x < IntLimit

\* A panic before restore leaves its saved position behind
parseInt(in, base, signed) ==
  Then(IF signed THEN AtOneof(Save(in), {"+", "-"}) ELSE Done(Save(in), EOF), LAMBDA sign :
    IF sign.panic THEN sign
    ELSE Then(Digits(sign.in, base, 0, 0), LAMBDA d :
         Then(IF sign.val = "-" THEN (Word - d.x) % Word ELSE d.x, LAMBDA x :
           IF d.panic THEN Panic(d.in)
           ELSE Then(restore(d.in, d.n > 0), LAMBDA r :
                  CASE ~InRange(x, sign.val = "-", signed) -> Panic(r)
                    [] InRange(x, sign.val = "-", signed) /\ d.n = 0 -> Fail(r)
                    [] OTHER -> Done(r, x)))))

\* doInt: the base follows from the verb, and for v from the input
doInt(in, verb, signed) ==
  Then(CASE verb = "d" -> [in |-> in, base |-> 10]
         [] verb = "b" -> [in |-> in, base |-> 2]
         [] verb = "x" -> [in |-> in, base |-> 16]
         [] verb = "v" -> Then(At(in, "0"), LAMBDA zero :
                            IF ~zero.ok THEN [in |-> zero.in, base |-> 10]
                            ELSE Then(At(zero.in, "x"), LAMBDA hex :
                                   [in |-> hex.in, base |-> IF hex.ok THEN 16 ELSE 8])), LAMBDA v :
  Then(parseInt(v.in, v.base, signed), LAMBDA i : IF i.ok THEN i ELSE Panic(i.in)))

doBool(in) ==
  Then(AtOneof(skipSpace(in), {"0", "1", "f", "t"}), LAMBDA b :
    IF b.panic \/ b.val = EOF THEN Panic(b.in) ELSE Done(b.in, b.val \in {"1", "t"}))

\* The loop of ParseFloat.  Part 0 is the number and part 1 its exponent; a sign
\* counts wherever it stands in its part.
RECURSIVE FloatLoop(_, _)
FloatLoop(in, st) ==
  LET f == Fill(in, 1)
      c == Peek(f)
      i == st.part
      y == (10 * st.n[i] + digitOf(c, 0)) % Word
      go(s) == FloatLoop(Step(f), s)
      stop == [in |-> f, st |-> st, panic |-> FALSE]
  IN IF EndNoSkip(f) THEN stop
     ELSE IF digitOf(c, 10) < 10
          THEN IF y < st.n[i] THEN [stop EXCEPT !.in = Step(f), !.panic = TRUE]
               ELSE go([st EXCEPT !.n[i] = y, !.digits[i] = @ + 1])
     ELSE IF c = "." /\ ~st.point /\ i = 0
          THEN go([st EXCEPT !.point = TRUE, !.before = st.digits[0]])
     ELSE IF c = "e" /\ i = 0 THEN go([st EXCEPT !.part = 1])
     ELSE IF c \in {"+", "-"} /\ st.sign[i] = EOF THEN go([st EXCEPT !.sign[i] = c])
     ELSE stop

\* ParseFloat and doFloat; the value is fraction and decimal exponent
doFloat(in) ==
  Then(FloatLoop(Save(in), [part |-> 0, n |-> [i \in 0..1 |-> 0], digits |-> [i \in 0..1 |-> 0],
                            sign |-> [i \in 0..1 |-> EOF], point |-> FALSE, before |-> 0]), LAMBDA t :
    LET signed(i) == IF t.st.sign[i] = "-" THEN -t.st.n[i] ELSE t.st.n[i]
        after == IF t.st.point THEN t.st.digits[0] - t.st.before ELSE 0
    IN IF t.panic THEN Panic(t.in)
       ELSE IF t.st.digits[0] = 0 THEN Panic(restore(t.in, FALSE))
       ELSE Done(restore(t.in, TRUE), <<signed(0), signed(1) - after>>))

-----------------------------------------------------------------------------
(* Strings *)

\* The loop of parseString.  st: what was added, the open braces, and how the
\* string is delimited.
RECURSIVE StringLoop(_, _, _)
StringLoop(in, delimiter, st) ==
  LET f == Fill(in, 1)
      c == Peek(f)
      add(s) == StringLoop(Step(f), delimiter, [s EXCEPT !.val = Append(@, c)])
  IN IF EndNoSkip(f) THEN [in |-> f, st |-> st]
     ELSE IF st.backslash THEN add([st EXCEPT !.backslash = FALSE])
     ELSE IF isSpace(c)
          THEN IF ~(st.braced \/ st.line) \/ (st.line /\ c = "\n")
               THEN [in |-> f, st |-> st] ELSE add(st)
     ELSE IF c = "\\" THEN StringLoop(Step(f), delimiter, [st EXCEPT !.backslash = TRUE])
     ELSE IF c = "{"
          THEN IF st.paren = 0 /\ (st.val = <<>> \/ st.line)
               THEN StringLoop(Step(f), delimiter, [st EXCEPT !.braced = TRUE, !.line = FALSE, !.paren = 1])
               ELSE add([st EXCEPT !.paren = @ + 1])
     ELSE IF c = "}"
          THEN IF st.braced /\ st.paren = 1
               THEN [in |-> Step(f), st |-> [st EXCEPT !.paren = 0]]
               ELSE add([st EXCEPT !.paren = @ - 1])
     ELSE IF ~st.braced /\ c = delimiter THEN [in |-> f, st |-> st]
     ELSE add(st)

parseString(in, delimiter) ==
  Then(StringLoop(Save(skipSpace(in)), delimiter,
                  [val |-> <<>>, paren |-> 0, backslash |-> FALSE, braced |-> FALSE,
                   line |-> delimiter = "\n"]), LAMBDA t :
    IF t.st.paren = 0 THEN Done(restore(t.in, TRUE), t.st.val) ELSE Panic(restore(t.in, FALSE)))

\* doString; a token that is missing is an empty string
doString(in, verb) ==
  CASE verb = "s" -> [Token(in) EXCEPT !.ok = TRUE]
    [] verb = "l" -> parseString(in, "\n")
    [] verb = "v" -> parseString(in, EOF)

-----------------------------------------------------------------------------
(* Parse.  A format is a sequence of items: [lit |-> c] for a character     *)
(* (" " for space), [verb, type] for %verb with an argument of that type,   *)
(* [opt |-> TRUE] for %*, and [parser |-> format] for an argument that      *)
(* parses itself by a call of Parse.                                        *)

\* The walk along the format from item i on.  vals: the arguments set so far;
\* optional: matchOptional; skipped: skippedSpace.
RECURSIVE Match(_, _, _, _, _, _), Parse(_, _)
Match(in, format, i, vals, optional, skipped) ==
  IF i > Len(format)
  THEN LET f == Fill(in, 1)
       IN IF optional /\ isLetter(Peek(f)) THEN Fail(Step(f))
          ELSE Done(IF optional THEN f ELSE in, vals)
  ELSE
    LET item == format[i]
        kind == DOMAIN item
        arg(r) == IF r.panic THEN r
                  ELSE Match(r.in, format, i + 1, Append(vals, r.val), optional, FALSE)
    IN CASE kind = {"opt"} -> Match(in, format, i + 1, vals, TRUE, FALSE)
         [] kind = {"verb", "type"} ->
              arg(CASE item.type = "int" -> doInt(in, item.verb, TRUE)
                    [] item.type = "uint" -> doInt(in, item.verb, FALSE)
                    [] item.type = "bool" -> doBool(in)
                    [] item.type = "float" -> doFloat(in)
                    [] item.type = "string" -> doString(in, item.verb))
         [] kind = {"parser"} ->       \* doParser; the argument's Parse panics if it fails
              LET p == Parse(Save(in), item.parser)
                  r == restore(p.in, p.ok)
              IN IF p.ok THEN arg(Done(r, p.val)) ELSE Panic(r)
         [] kind = {"lit"} ->
              LET opt == optional /\ isLetter(item.lit)
                  f == Fill(in, 1)
                  next(g) == Match(g, format, i + 1, vals, opt, isSpace(item.lit))
              IN IF isSpace(item.lit) THEN next(IF skipped THEN in ELSE skipSpace(in))
                 ELSE IF EndNoSkip(f) THEN IF opt THEN next(f) ELSE Panic(f)
                 ELSE IF Peek(f) = item.lit THEN next(Step(f))
                 ELSE IF opt /\ ~isLetter(Peek(f)) THEN next(f)
                 ELSE Fail(Step(f))

\* Seeded bug: what a failed match has read stays read
Parse_NoRestore(in, format) ==
  LET m == Match(skipSpace(Save(in)), format, 1, <<>>, FALSE, FALSE)
  IN [m EXCEPT !.in = restore(m.in, TRUE)]

\* The deferred function restores the last saved position
Parse(in, format) ==
  IF format = <<>> THEN Done(in, <<>>)
  ELSE LET m == Match(skipSpace(Save(in)), format, 1, <<>>, FALSE, FALSE)
       IN [m EXCEPT !.in = restore(m.in, m.ok)]

-----------------------------------------------------------------------------
(* A reader and the calls that are made on its input *)

VARIABLES
  text,   \* history: all that the reader delivers
  in,     \* the input, whose reader delivers the text in pieces
  whole,  \* history: the same calls on an input whose reader delivers it at once
  last,   \* what the last call answered: the format, where it started, [ok, val, panic]
  calls

vars == <<text, in, whole, last, calls>>

None == [format |-> 0, at |-> 0, ok |-> TRUE, val |-> <<>>, panic |-> FALSE, same |-> TRUE]

\* The reader delivers the text in two pieces, the first of which may be empty
Init ==
  /\ text \in Texts
  /\ \E n \in 0..Len(text) : in = Reader(<<SubSeq(text, 1, n), SubSeq(text, n + 1, Len(text))>>)
  /\ whole = Reader(<<text>>)
  /\ last = None
  /\ calls = 0

Answered(f, r, w) ==
  /\ in' = r.in
  /\ whole' = w.in
  /\ last' = [format |-> f, at |-> Position(in), ok |-> r.ok, val |-> r.val, panic |-> r.panic,
              same |-> r.ok = w.ok /\ r.panic = w.panic /\ r.val = w.val]
  /\ calls' = calls + 1
  /\ UNCHANGED text

CallParse(f) ==
  /\ calls < MaxCalls
  /\ Answered(f, Parse(in, Formats[f]), Parse(whole, Formats[f]))

CallToken ==
  /\ calls < MaxCalls
  /\ Answered(0, Token(in), Token(whole))

Next == CallToken \/ \E f \in DOMAIN Formats : CallParse(f)

Spec == Init /\ [][Next]_vars

-----------------------------------------------------------------------------
(* Properties *)

TypeOK ==
  /\ in.index \in 0..Len(in.buf)
  /\ \A i \in DOMAIN in.saves : in.saves[i] \in 0..Len(in.buf)
  /\ last.ok \in BOOLEAN /\ last.panic \in BOOLEAN
  /\ calls \in 0..MaxCalls

\* read and truncate: what is buffered is the text from base on, and neither an
\* answer nor a position depends on how the reader cuts the text into pieces.
PiecesAlike ==
  /\ in.buf = SubSeq(text, in.base + 1, in.base + Len(in.buf))
  /\ Position(in) = Position(whole)
  /\ last.same

\* The value of the digits ds, without a bound
Value(ds) == LET v[i \in 0..Len(ds)] == IF i = 0 THEN 0 ELSE 10 * v[i - 1] + Digit[ds[i]]
             IN v[Len(ds)]

DigitsAt(p) ==
  LET isDigit(i) == text[i] \in DOMAIN Digit /\ Digit[text[i]] < 10
      start == CHOOSE i \in p+1..Len(text)+1 :
                 /\ i > Len(text) \/ ~isSpace(text[i])
                 /\ \A j \in p+1..i-1 : isSpace(text[j])
      end == CHOOSE i \in start..Len(text)+1 :
               /\ i > Len(text) \/ ~isDigit(i)
               /\ \A j \in start..i-1 : isDigit(j)
  IN SubSeq(text, start, end - 1)

IsInt(f, type) == f # 0 /\ Formats[f] = <<[verb |-> "d", type |-> type]>>

\* doInt and parseInt: digits are answered by their value if the type has it
IntExact ==
  \A type \in {"int", "uint"} : IsInt(last.format, type) =>
    LET ds == DigitsAt(last.at)
    IN ds # <<>> /\ Value(ds) < (IF type = "int" THEN IntLimit \div 2 ELSE IntLimit)
         => last.ok /\ last.val = <<Value(ds)>>

ParseExact == PiecesAlike /\ IntExact

\* Parse: a call leaves no saved position behind, and one that does not match
\* leaves the input where it was, for the next alternative.  (One that panics
\* inside of a number does neither.)
ParseAtomic ==
  [][~last'.panic => /\ Len(in'.saves) = Len(in.saves)
                     /\ ~last'.ok => Position(in') = Position(in)]_vars

=============================================================================
