------------------------- MODULE HttpParserReference -------------------------
(***************************************************************************)
(* What http_parser_execute promises of lengths: a relation between the    *)
(* bodies it hands to the callbacks, the headers it handed to them before, *)
(* and the bytes of the payload.  Here `text' is a payload, `shown' are    *)
(* the calls made for it.                                                  *)
(***************************************************************************)
EXTENDS HttpParser

\* The number that the symbols text[from + 1] to text[to] spell.  The parser
\* passes over spaces between the digits of a Content-Length.
Numeral(text, base, from, to) ==
  LET value[n \in from..to] == IF n = from THEN 0
                               ELSE IF text[n] = SP THEN value[n - 1]
                               ELSE base * value[n - 1] + unhex(text[n])
  IN value[to]

\* A piece fills n bytes, or the rest of the payload if that is shorter.
Fills(text, c, n) == c.length = IF n < Len(text) - c.at THEN n ELSE Len(text) - c.at

\* The size of a chunk: hexadecimal digits from the start of a line on.
SizeDigits(text, k, e) == k < e /\ text[k] = LF /\ \A i \in (k + 1)..e : IS_HEX(text[i])

\* The line before offset n, with the digits of a size and, maybe, parameters.
SizeLine(text, k, e, n) ==
  /\ SizeDigits(text, k, e) /\ e + 2 <= n
  /\ ~IS_HEX(text[e + 1]) /\ \A i \in (e + 1)..(n - 2) : text[i] # CR
  /\ text[n - 1] = CR /\ text[n] = LF

ChunkIsExact(text, c) ==
  \E k, e \in 1..c.at : SizeLine(text, k, e, c.at) /\ Fills(text, c, Numeral(text, 16, k, e))

\* Call i shows the name Content-Length, and the next call its value.
LengthName(text, shown, i) ==
  shown[i].on = "header_field" /\ shown[i].length = 1 /\ text[shown[i].at + 1] = "content-length"
LengthField(text, shown, i) ==
  LengthName(text, shown, i) /\ shown[i + 1].on = "header_value" /\ shown[i + 1].length > 0
LengthShown(text, shown, i) ==
  Numeral(text, 10, shown[i + 1].at, shown[i + 1].at + shown[i + 1].length)

\* The last such field among the first n calls.
LastLength(text, shown, i, n) ==
  /\ i \in 1..(n - 1) /\ LengthField(text, shown, i)
  /\ \A j \in (i + 1)..(n - 1) : ~LengthField(text, shown, j)

BodyIsExact(text, shown, n) ==
  \E i \in 1..(n - 1) : LastLength(text, shown, i, n) /\ Fills(text, shown[n], LengthShown(text, shown, i))

\* Why a length is refused: with the digit at offset n it is within one digit of
\* the largest value, or it is not a number in one line.
SizeTooLarge(text, n) ==
  \E k \in 1..n : SizeDigits(text, k, n + 1) /\ Numeral(text, 16, k, n + 1) + 16 > ULLONG_MAX

\* There is only white space between the last name shown and offset n.
OnlyWhite(text, shown, n) ==
  /\ shown[Len(shown)].at + 2 <= n
  /\ \A i \in (shown[Len(shown)].at + 3)..n : text[i] \in {SP, TAB, CR, LF}

LengthRefused(text, shown, n) ==
  /\ shown # <<>>
  /\ \/ /\ LengthName(text, shown, Len(shown))
        /\ \E v \in 0..n :
             /\ OnlyWhite(text, shown, v)
             /\ \A i \in (v + 1)..n : IS_NUM(text[i]) \/ text[i] = SP
             /\ IS_NUM(text[n + 1]) => Numeral(text, 10, v, n + 1) + 10 > ULLONG_MAX
     \/ LengthField(text, shown, Len(shown) - 1) /\ text[n + 1] \in {SP, TAB}

\* A body that is handed to the callback is as long as the size of its chunk or
\* the last Content-Length that was shown before it says, or it reaches to the
\* end of the packet if that is shorter or if it has no length; and a length is
\* refused only if it is within one digit of the largest value or no number: a
\* larger one never wraps around to a small one.
LengthIsExact ==
  /\ \A n \in 1..Len(calls) : calls[n].on = "body" =>
       \/ ChunkIsExact(data, calls[n]) \/ BodyIsExact(data, calls, n)
       \/ parser.state = "s_body_identity_eof" /\ calls[n].at + calls[n].length = len
  /\ parser.http_errno = "INVALID_CONTENT_LENGTH" =>
       p < len /\ (SizeTooLarge(data, p) \/ LengthRefused(data, calls, p))
=============================================================================
