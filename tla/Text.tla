-------------------------------- MODULE Text --------------------------------
(***************************************************************************)
(* The functions of ept::str on the characters of a text: strip and its    *)
(* variants, and the encodings as C string, as URL and in base64.  A       *)
(* character is its code, 0 to 255.  A call is one step that takes a text. *)
(***************************************************************************)
EXTENDS Integers, Sequences, FiniteSetsExt, SequencesExt

CONSTANTS
  Bytes,      \* the characters texts are made of
  TextLen     \* bound on their length

ASSUME BytesAssumption == Bytes \subseteq 0..255 /\ TextLen \in Nat

VARIABLE text        \* the argument of the last call, NoText before it

NoText == <<-1>>

quote == 34
percent == 37
equals == 61
backslash == 92

isspace(c) == c = 32 \/ c \in 9..13
iscntrl(c) == c \in 0..31 \/ c = 127
isdigit(c) == c \in 48..57
isxdigit(c) == isdigit(c) \/ c \in 65..70 \/ c \in 97..102
isalnum(c) == isdigit(c) \/ c \in 65..90 \/ c \in 97..122

(* What an undefined read of memory outside a string or a table leads to. *)
OutOfBounds == <<-2>>

-----------------------------------------------------------------------------
lstrip(s) ==
  LET kept == {n \in DOMAIN s : ~isspace(s[n])}
  IN  IF kept = {} THEN <<>> ELSE SubSeq(s, Min(kept), Len(s))

rstrip(s) ==
  LET kept == {n \in DOMAIN s : ~isspace(s[n])}
  IN  IF kept = {} THEN <<>> ELSE SubSeq(s, 1, Max(kept))

(* strip goes inwards from both ends, positions counting from 1.  It never *)
(* looks at the last character from the left; from the right a position    *)
(* left of the first character is a wrapped one, and is read.              *)
stripBeg(s) == Min({n \in DOMAIN s : n = Len(s) \/ ~isspace(s[n])})
stripEnd(s, beg) == Max({n \in 0..Len(s) : n = 0 \/ n < beg \/ ~isspace(s[n])})

strip(s) ==
  IF s = <<>> THEN s
  ELSE LET beg == stripBeg(s)
           end == stripEnd(s, beg)
       IN  IF beg = 1 /\ end = 0 THEN OutOfBounds ELSE SubSeq(s, beg, end)

-----------------------------------------------------------------------------
hexdigit(d) == IF d < 10 THEN 48 + d ELSE 87 + d
hex(c) == <<hexdigit(c \div 16), hexdigit(c % 16)>>

(* What strtoul and atoi make of at most two hexadecimal digits.  Signs    *)
(* and blanks, which strtoul also takes, do not come up.                   *)
digitValue(c) == IF isdigit(c) THEN c - 48 ELSE IF c >= 97 THEN c - 87 ELSE c - 55
strtoul16(s) ==
  IF s = <<>> \/ ~isxdigit(s[1]) THEN 0
  ELSE IF Len(s) = 1 \/ ~isxdigit(s[2]) THEN digitValue(s[1])
  ELSE 16 * digitValue(s[1]) + digitValue(s[2])

(* atoi is decimal: of "0x1f" it reads the 0. *)
atoiOf0x(digits) == 0

(* Mutant: the backslash is not escaped. *)
cstringChar_NoEscape(c) ==
  IF c = 10 THEN <<backslash, 110>>
  ELSE IF c = 9 THEN <<backslash, 116>>
  ELSE IF iscntrl(c) THEN <<backslash, 120>> \o hex(c)
  ELSE IF c = quote THEN <<backslash, c>>
  ELSE <<c>>

cstringChar(c) ==
  IF c = 10 THEN <<backslash, 110>>
  ELSE IF c = 9 THEN <<backslash, 116>>
  ELSE IF iscntrl(c) THEN <<backslash, 120>> \o hex(c)
  ELSE IF c \in {quote, backslash} THEN <<backslash, c>>
  ELSE <<c>>

encode_cstring(s) == FlattenSeq([n \in DOMAIN s |-> cstringChar(s[n])])

(* How many hexadecimal digits, up to two, s has from index n on. *)
hexDigits(s, n) ==
  IF n > Len(s) \/ ~isxdigit(s[n]) THEN 0
  ELSE IF n + 1 > Len(s) \/ ~isxdigit(s[n + 1]) THEN 1 ELSE 2

(* A character in front of what is decoded from behind it. *)
InFront(c, r) == [r EXCEPT !.res = <<c>> \o @]

(* decode_cstring from index i on: the text, and lenParsed. *)
cstringFrom(s) ==
  LET decoded[i \in 1..(Len(s) + 1)] ==
        IF i > Len(s) THEN [res |-> <<>>, lenParsed |-> Len(s)]
        ELSE IF s[i] = quote THEN [res |-> <<>>, lenParsed |-> i]
        ELSE IF s[i] # backslash \/ i = Len(s) THEN InFront(s[i], decoded[i + 1])
        ELSE IF s[i + 1] = 110 THEN InFront(10, decoded[i + 2])
        ELSE IF s[i + 1] = 116 THEN InFront(9, decoded[i + 2])
        ELSE IF s[i + 1] = 120
        THEN LET j == hexDigits(s, i + 2)
             IN  InFront(atoiOf0x(SubSeq(s, i + 2, i + 1 + j)), decoded[i + 2 + j])
        ELSE InFront(s[i + 1], decoded[i + 2])
  IN  decoded

decode_cstring(s) == cstringFrom(s)[1]

-----------------------------------------------------------------------------
urlPlain(c) == isalnum(c) \/ c \in {45, 95, 33, 42, 39, 40, 41}
urlChar(c) == IF urlPlain(c) THEN <<c>> ELSE <<percent>> \o hex(c)

encode_url(s) == FlattenSeq([n \in DOMAIN s |-> urlChar(s[n])])

(* decode_url from index i on.  The test for a partial escape subtracts    *)
(* from the size: it wraps, and is false, for a text of one character.     *)
urlFrom(s) ==
  LET decoded[i \in 1..(Len(s) + 3)] ==
        IF i > Len(s) THEN <<>>
        ELSE IF s[i] # percent THEN <<s[i]>> \o decoded[i + 1]
        ELSE IF Len(s) >= 2 /\ i - 1 >= Len(s) - 2 THEN <<>>
        ELSE <<strtoul16(SubSeq(s, i + 1, IF i + 2 > Len(s) THEN Len(s) ELSE i + 2))>>
               \o decoded[i + 3]
  IN  decoded

decode_url(s) == urlFrom(s)[1]

-----------------------------------------------------------------------------
(* The table base64, and its inverse, whose bound is one too high. *)
base64(v) ==
  CASE v < 26 -> 65 + v
    [] v \in 26..51 -> 71 + v
    [] v \in 52..61 -> v - 4
    [] v = 62 -> 43
    [] v = 63 -> 47

invbase64(c) ==
  CASE c \in 65..90 -> c - 65
    [] c \in 97..122 -> c - 71
    [] isdigit(c) -> c + 4
    [] c = 43 -> 62
    [] c = 47 -> 63
    [] c = 123 -> OutOfBounds[1]
    [] OTHER -> 0

(* s[n], 0 past the end. *)
at(s, n) == IF n <= Len(s) THEN s[n] ELSE 0

Groups(s, k) == (Len(s) + k - 1) \div k

(* Three characters as four digits. *)
quad(s, g) ==
  LET enc == at(s, 3 * g + 1) * 65536 + at(s, 3 * g + 2) * 256 + at(s, 3 * g + 3)
  IN  <<base64(enc \div 262144), base64((enc \div 4096) % 64),
        base64((enc \div 64) % 64), base64(enc % 64)>>

encode_base64(s) ==
  LET res == FlattenSeq([g \in 1..Groups(s, 3) |-> quad(s, g - 1)])
      pad == (3 - (Len(s) % 3)) % 3
  IN  [n \in DOMAIN res |-> IF n > Len(res) - pad THEN equals ELSE res[n]]

(* Four digits as three characters. *)
inv(s, n) == IF n <= Len(s) THEN invbase64(s[n]) ELSE 0
triple(s, g) ==
  LET enc == inv(s, 4 * g + 1) * 262144 + inv(s, 4 * g + 2) * 4096
             + inv(s, 4 * g + 3) * 64 + inv(s, 4 * g + 4)
  IN  <<(enc \div 65536) % 256, (enc \div 256) % 256, enc % 256>>

(* How many padding characters s ends with. *)
padding(s) ==
  LET other == {n \in DOMAIN s : s[n] # equals}
  IN  IF other = {} THEN Len(s) ELSE Len(s) - Max(other)

decode_base64(s) ==
  LET res == FlattenSeq([g \in 1..Groups(s, 4) |-> triple(s, g - 1)])
      left == Len(res) - padding(s)
  IN  SubSeq(res, 1, left)

-----------------------------------------------------------------------------
TextInit == text = NoText

TextCall(s) == text' = s

TextNext == text = NoText /\ \E s \in BoundedSeq(Bytes, TextLen) : TextCall(s)

TextSpec == TextInit /\ [][TextNext]_text

-----------------------------------------------------------------------------
(* Properties.                                                             *)

(* What comes back through decode_cstring: atoi does not read hexadecimal, *)
(* so that every control character but the newline and the tab is lost.    *)
Survivor(c) == IF iscntrl(c) /\ c \notin {9, 10} THEN 0 ELSE c

(* strip takes away the blanks at both ends, as lstrip and rstrip do one   *)
(* after the other, except of a text that is one blank, which it runs out  *)
(* of.                                                                     *)
StripSound(s) ==
  IF Len(s) = 1 /\ isspace(s[1]) THEN strip(s) = OutOfBounds
  ELSE strip(s) = lstrip(rstrip(s)) /\ strip(s) = rstrip(lstrip(s))

(* Decoding undoes encoding, in all three codings and for every text,      *)
(* except for the control characters in C strings.  decode_cstring stops   *)
(* right behind the quote that ends the string, whatever follows.  Of an   *)
(* encoded URL that was cut off, decode_url gives a part of the text and   *)
(* drops the partial escape, unless there is nothing but a percent sign.   *)
(* And strip strips.                                                       *)
TextRoundTrips ==
  text # NoText =>
    /\ LET c == encode_cstring(text)
       IN  decode_cstring(c \o <<quote>> \o text) =
             [res |-> [n \in DOMAIN text |-> Survivor(text[n])], lenParsed |-> Len(c) + 1]
    /\ decode_base64(encode_base64(text)) = text
    /\ decode_url(encode_url(text)) = text
    /\ \A cut \in Prefixes(encode_url(text)) :
         cut # <<percent>> => IsPrefix(decode_url(cut), text)
    /\ StripSound(text)
=============================================================================
