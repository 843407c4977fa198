------------------------------- MODULE Split --------------------------------
(***************************************************************************)
(* str::Split and its iterator: the tokens of a string between the         *)
(* occurrences of a separator.  A string is a sequence of characters;      *)
(* positions count from 0 as in the code.  The iterator is the record of   *)
(* its members, and `tokens' (a history) what a loop over it has seen.     *)
(***************************************************************************)
EXTENDS Integers, Sequences, FiniteSetsExt, SequencesExt

CONSTANTS
  Chars,      \* characters of the strings that are split
  MaxLen,     \* bound on their length
  Seps        \* the separators

ASSUME SplitAssumption == MaxLen \in Nat /\ \A sep \in Seps : sep \in Seq(Chars)

VARIABLES
  split,      \* the Split: str, sep and skip_empty
  it,         \* its iterator
  tokens      \* history: what *it was, in order

splitVars == <<split, it, tokens>>

npos == -1           \* std::string::npos
Forever == -2        \* what a position is when its loop does not end

SplitType == [str : BoundedSeq(Chars, MaxLen), sep : Seps, skip_empty : BOOLEAN]
NoSplit == [str |-> <<>>, sep |-> <<>>, skip_empty |-> FALSE]

(* The part of s of n characters from position pos on, or to its end. *)
substr(s, pos, n) == SubSeq(s, pos + 1, pos + n)
from(s, pos) == SubSeq(s, pos + 1, Len(s))

OccursAt(s, sep, i) == i + Len(sep) <= Len(s) /\ substr(s, i, Len(sep)) = sep

(* s.find(sep, pos) *)
find(s, sep, pos) ==
  LET hits == {i \in pos..Len(s) : OccursAt(s, sep, i)}
  IN  IF hits = {} THEN npos ELSE Min(hits)

(* skip_separators(), from position `end' on, stops after the first number *)
(* of separators that no other one follows; with an empty separator its    *)
(* loop makes no progress.                                                 *)
skip_separators(s, sep, end) ==
  LET past(k) == end + k * Len(sep)
      stops == {k \in 0..Len(s) : ~OccursAt(s, sep, past(k))}
  IN  IF stops = {} THEN Forever ELSE past(Min(stops))

EndIterator == [live |-> FALSE, cur |-> <<>>, end |-> 0]
iteratorAt(end) == [live |-> TRUE, cur |-> <<>>, end |-> end]

(* Mutant: a token that ends the string ends the iteration with it. *)
incremented_NoLast(sp, i) ==
  IF ~i.live THEN i
  ELSE IF i.end = npos \/ i.end = Len(sp.str) THEN [i EXCEPT !.live = FALSE]
  ELSE LET tok_end == IF sp.sep = <<>> THEN i.end + 1 ELSE find(sp.str, sp.sep, i.end)
           next == tok_end + Len(sp.sep)
           past == IF sp.skip_empty THEN skip_separators(sp.str, sp.sep, next) ELSE next
       IN  IF tok_end = npos THEN [i EXCEPT !.cur = from(sp.str, i.end), !.end = npos]
           ELSE [i EXCEPT !.cur = substr(sp.str, i.end, tok_end - i.end),
                          !.end = IF sp.skip_empty /\ past = Len(sp.str) THEN npos ELSE past]

(* operator++ of the iterator i on sp. *)
incremented(sp, i) ==
  IF ~i.live THEN i
  ELSE IF i.end = npos THEN [i EXCEPT !.live = FALSE]
  ELSE IF i.end = Len(sp.str) THEN [i EXCEPT !.cur = <<>>, !.end = npos]
  ELSE LET tok_end == IF sp.sep = <<>> THEN i.end + 1 ELSE find(sp.str, sp.sep, i.end)
           next == tok_end + Len(sp.sep)
           past == IF sp.skip_empty THEN skip_separators(sp.str, sp.sep, next) ELSE next
       IN  IF tok_end = npos THEN [i EXCEPT !.cur = from(sp.str, i.end), !.end = npos]
           ELSE [i EXCEPT !.cur = substr(sp.str, i.end, tok_end - i.end),
                          !.end = IF sp.skip_empty /\ past = Len(sp.str) THEN npos ELSE past]

(* The constructor of the begin iterator. *)
leading(sp) == IF sp.skip_empty THEN skip_separators(sp.str, sp.sep, 0) ELSE 0

begin(sp) ==
  LET i == iteratorAt(leading(sp))
  IN  IF i.end = Forever THEN i ELSE incremented(sp, i)

remainder(sp, i) == IF i.end = npos THEN <<>> ELSE from(sp.str, i.end)

(* What a loop goes through from each position on, if sep is not empty. *)
TokensFrom(sp) ==
  LET toks[end \in npos..Len(sp.str)] ==
        IF end = npos THEN <<>>
        ELSE LET i == incremented(sp, iteratorAt(end)) IN <<i.cur>> \o toks[i.end]
  IN  toks

(* What `for (auto t : Split(s, sep, skip))' goes through. *)
Tokens(s, sep, skip) ==
  LET sp == [str |-> s, sep |-> sep, skip_empty |-> skip]
  IN  TokensFrom(sp)[leading(sp)]

(* str::join *)
join(sep, items) ==
  FlattenSeq([n \in DOMAIN items |-> IF n = 1 THEN items[1] ELSE sep \o items[n]])

-----------------------------------------------------------------------------
Idle == ~it.live /\ tokens = <<>>      \* no loop yet

SplitInit == split = NoSplit /\ it = EndIterator /\ tokens = <<>>

(* begin() and the first evaluation of the loop's body. *)
Begin(sp) ==
  /\ split' = sp
  /\ it' = begin(sp)
  /\ tokens' = IF it'.end = Forever THEN <<>> ELSE <<it'.cur>>

(* ++it, and the body again if the iterator is not end(). *)
Increment ==
  /\ it.live /\ it.end # Forever
  /\ it' = incremented(split, it)
  /\ tokens' = IF it'.live /\ it'.end # Forever THEN Append(tokens, it'.cur) ELSE tokens
  /\ UNCHANGED split

SplitNext == Increment \/ (Idle /\ \E sp \in SplitType : Begin(sp))

SplitSpec == SplitInit /\ [][SplitNext]_splitVars

-----------------------------------------------------------------------------
(* Properties.                                                             *)

Parted == ~it.live /\ ~Idle

(* The separator after token n is the first one; the last token has none. *)
FirstAfter(n) ==
  IF n = Len(tokens) THEN find(tokens[n], split.sep, 0) = npos
  ELSE find(tokens[n] \o split.sep, split.sep, 0) = Len(tokens[n])

NonEmpty(toks) ==
  FlattenSeq([n \in DOMAIN toks |-> IF toks[n] = <<>> THEN <<>> ELSE <<toks[n]>>])

OnlySeparators == skip_separators(split.str, split.sep, 0) = Len(split.str)

(* Splitting loses and invents nothing.  At every step the tokens so far   *)
(* and the remainder make up the string; no token contains the separator;  *)
(* with skip_empty the tokens are the ones without it that are not empty   *)
(* (but for a string of separators only, which has one empty token); an    *)
(* empty separator gives the characters and an empty token.  The loop ends *)
(* after at most one token more than there are characters, except with an  *)
(* empty separator and skip_empty, where it never does.                    *)
SplitSound ==
  LET plain == split.sep # <<>> /\ ~split.skip_empty
  IN  /\ plain /\ it.live =>
           split.str = join(split.sep,
             IF it.end = npos THEN tokens ELSE Append(tokens, remainder(split, it)))
      /\ plain /\ Parted => /\ join(split.sep, tokens) = split.str
                            /\ \A n \in DOMAIN tokens : FirstAfter(n)
      /\ split.sep # <<>> /\ split.skip_empty /\ Parted =>
           tokens = IF OnlySeparators THEN << <<>> >>
                    ELSE NonEmpty(Tokens(split.str, split.sep, FALSE))
      /\ split.sep = <<>> /\ Parted =>
           tokens = [n \in 1..(Len(split.str) + 1) |->
                       IF n <= Len(split.str) THEN <<split.str[n]>> ELSE <<>>]
      /\ Len(tokens) <= Len(split.str) + 1
      /\ it.end = Forever <=> it.live /\ split.sep = <<>> /\ split.skip_empty
=============================================================================
