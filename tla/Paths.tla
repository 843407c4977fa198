------------------------------- MODULE Paths --------------------------------
(***************************************************************************)
(* The pathname functions of ept::str and the functions of ept::sys built  *)
(* on them: abspath, makedirs and which.  A call is one step that takes a  *)
(* pathname; the properties speak of what the functions give for it.       *)
(*                                                                         *)
(* The reference is a walk over the components of a pathname, the way the  *)
(* kernel does it; Cwd is the current directory.                           *)
(***************************************************************************)
EXTENDS Split

CONSTANTS
  PathChars,  \* characters of pathnames
  PathLen,    \* bound on their length
  Cwd,        \* what getcwd() returns: absolute and normal
  Program     \* a program name without slashes

VARIABLE path        \* the argument of the last call, NoPath before it

NoPath == <<"none">>

pathVars == <<path>>

slash == <<"/">>
dot == <<".">>
dotdot == <<".", ".">>

Undef == <<"undefined">>     \* the value of an undefined behaviour
Nowhere == <<Undef>>         \* no directory; the components of nothing

isAbsolute(p) == p # <<>> /\ p[1] = "/"

-----------------------------------------------------------------------------
(* str                                                                     *)

(* p.rfind("/", upto), upto being the last position to look at. *)
rfindSlash(p, upto) ==
  LET hits == {i \in 0..upto : p[i + 1] = "/"}
  IN  IF hits = {} THEN npos ELSE Max(hits)

basename(p) == from(p, rfindSlash(p, Len(p) - 1) + 1)

(* p without the slashes before position end. *)
RECURSIVE chopped(_, _)
chopped(p, end) == IF end > 0 /\ p[end] = "/" THEN chopped(p, end - 1) ELSE end

dirname(p) ==
  LET end == chopped(p, Len(p))
      sep == IF end = 0 THEN npos ELSE rfindSlash(p, end - 1)
      top == chopped(p, sep)
  IN  IF p = <<>> THEN dot
      ELSE IF end = 0 THEN slash
      ELSE IF sep = npos THEN dot
      ELSE IF top = 0 THEN slash
      ELSE substr(p, 0, top)

(* appendpath(dest, p) *)
appended(dest, p) ==
  IF p = <<>> THEN dest
  ELSE IF dest = <<>> THEN p
  ELSE IF dest[Len(dest)] = "/" THEN dest \o (IF p[1] = "/" THEN Tail(p) ELSE p)
  ELSE dest \o (IF p[1] = "/" THEN p ELSE slash \o p)

joinpath(p, q) == appended(appended(<<>>, p), q)

(* Mutant: the parent of the root takes the root away. *)
normStep_PopsRoot(st, i) ==
  IF st = Nowhere \/ i = dot \/ i = <<>> THEN st
  ELSE IF i # dotdot THEN Append(st, i)
  ELSE IF st = <<>> THEN Nowhere
  ELSE Front(st)

(* One round of normpath's loop.  back() of an empty vector is undefined.  *)
normStep(st, i) ==
  IF st = Nowhere \/ i = dot \/ i = <<>> THEN st
  ELSE IF i # dotdot THEN Append(st, i)
  ELSE IF st = <<>> THEN Nowhere
  ELSE IF Last(st) = dotdot THEN Append(st, i)
  ELSE IF Last(st) = slash THEN st
  ELSE Front(st)

normpath(p) ==
  LET first == IF isAbsolute(p) THEN <<slash>> ELSE <<>>
      st == FoldLeft(normStep, first, Tokens(p, slash, FALSE))
  IN  IF st = Nowhere THEN Undef
      ELSE IF st = <<>> THEN dot
      ELSE FoldLeft(appended, <<>>, st)

-----------------------------------------------------------------------------
(* sys                                                                     *)

abspath(p) == normpath(IF isAbsolute(p) THEN p ELSE joinpath(Cwd, p))

(* Mutant: a directory is made before its parent. *)
RECURSIVE made_ParentLast(_)
made_ParentLast(p) ==
  IF p = slash \/ p = dot THEN <<>> ELSE <<p>> \o made_ParentLast(dirname(p))

(* The pathnames makedirs(p) gives to mkdir_ifmissing, in order. *)
RECURSIVE made(_)
made(p) == IF p = slash \/ p = dot THEN <<>> ELSE Append(made(dirname(p)), p)

(* which(name) with PATH = dirs; access(_, X_OK) succeeds on executable.   *)
candidates(dirs, name) ==
  [n \in DOMAIN Tokens(dirs, <<":">>, TRUE) |->
     joinpath(Tokens(dirs, <<":">>, TRUE)[n], name)]

which(dirs, name, executable) ==
  IF \E n \in DOMAIN name : name[n] = "/" THEN abspath(name)
  ELSE LET cs == candidates(dirs, name)
           hits == {n \in DOMAIN cs : cs[n] \in executable}
       IN  IF hits = {} THEN name ELSE abspath(cs[Min(hits)])

-----------------------------------------------------------------------------
PathInit == path = NoPath

PathCall(p) == path' = p

PathNext == path = NoPath /\ \E p \in BoundedSeq(PathChars, PathLen) : PathCall(p)

-----------------------------------------------------------------------------
(* The reference.                                                          *)

(* The components of p, the empty ones and "." left out. *)
Components(p) ==
  SelectSeq(Tokens(p, slash, FALSE), LAMBDA c : c # <<>> /\ c # dot)

(* How much deeper components i to j of cs lead. *)
Depth(cs, i, j) ==
  Cardinality({k \in i..j : cs[k] # dotdot}) - Cardinality({k \in i..j : cs[k] = dotdot})

(* Component i is a name that no later ".." takes back. *)
Survives(cs, i) ==
  cs[i] # dotdot /\ \A j \in i..Len(cs) : Depth(cs, i, j) > 0

Surviving(cs) ==
  LET kept == SetToSortSeq({i \in DOMAIN cs : Survives(cs, i)}, <)
  IN  [n \in DOMAIN kept |-> cs[kept[n]]]

(* Some ".." has no name before it that it takes back. *)
LeadsUp(cs) == \E j \in DOMAIN cs : \A i \in 1..j : Depth(cs, i, j) < 0

(* The directory p leads to from the directory cwd, if every directory on  *)
(* the way is one of dirs, else Nowhere; directories are given by their      *)
(* names from the root.                                                    *)
RECURSIVE WalkFrom(_, _, _)
WalkFrom(dirs, here, cs) ==
  IF here \notin dirs THEN Nowhere
  ELSE IF cs = <<>> THEN here
  ELSE WalkFrom(dirs, IF Head(cs) # dotdot THEN Append(here, Head(cs))
                      ELSE IF here = <<>> THEN here ELSE Front(here), Tail(cs))
Walk(dirs, p) ==
  WalkFrom(dirs, IF isAbsolute(p) THEN <<>> ELSE Components(Cwd), Components(p))

(* The directories after mkdir_ifmissing(p), or none if it throws: the     *)
(* directory p is to be made in must be there.                             *)
AfterMkdir(dirs, p) ==
  IF dirs = {} \/ p = <<>> THEN {}
  ELSE IF Walk(dirs, p) # Nowhere THEN dirs
  ELSE LET cs == Components(p)
           up == WalkFrom(dirs, IF isAbsolute(p) THEN <<>> ELSE Components(Cwd), Front(cs))
       IN  IF up = Nowhere THEN {} ELSE dirs \cup {Append(up, Last(cs))}

-----------------------------------------------------------------------------
(* Properties.                                                             *)

(* which gives the first program it may execute in a directory of PATH,    *)
(* made absolute, and the name back if there is none; a PATH without       *)
(* directories still searches the current one.  Here all candidates from   *)
(* some directory on may be executed, or none.                             *)
WhichSearches(p) ==
  LET dirs == SelectSeq(Tokens(p, <<":">>, FALSE), LAMBDA d : d # <<>>)
      searched == IF dirs = <<>> THEN << <<>> >> ELSE dirs
      program(n) == joinpath(searched[n], Program)
  IN  \A k \in 1..(Len(searched) + 1) :
        LET runs == {program(n) : n \in k..Len(searched)}
            found == which(p, Program, runs)
        IN  IF runs = {} THEN found = Program
            ELSE found = abspath(program(Min({n \in DOMAIN searched : program(n) \in runs})))

(* normpath leaves exactly the names that no ".." takes back, in a form it *)
(* leaves alone, and keeps a pathname absolute or relative; it is          *)
(* undefined for the relative pathnames that lead above where they start,  *)
(* and for no others.  abspath is defined for every pathname, and absolute.*)
(* dirname and basename take a pathname apart that joinpath puts together. *)
(* which, with the pathname for PATH, gives the first program it may       *)
(* execute.                                                                *)
PathsResolve ==
  path # NoPath =>
    LET cs == Components(path)
        up == ~isAbsolute(path) /\ LeadsUp(cs)
    IN  /\ normpath(path) = Undef <=> up
        /\ ~up => /\ Components(normpath(path)) = Surviving(cs)
                  /\ isAbsolute(normpath(path)) <=> isAbsolute(path)
                  /\ normpath(normpath(path)) = normpath(path)
        /\ abspath(path) # Undef /\ isAbsolute(abspath(path))
        /\ Components(abspath(path)) =
             Surviving((IF isAbsolute(path) THEN <<>> ELSE Components(Cwd)) \o cs)
        /\ path # <<>> /\ Last(path) # "/" =>
             Components(joinpath(dirname(path), basename(path))) = cs
        /\ WhichSearches(path)

(* makedirs comes to an end and makes every directory after the one it     *)
(* lies in, so that the pathname leads to a directory afterwards, whatever *)
(* slashes, "." and ".." it is written with; only the empty pathname fails.*)
MakedirsMakes ==
  path # NoPath =>
    LET before == Prefixes(Components(Cwd))
        after == FoldLeft(AfterMkdir, before, made(path))
    IN  IF path = <<>> THEN after = {}
        ELSE after # {} /\ Walk(after, path) # Nowhere
=============================================================================
