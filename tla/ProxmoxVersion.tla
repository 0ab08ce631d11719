---------------------------- MODULE ProxmoxVersion ----------------------------
(***************************************************************************)
(* ProxmoxVersion.get_version (proxmox.py l. 103-110), which main_list     *)
(* compares with 4.0 for every node it lists (l. 426, l. 437) and          *)
(* vms_by_type for every VM list (l. 186).                                  *)
(*                                                                         *)
(* A version string is a sequence of tokens: a natural number stands for  *)
(* a run of digits, Dot for '.' and Dash for '-'.  str.split, '.'.join    *)
(* and float() are modelled on these tokens; a float is the pair of its   *)
(* integer and fraction digit runs.                                        *)
(***************************************************************************)
EXTENDS Integers, Sequences, SequencesExt

CONSTANTS
  Digits,   \* the digit runs a version string may contain (naturals)
  MaxLen    \* bound on the number of tokens of a version string

ASSUME Digits \subseteq Nat

Dot  == -1
Dash == -2
IsNum(t) == t >= 0

(* Strings the API may return: no two digit runs are adjacent (they would *)
(* be one run).                                                            *)
VersionStrings ==
  {s \in BoundedSeq(Digits \cup {Dot, Dash}, MaxLen) :
     \A i \in 1..Len(s) - 1 : ~(IsNum(s[i]) /\ IsNum(s[i+1]))}

VARIABLES
  version,  \* self['version']
  result    \* Pending, then the float returned (Val) or ValueError

vars == <<version, result>>

-----------------------------------------------------------------------------
(* s.split(sep): the parts between separators, empty ones included.       *)
RECURSIVE SplitOn(_, _)
SplitOn(s, sep) ==
  IF s = <<>> THEN << <<>> >>
  ELSE LET rest == SplitOn(Tail(s), sep)
       IN  IF Head(s) = sep THEN << <<>> >> \o rest
           ELSE << <<Head(s)>> \o Head(rest) >> \o Tail(rest)

Pending    == [kind |-> "pending"]
ValueError == [kind |-> "error"]
Val(i, f)  == [kind |-> "value", val |-> <<i, f>>]
(* float(x) on the strings the tokens can spell: "I", "I.", ".F", "I.F";  *)
(* anything else (a second dot, a dash, nothing) raises ValueError.       *)
Float(x) ==
  IF Len(x) = 1 /\ IsNum(x[1]) THEN Val(x[1], 0)
  ELSE IF Len(x) = 2 /\ IsNum(x[1]) /\ x[2] = Dot THEN Val(x[1], 0)
  ELSE IF Len(x) = 2 /\ x[1] = Dot /\ IsNum(x[2]) THEN Val(0, x[2])
  ELSE IF Len(x) = 3 /\ IsNum(x[1]) /\ x[2] = Dot /\ IsNum(x[3]) THEN Val(x[1], x[3])
  ELSE ValueError

(* get_version: the part before the first '-'; with more than two dotted  *)
(* parts, float of the first two joined by '.'; otherwise float of the    *)
(* whole, unsplit version string.                                          *)
GetVersion(v) ==
  LET base  == SplitOn(v, Dash)[1]
      parts == SplitOn(base, Dot)
  IN  IF Len(parts) > 2 THEN Float(parts[1] \o <<Dot>> \o parts[2])
      ELSE Float(v)

-----------------------------------------------------------------------------
Init == version \in VersionStrings /\ result = Pending

(* One call of get_version on the /version answer.                        *)
Call ==
  /\ result = Pending
  /\ result' = GetVersion(version)
  /\ UNCHANGED version

Next == Call

Spec == Init /\ [][Next]_vars

-----------------------------------------------------------------------------
(* Properties.                                                             *)

(* The version strings Proxmox VE reports: "X.Y", "X.Y.Z" (8.x) and       *)
(* "X.Y-Z" (6.x, 7.x), whose major.minor is X.Y.                          *)
WellFormed(v) ==
  \E x, y, z \in Digits :
    v \in {<<x, Dot, y>>, <<x, Dot, y, Dot, z>>, <<x, Dot, y, Dash, z>>}

(* get_version returns a value for every Proxmox version string; its     *)
(* comment says it handles versions with '-' in them.                     *)
GetVersionTotal ==
  result # Pending /\ WellFormed(version) => result # ValueError
=============================================================================
