------------------------------ MODULE AlertsFile ------------------------------
(***************************************************************************)
(* alerts.json as the operating system presents it to the tailer: files     *)
(* with an inode, a path that names one of them or nothing, and the Wazuh   *)
(* manager that appends lines, rotates and truncates.  None of it is code   *)
(* of the repository; it is what src/input/tailer.rs and src/main.rs expect *)
(* of the file system (a metadata call, an open, a read up to the end).     *)
(*                                                                         *)
(* A file is a sequence of bytes (or of runs of bytes that are never read   *)
(* apart).  Only the line a byte belongs to and its place in that line      *)
(* matter, so a byte is the pair of the two; what is written in a line is   *)
(* summarised by its Kind:                                                  *)
(*   "alert"       a JSON object, ASCII                                     *)
(*   "junk"        not a JSON object                                        *)
(*   "blank"       nothing but white space                                  *)
(*   "straddling"  a JSON object with a multi-byte character that starts at *)
(*                 the first byte modelled and ends at the second           *)
(*   "undecodable" a line that is not UTF-8; the offending byte is its last *)
(* The writer appends one byte at a time, so a reader may meet any prefix   *)
(* of a line.  The manager closes a file only at the end of a line.         *)
(***************************************************************************)
EXTENDS Naturals, Sequences

CONSTANTS
  MaxLine,      \* how many lines the manager writes in a behaviour
  LineLen,      \* LineLen[l]: bytes of line l, its newline included
  Kind,         \* Kind[l]: what line l holds
  MaxInode,     \* how many files ever carry the name alerts.json
  MaxTruncate   \* how often the current file is truncated in place

Line == 1 .. MaxLine
Inode == 1 .. MaxInode
LineKind == {"alert", "junk", "blank", "straddling", "undecodable"}

ASSUME LineAssumption ==
  /\ MaxLine \in Nat
  /\ LineLen \in [Line -> Nat \ {0}]
  /\ Kind \in [Line -> LineKind]
  /\ \A l \in Line : Kind[l] = "straddling" => LineLen[l] > 1

ASSUME FileAssumption ==
  /\ MaxInode \in Nat \ {0}
  /\ MaxTruncate \in Nat

Byte == [line : Line, nth : Nat \ {0}]
NoInode == 0

VARIABLES
  file,     \* file[k]: the bytes of the k-th file
  path,     \* the inode alerts.json names, NoInode while it names nothing
  made,     \* how many files have been created under that name
  last,     \* the last byte the manager wrote
  truncs    \* how many truncations there have been

fsVars == <<file, path, made, last, truncs>>

-----------------------------------------------------------------------------
(* Reading a sequence of bytes.                                             *)

IsNewline(b) == b.nth = LineLen[b.line]

Newlines(f) == {i \in 1 .. Len(f) : IsNewline(f[i])}

\* i is where the first line that ends beyond position p ends.
EndsFirstLineAfter(f, p, i) ==
  /\ i \in Newlines(f)
  /\ p < i
  /\ \A j \in Newlines(f) : p < j => i <= j

NoLineEndsAfter(f, p) == \A i \in Newlines(f) : i <= p

\* The bytes a .. b, all of one line, are UTF-8.
Decodable(f, a, b) ==
  /\ ~ (Kind[f[b].line] = "undecodable" /\ IsNewline(f[b]))
  /\ ~ (Kind[f[b].line] = "straddling" /\ f[b].nth = 1)
  /\ ~ (Kind[f[a].line] = "straddling" /\ f[a].nth = 2)

\* Lines that transform() turns into a record when it gets them whole.
IsAlert(l) == Kind[l] \in {"alert", "straddling"}

\* Where the line that ends at position i of f starts: the position before
\* its first byte.
StartOf(f, i) == i - LineLen[f[i].line]

-----------------------------------------------------------------------------
(* What the metadata call, and thus an open, finds at the path.             *)

PathInode == path
PathSize == IF path = NoInode THEN 0 ELSE Len(file[path])

-----------------------------------------------------------------------------
FsInit ==
  /\ file = [k \in Inode |-> <<>>]
  /\ path = 1
  /\ made = 1
  /\ last = [line |-> 0, nth |-> 0]
  /\ truncs = 0

BetweenLines == IF last.line = 0 THEN TRUE ELSE IsNewline(last)

NextByte ==
  IF BetweenLines THEN [line |-> last.line + 1, nth |-> 1]
                  ELSE [line |-> last.line, nth |-> last.nth + 1]

\* The manager appends a byte to the file it has open.
WriteByte ==
  /\ path # NoInode
  /\ BetweenLines => last.line < MaxLine
  /\ file' = [file EXCEPT ![path] = Append(@, NextByte)]
  /\ last' = NextByte
  /\ UNCHANGED <<path, made, truncs>>

\* Rotation, first half: alerts.json is renamed, the path names nothing.
RotateAway ==
  /\ path # NoInode
  /\ BetweenLines
  /\ made < MaxInode
  /\ path' = NoInode
  /\ UNCHANGED <<file, made, last, truncs>>

\* Rotation, second half: a new empty alerts.json is created.
CreateFile ==
  /\ path = NoInode
  /\ made < MaxInode
  /\ made' = made + 1
  /\ path' = made + 1
  /\ UNCHANGED <<file, last, truncs>>

\* The file is emptied in place and keeps its inode.
Truncate ==
  /\ path # NoInode
  /\ BetweenLines
  /\ truncs < MaxTruncate
  /\ file[path] # <<>>
  /\ file' = [file EXCEPT ![path] = <<>>]
  /\ truncs' = truncs + 1
  /\ UNCHANGED <<path, made, last>>

FsNext == WriteByte \/ RotateAway \/ CreateFile \/ Truncate

FsTypeOK ==
  /\ file \in [Inode -> Seq(Byte)]
  /\ path \in Inode \cup {NoInode}
  /\ made \in Inode
  /\ last \in [line : Line \cup {0}, nth : Nat]
  /\ truncs \in Nat

\* alerts.json has been one growing file since the beginning.
Stable == made = 1 /\ path = 1 /\ truncs = 0

-----------------------------------------------------------------------------
(* What can be said of a file that is only appended to.                     *)

\* No line can be read wrongly: all of the log is UTF-8 and no character is
\* met half written.
AllDecodable == \A l \in Line : Kind[l] \notin {"straddling", "undecodable"}

\* The file is whole lines, one after the other, and the beginning of one.
LineShape(f) ==
  \A k \in 1 .. Len(f) :
    /\ f[k].nth <= k
    /\ f[k].nth <= LineLen[f[k].line]
    /\ \A j \in 1 .. k : k - f[k].nth < j =>
         f[j] = [line |-> f[k].line, nth |-> f[k].nth - (k - j)]
    /\ f[k].nth < k => IsNewline(f[k - f[k].nth])

\* Lines are numbered in the order they are written in.
LinesInOrder(f) ==
  \A j, k \in 1 .. Len(f) : j < k =>
    /\ f[j].line <= f[k].line
    /\ IsNewline(f[j]) => f[j].line < f[k].line

\* f ends with the byte that was written last, if anything was written to it.
EndsWithLast(f) == IF f = <<>> THEN BetweenLines ELSE last = f[Len(f)]

\* n is a position between two lines of f, or b, where reading began.
Position(f, b, n) == n \in Newlines(f) \cup {b} /\ b <= n /\ n <= Len(f)
=============================================================================
