------------------------------- MODULE OpenFiles -------------------------------
(***************************************************************************)
(* What the virtual file system promises about contents: a file is a       *)
(* sequence of bytes, a descriptor a place in one.  No tree, no buffers,   *)
(* no capacities.                                                          *)
(*                                                                         *)
(* A gap between the end of a file and the place of a write is filled with *)
(* bytes of unspecified value, and an open that finds no free descriptor   *)
(* may have made or emptied the file.                                      *)
(***************************************************************************)
EXTENDS Integers, SequencesExt

CONSTANTS
  Byte,      \* the values of a byte
  MaxFds,    \* descriptors
  Texts,     \* what may be written in one call
  Wholes,    \* what a file may be made with, or replaced by, in one step
  MaxRead    \* the most that may be read in one call

VARIABLES
  file,   \* the bytes of each file, in the order the files were made
  desc,   \* open descriptor -> its file and its offset
  seen    \* bytes the last call read

vars == <<file, desc, seen>>

Files == DOMAIN file

\* At most n elements of s after the first k.
Slice(s, k, n) == SubSeq(s, k + 1, IF k + n < Len(s) THEN k + n ELSE Len(s))

Init ==
  /\ file = << <<>> >>
  /\ desc = [d \in {} |-> 0]
  /\ seen = <<>>

Make(text) ==
  /\ file' = Append(file, text)
  /\ UNCHANGED desc
  /\ seen' = <<>>

Truncate(n) ==
  /\ file' = [file EXCEPT ![n] = <<>>]
  /\ UNCHANGED desc
  /\ seen' = <<>>

\* A file that is there, is emptied, or is made (n is then its number) gets the lowest
\* free descriptor, at its start or its end.
Open(n) ==
  LET free == (0..(MaxFds - 1)) \ DOMAIN desc
      d == CHOOSE x \in free : \A y \in free : x <= y
  IN /\ free # {}
     /\ IF n \in Files THEN file' \in {file, [file EXCEPT ![n] = <<>>]}
        ELSE file' = Append(file, <<>>)
     /\ \E at \in {0, Len(file'[n])} :
          desc' = [x \in DOMAIN desc \cup {d} |-> IF x = d THEN [file |-> n, at |-> at] ELSE desc[x]]
     /\ seen' = <<>>

\* Reading goes on where the descriptor is, and never past the end.
Read(d, n) ==
  LET f == desc[d]
      text == Slice(file[f.file], f.at, n)
  IN /\ seen' = text
     /\ desc' = [desc EXCEPT ![d].at = @ + Len(text)]
     /\ UNCHANGED file

Write(d, text) ==
  LET f == desc[d]
      old == file[f.file]
      gap == IF f.at > Len(old) THEN f.at - Len(old) ELSE 0
  IN /\ \E fill \in [1..gap -> Byte] :
          file' = [file EXCEPT ![f.file] =
                     Slice(old, 0, f.at) \o fill \o text \o Slice(old, f.at + Len(text), Len(old))]
     /\ desc' = [desc EXCEPT ![d].at = @ + Len(text)]
     /\ seen' = <<>>

Close(d) ==
  /\ desc' = [x \in DOMAIN desc \ {d} |-> desc[x]]
  /\ UNCHANGED file
  /\ seen' = <<>>

\* A call that fails, or has nothing to do.
Nothing == seen' = <<>> /\ UNCHANGED <<file, desc>>

\* What a shell command does, which closes what it opened: the file, old or new, holds
\* the text, or is shown.
Overwrite(n, text) == file' = [file EXCEPT ![n] = text] /\ UNCHANGED desc /\ seen' = <<>>
Show(n) == seen' = file[n] /\ UNCHANGED <<file, desc>>

Next ==
  \/ Nothing
  \/ \E text \in Wholes : Make(text) \/ \E n \in Files : Overwrite(n, text)
  \/ \E n \in Files : Truncate(n) \/ Show(n)
  \/ \E n \in 1..(Len(file) + 1) : Open(n)
  \/ \E d \in DOMAIN desc :
       \/ \E n \in 0..MaxRead : Read(d, n)
       \/ \E text \in Texts : Write(d, text)
       \/ Close(d)

Spec == Init /\ [][Next]_vars
================================================================================
