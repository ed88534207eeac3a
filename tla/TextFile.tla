------------------------------ MODULE TextFile ------------------------------
(***************************************************************************)
(* What src/a3/fs/file.h offers to the shell's commands: an open file is a *)
(* sequence of bytes with a position, which reads and writes move, and     *)
(* each call is answered at once.  Sectors are left out.                   *)
(***************************************************************************)
EXTENDS Integers, Sequences

CONSTANTS Texts,      \* texts that may be written
          Sizes,      \* sizes given to create and read
          Places      \* offsets given to seek

NUL == 0
Smaller(m, n) == IF m < n THEN m ELSE n

VARIABLES content,  \* the bytes of the file
          pos,      \* the position; bytes are counted from 0
          reply     \* the answer to the last call

vars == <<content, pos, reply>>

Zeros(n) == [i \in 1 .. n |-> NUL]
NoReply == [op |-> "none"]
Wrote(n) == [op |-> "wrote", n |-> n]
ReadBytes(b) == [op |-> "read", bytes |-> b]
Panicked == [op |-> "panic"]

\* The bytes of c with buffer b over them from offset `at` on; a gap between
\* the end of c and the buffer is filled with zeros.
Overlaid(c, at, b) ==
  [i \in 1 .. (IF at + Len(b) > Len(c) THEN at + Len(b) ELSE Len(c)) |->
     CASE i - at \in 1 .. Len(b) -> b[i - at]
       [] i - at \notin 1 .. Len(b) /\ i <= Len(c) -> c[i]
       [] OTHER -> NUL]

\* At most n bytes from offset `at` on.
Slice(c, at, n) == SubSeq(c, at + 1, Smaller(at + n, Len(c)))

Init == /\ \E n \in Sizes : content = Zeros(n)
        /\ pos = 0
        /\ reply = NoReply

\* A new file takes the place of the old one.
Create(n) == /\ content' = Zeros(n)
             /\ pos' = 0
             /\ reply' = NoReply

\* A text is written with two terminators, and the position stops at the
\* first, so that texts written in a row follow each other.
Write(t) == /\ pos >= 0
            /\ content' = Overlaid(content, pos, t \o <<NUL, NUL>>)
            /\ pos' = pos + Len(t)
            /\ reply' = Wrote(Len(t) + 2)

\* No room for a longer file, or the end of the text comes before the file:
\* nothing is written, but the position moves, and may become negative.
WriteFails(t) == /\ pos + Len(t) + 2 \notin 0 .. Len(content)
                 /\ pos' = pos - 2
                 /\ reply' = Wrote(0)
                 /\ UNCHANGED content

Read(n) == /\ pos >= 0 \/ n = 0
           /\ reply' = ReadBytes(Slice(content, pos, n))
           /\ pos' = pos + Len(reply'.bytes)
           /\ UNCHANGED content

\* cat and copy_out read all and leave the position where it was.
Dump == /\ reply' = IF pos < 0 THEN Panicked ELSE ReadBytes(content)
        /\ UNCHANGED <<content, pos>>

Seek(n) == /\ pos' = n
           /\ reply' = IF n < 0 THEN Panicked ELSE NoReply
           /\ UNCHANGED content

Close == Seek(0)

\* copy_in: a new file with the bytes of a host file and a terminator.
CopyIn(t) == /\ content' = Append(t, NUL)
             /\ pos' = Len(t) - 1
             /\ reply' = Wrote(Len(t) + 1)

\* defragment writes the file anew, with the same bytes.
Defragment == /\ pos' = Len(content) - 2
              /\ reply' = Wrote(Len(content))
              /\ UNCHANGED content

Next == \/ \E t \in Texts : Write(t) \/ WriteFails(t) \/ CopyIn(t)
        \/ \E n \in Sizes : Create(n) \/ Read(n)
        \/ \E n \in Places : Seek(n)
        \/ Close \/ Dump \/ Defragment

Spec == Init /\ [][Next]_vars
=============================================================================
