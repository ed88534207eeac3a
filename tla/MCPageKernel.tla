---------------------------- MODULE MCPageKernel ----------------------------
(***************************************************************************)
(* PageKernel with short scripts over few frames.                          *)
(***************************************************************************)
EXTENDS PageKernel

Say == [op |-> "say"]
Blank == [op |-> "blank"]
Set(v) == [op |-> "set", var |-> v, value |-> 1]
Reset == [op |-> "resetmem"]
Quit == [op |-> "quit"]
RunRm == [op |-> "one"]
Exec(scripts) == [op |-> "exec", scripts |-> scripts]

Says(n) == [i \in 1 .. n |-> Say]

\* Proper scripts of one line, of a page and a part, of two pages (quitting
\* and setting a variable on the way), and of four pages; a missing one; and
\* improper ones: empty, ended by a newline, with a blank line, with a
\* command that returns 1, and with a nested exec.
MCLines == [line    |-> <<Set("x")>>,
            five    |-> Says(5),
            six     |-> <<Say, Quit, Set("y"), Say, Say, Say>>,
            ten     |-> Says(10),
            missing |-> <<>>,
            empty   |-> <<>>,
            newline |-> Says(3),
            blank   |-> <<Say, Blank, Say, Say>>,
            rm      |-> <<RunRm, Say, Say, Say, Say>>,
            nesting |-> <<Say, Exec(<<"line">>), Say>>]
MCScripts == DOMAIN MCLines
MCMissing == {"missing"}
MCTerminated == {"newline"}
MCVars == {"x", "y", "z", NoVar}

Proper == {"line", "five", "six", "ten"}
Improper == {"empty", "newline", "blank", "rm", "nesting"}

MCTyped == {<<Exec(<<s>>)>> : s \in MCScripts}
             \cup {<<Exec(<<s, t>>)>> : s, t \in Proper}
             \cup {<<Exec(<<s, t>>)>> : s \in Improper, t \in {"five", "ten"}}
             \cup {<<c>> : c \in {Set("x"), Set("y"), Set("z"), Set(NoVar), Reset, Quit}}
             \cup {<<Set("x"), Exec(<<"five">>), Reset>>}
TypedVars == {<<Set("x")>>, <<Exec(<<"ten">>)>>}
=============================================================================
