--------------------------- MODULE MCDemandPaging ---------------------------
(***************************************************************************)
(* DemandPaging with small scripts.  Pages have three lines and a turn of  *)
(* RR two, as in the code, so turns end in the middle of pages.            *)
(***************************************************************************)
EXTENDS DemandPaging

\* Scripts of no line, of less than a page, of a page and a part, of two
\* pages and a part; one that cannot be opened and one that cannot be copied.
MCFiles == {"none", "short", "mid", "long", "lost", "stuck"}
MCMissing == {"lost"}
MCUncopied == {"stuck"}
MCNumLines == [f \in MCFiles |-> CASE f = "short" -> 2
                                   [] f = "mid"   -> 5
                                   [] f = "long"  -> 7
                                   [] OTHER       -> 0]

NoCalls == [l \in Lines |-> <<>>]

\* The second line of mid starts a second process and fails on a third; the
\* last line of long starts two more, one of them without a line; the first
\* line of short cannot be copied, and its second quits the shell.
NestedCalls == [NoCalls EXCEPT ![<<"mid", 1>>]   = <<"long", "lost">>,
                               ![<<"long", 6>>]  = <<"none", "short">>,
                               ![<<"short", 0>>] = <<"stuck">>]
LongFromMid == [NoCalls EXCEPT ![<<"mid", 1>>] = <<"long">>]
ShortQuits == {<<"short", 1>>}
NoQuits == {}

Run(f) == [policy |-> "FCFS", files |-> <<f>>]
Exec(fs) == [policy |-> "RR", files |-> fs]

RunCommands == {Run(f) : f \in MCFiles}
PairCommands == {Exec(<<f, g>>) : f, g \in {"none", "short", "mid", "long"}}
NestingCommands == RunCommands
                     \cup {Exec(<<"mid", f>>) : f \in MCFiles}
                     \cup {Exec(<<"long", "mid", f>>) : f \in MCFiles}
TightCommands == RunCommands \cup PairCommands
RunMid == {Run("mid")}
=============================================================================
