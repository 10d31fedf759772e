------------------------------ MODULE LibraryDocs -----------------------------
(* What two comments say of searches whose code does something else, watched along *)
(* the calls of LibraryCalls.                                                    *)
EXTENDS LibraryCalls

VARIABLE broken     \* history: the statements that some answer did not keep

Statements == {"str_pos", "find_pattern_process"}

\* Ztring.h:33, "str_pos works now like the php function": it finds the first
\* occurrence wherever there is one.
PosFindsFirst ==
    result.call = "str_pos" =>
        LET places == {i \in 0 .. Len(result.of) : Occurs(result.arg, result.of, i)}
        IN  result.value = IF places = {} THEN -1 ELSE Min(places)

\* Win32Tools.c:983, "returns 0 on error": 0 is no answer but a failure.
ZeroMeansError ==
    result.call = "find_pattern_process" /\ result.value = 0 => ~ result.arg.copied

Broken ==
    {s \in Statements :
        \/ s = "str_pos" /\ ~ PosFindsFirst
        \/ s = "find_pattern_process" /\ ~ ZeroMeansError}

DocsInit == Init /\ broken = {}
DocsNext == Next /\ broken' = broken \cup Broken'
DocsSpec == DocsInit /\ [][DocsNext]_<<vars, broken>>

\* If one of the two comments were right, no caller would come to see both refuted.
\* Where this fails, its calls have refuted the one and then the other (Ztring.c:953,
\* Win32Tools.c:1005).
DocsRightSomewhere == broken # Statements
===============================================================================
