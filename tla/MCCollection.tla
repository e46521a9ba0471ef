---------------------------- MODULE MCCollection ----------------------------
(***************************************************************************)
(* Collection for TLC.  A crash varies in one thing at a time: its trace,  *)
(* the sizes of its fields and what is mapped, its command line or its     *)
(* environment.                                                            *)
(***************************************************************************)
EXTENDS Collection

Versions == [p \in Package |-> IF p = "app" THEN 2 ELSE 1]

Names == {"", "n/a", "??", "draw", "Draw", "fill", "abort", "abort_job", "app", "lib", "libx++", "libx", "c"}
LowerCase == [n \in Names |-> IF n = "Draw" THEN "draw" ELSE n]
StemOf == [n \in Names |-> IF n = "libx++" THEN "libx" ELSE n]

Directories == {"", "/usr/lib", "/lib", "/opt/c++"}
CutOf == [d \in Directories |-> IF d = "/opt/c++" THEN "c" ELSE ""]
Everywhere(d) == [n \in Names |-> d]

In(function, module, offset) == [function |-> function, shift |-> 0, module |-> module, offset |-> offset]
Shifted(frame) == [frame EXCEPT !.shift = 1]

Plain == [executable |-> "app", signal |-> 11, stack |-> <<In("draw", "app", 1)>>, others |-> <<>>,
          base |-> 0, dir |-> Everywhere("/usr/lib"), message_size |-> 1, saved |-> TRUE,
          maps |-> <<"app">>, maps_size |-> 1, status_size |-> 1, args |-> <<>>, environ |-> {}]

Abort == In("abort", "lib", 5)
Stacks ==
    {<<>>,
     <<Abort>>,
     <<In("draw", "app", 1), In("fill", "app", 2), In("draw", "lib", 3)>>,
     <<Abort, In("Draw", "app", 1), Shifted(In("fill", "app", 3))>>,
     <<Abort, In("fill", "app", 2)>>,
     <<In("abort_job", "app", 4), In("fill", "app", 2)>>,
     <<In("", "lib", 1), In("", "app", 1)>>,
     <<In("", "lib", 2), In("", "app", 1)>>}
Unnamed == {<<In("", "libx++", 1)>>, <<In("", "libx++", 2)>>, <<In("", "abort_job", 1), In("fill", "app", 2)>>}

\* The traces, each of them once more at another address, in another directory
\* and with another thread; two in a directory with a plus sign; another signal; a
\* message too long to be printed; a program of no package.
Traces ==
    LET base == [Plain EXCEPT !.saved = FALSE]
    IN  {[base EXCEPT !.stack = s] : s \in Stacks \cup Unnamed}
            \cup {[base EXCEPT !.stack = s, !.base = 9, !.dir = Everywhere("/lib"), !.others = <<In("fill", "lib", 7)>>] :
                    s \in Stacks}
            \cup {[base EXCEPT !.stack = <<In("", m, 1)>>, !.dir = Everywhere("/opt/c++")] : m \in {"app", "lib"}}
            \cup {[base EXCEPT !.signal = 6], [base EXCEPT !.message_size = 3]}
            \cup {[base EXCEPT !.executable = "local", !.stack = s] : s \in {<<>>, <<Abort>>}}

\* Fields within the limit and beyond it; libraries that fit the cap of two
\* files and that do not.
Sizes ==
    {[Plain EXCEPT !.maps_size = m, !.status_size = s, !.maps = f, !.saved = (s = 1)] :
        m \in {2, 3}, s \in {1, 2}, f \in {<<"lib", "app">>, <<"lib", "local", "app">>}}
    \cup {[Plain EXCEPT !.executable = "local", !.maps = <<"local", "lib">>]}

Flag == [dash |-> TRUE, assigned |-> FALSE, secret_name |-> TRUE, secret_value |-> FALSE]
Assigned == [Flag EXCEPT !.assigned = TRUE]
Suspect == [Assigned EXCEPT !.secret_name = FALSE, !.secret_value = TRUE]
Bare == [Flag EXCEPT !.dash = FALSE]
\* Flags and words in any order; assignments; a value with a space in it, assigned
\* or quoted behind a flag; a flag, an empty argument and a value.
CommandLines ==
    {[Plain EXCEPT !.args = a] :
        a \in [1..3 -> {<<Flag>>, <<Bare>>}]
             \cup {<<<<Assigned>>, <<Flag>>, <<Assigned>>>>, <<<<Suspect>>, <<Flag>>, <<Bare>>>>,
                   <<<<Assigned, Bare>>>>, <<<<Flag>>, <<Bare, Flag>>, <<Bare>>>>, <<<<Flag>>, <<>>, <<Bare>>>>}}

Entries ==
    {[name |-> "LANG", assigned |-> TRUE, allowed |-> TRUE, secret_name |-> FALSE],
     [name |-> "XDG_SESSION_TYPE", assigned |-> TRUE, allowed |-> TRUE, secret_name |-> TRUE],
     [name |-> "HOME", assigned |-> TRUE, allowed |-> FALSE, secret_name |-> FALSE],
     [name |-> "LC_ALL", assigned |-> FALSE, allowed |-> TRUE, secret_name |-> FALSE]}
Environments == {[Plain EXCEPT !.environ = e] : e \in {{}, Entries}}

Crashes == Traces \cup Sizes \cup CommandLines \cup Environments

\* The second crash is there to be compared with the first: its report, which
\* the first one's has nothing to do with, is not followed again.
SecondIsCompared == handled = 2 => crash \in Traces /\ pc = "assemble" /\ ~event.late

\* The budgets and the verification look at what is in Sizes alone.  The other
\* crashes stay within the budgets and are refused.
OthersAreRefused ==
    crash \in Sizes \cup {NoCrash} \/ (~event.late /\ ~late /\ pc \notin {"verify", "hash"})

\* Between the crashes dpkg comes to rest: while it works the signature of a crash
\* without a trace is not compared, and that of one with a trace does not differ.
\* The traces, and nothing else, come without a core: they are compared.
ComparedAtRest == handled = 1 /\ pc = "watch" => dpkg = Idle /\ core = "none"

\* What is installed besides the program is of no account to its signature.
OneProgram == crash \in Traces => content["lib"] = NotThere

Followed == SecondIsCompared /\ OthersAreRefused /\ ComparedAtRest /\ OneProgram
=============================================================================
