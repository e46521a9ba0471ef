------------------------------ MODULE Redaction ------------------------------
(***************************************************************************)
(* What of a process's command line and environment goes into a report     *)
(* (blankres-report: redact.rs), as operators.                             *)
(*                                                                         *)
(* Abstractions.  A word is what the rules look at: whether it starts with *)
(* a dash, has an equals sign, and has a secret marker before it or after  *)
(* it (a word without one is all name).  A variable is its name with the   *)
(* answers of the two lists.                                               *)
(***************************************************************************)
EXTENDS Integers, Sequences, FiniteSets

Word == {w \in [dash : BOOLEAN, assigned : BOOLEAN, secret_name : BOOLEAN, secret_value : BOOLEAN] :
            w.secret_value => w.assigned}

\* An argument as the process got it: its words, none if it is empty.
Argument == Seq(Word)

\* is_secret_name of the part before the equals sign, and of the whole.
SecretAssignment(w) == w.assigned /\ w.secret_name
SecretAnywhere(w) == w.secret_name \/ w.secret_value

\* scrub_command_line: the words after which redact_next is set.
Asks(w) == w.dash /\ SecretAnywhere(w) /\ ~SecretAssignment(w)

\* Bug variant: redact_next is not reset by the word it hides.
scrub_command_line_sticky(argv) ==
    [i \in DOMAIN argv |->
        IF \E j \in 1..(i - 1) : Asks(argv[j]) THEN "hidden"
        ELSE IF SecretAssignment(argv[i]) THEN "name" ELSE "shown"]

\* scrub_command_line, redact_next: whether a word is hidden for the one before
\* it.  One that is hidden does not ask for the next to be hidden.
redacted(argv) ==
    LET hidden[i \in 0..Len(argv)] == i > 1 /\ ~hidden[i - 1] /\ Asks(argv[i - 1])
    IN  hidden

\* scrub_command_line: what is left of every word.
scrub_command_line(argv) ==
    [i \in DOMAIN argv |->
        IF redacted(argv)[i] THEN "hidden" ELSE IF SecretAssignment(argv[i]) THEN "name" ELSE "shown"]

\* The block is split at the ends of the arguments and at the spaces in them
\* alike: what comes of it is words, and which of them were one argument is lost.
Words(block) ==
    LET words[i \in 0..Len(block)] == IF i = 0 THEN <<>> ELSE words[i - 1] \o block[i]
    IN  words[Len(block)]

scrub_cmdline_block(block) == scrub_command_line(Words(block))

\* An entry of the environment block; one without an equals sign is no variable.
Entry == [name : STRING, assigned : BOOLEAN, allowed : BOOLEAN, secret_name : BOOLEAN]

\* filter_environ_block, filter_environment.
Variables(block) == {e \in block : e.assigned}
Kept(block) == {e \in Variables(block) : e.allowed /\ ~e.secret_name}
Withheld(block) == Cardinality(Variables(block) \ Kept(block))
=============================================================================
