--------------------------- MODULE SignatureRules ---------------------------
(***************************************************************************)
(* How a crash gets its signature, the key the server groups crashes by    *)
(* (blankres-report: signature.rs), as operators on the message that       *)
(* systemd-coredump logs.                                                  *)
(*                                                                         *)
(* Abstractions.  A line of the message is one of a few kinds, and a line  *)
(* of a frame is a record of what is printed in it.  A name is a value     *)
(* with the attributes the rules look at: its lower-case form, whether it  *)
(* starts like a noise frame, what stands before its first plus sign; none *)
(* begins with one.  A directory is a value with what is left of a         *)
(* location in it that is cut at a plus sign of the directory's.  The hash *)
(* is the tuple that is hashed: SHA-256 does not collide, and the parts    *)
(* are separated by a byte no part contains.                               *)
(***************************************************************************)
EXTENDS Integers, Sequences

CONSTANTS
    Name,               \* names of functions and modules
    Lower,              \* Lower[n]: n in lower case
    Stem,               \* Stem[n]: n up to its first plus sign
    Directory,          \* directories of modules
    Cut,                \* Cut[d]: last component of what stands in d before its first plus sign, or None
    NoisePrefixed,      \* lower-case names that begin with one of NOISE_PREFIXES
    SIGNIFICANT_FRAMES  \* frames that are hashed

None == ""              \* no function, no module
NotApplicable == "n/a"  \* what systemd prints for a function it does not know
NoOffset == -1
NoVersion == 0

ASSUME NameAssumption ==
    /\ {None, NotApplicable, "??"} \subseteq Name
    /\ NoisePrefixed \subseteq Name \ {None, NotApplicable, "??"}
    /\ Lower \in [Name -> Name] /\ Stem \in [Name -> Name]
    /\ \A n \in {None, NotApplicable} : Lower[n] = n /\ Stem[n] = n
    /\ \A n \in Name : Stem[n] = None => n = None
ASSUME DirectoryAssumption ==
    None \in Directory /\ Cut \in [Directory -> Name] /\ Cut[None] = None
ASSUME SignificantAssumption == SIGNIFICANT_FRAMES \in Nat \ {0}

-----------------------------------------------------------------------------
(* parse_journal_stack_trace *)

Symbols == [name : Name, shift : Nat]
NoSymbol == [name |-> None, shift |-> 0]

\* A frame as it is parsed, and a line it is parsed from:
\* `#N 0xADDR name+shift (dir/name + 0xoffset)`.
Frames == [function : Symbols, module : Name, module_offset : Nat \cup {NoOffset}]
Location == [dir : Directory, name : Name, offset : Nat \cup {NoOffset}]

\* A line that parse_frame makes a frame of.
IsFrame(line) == line.kind = "frame"

\* The location is cut at its first plus sign, and what is left of it is taken
\* for the path of the module, whose last component is its name: if the plus sign
\* is the directory's, that is a directory's name.
ModuleOf(location) == IF Cut[location.dir] # None THEN Cut[location.dir] ELSE Stem[location.name]

\* The first plus sign is not the one before the offset: what follows it is no
\* hexadecimal number.
PlusInPath(location) == Cut[location.dir] # None \/ Stem[location.name] # location.name

FrameOf(line, offset) ==
    [function |-> IF line.symbol.name \in {None, NotApplicable} /\ line.symbol.shift = 0
                  THEN NoSymbol ELSE line.symbol,
     module |-> ModuleOf(line.location),
     module_offset |-> IF PlusInPath(line.location) THEN NoOffset ELSE offset]

\* Bug variant: the absolute address is taken for the offset.
parse_frame_absolute(line) == FrameOf(line, line.address)

\* parse_frame: the number, the address and the directory are dropped.
parse_frame(line) == FrameOf(line, line.location.offset)

\* A line inside a block that ends it: the next block, a blank line, or one that
\* is no frame and does not begin with `#`.
EndsBlock(line) == line.kind \in {"header", "blank", "text"}

First(S) == CHOOSE i \in S : \A j \in S : i <= j

\* The frames of some lines; what begins with `#` and is no frame is passed over.
FramesIn(lines) ==
    LET frames[i \in 0..Len(lines)] ==
            IF i = 0 THEN <<>>
            ELSE IF IsFrame(lines[i]) THEN Append(frames[i - 1], parse_frame(lines[i])) ELSE frames[i - 1]
    IN  frames[Len(lines)]

\* parse_journal_stack_trace: the frames of the first block, the crashing thread's.
parse_journal_stack_trace(message) ==
    LET headers == {i \in DOMAIN message : message[i].kind = "header"}
        start == First(headers)
        ends == {i \in DOMAIN message : i > start /\ EndsBlock(message[i])}
        block == SubSeq(message, start + 1, IF ends = {} THEN Len(message) ELSE First(ends) - 1)
    IN  IF headers = {} THEN <<>> ELSE FramesIn(block)

-----------------------------------------------------------------------------
(* Signature *)

Unknown == [name |-> "??", offset |-> NoOffset]

\* Frame::normalized: the function without what follows its plus sign, else the
\* module and the offset in it.
normalized(frame) ==
    IF frame.function.name \notin {None, NotApplicable}
    THEN [name |-> Lower[frame.function.name], offset |-> NoOffset]
    ELSE IF frame.module # None
    THEN [name |-> Lower[frame.module], offset |-> frame.module_offset]
    ELSE Unknown

is_noise(n) == n.name \in NoisePrefixed

Lesser(a, b) == IF a <= b THEN a ELSE b

\* The frames that are hashed: the first few after the leading noise, or after
\* nothing when there is nothing else.
Significant(frames) ==
    LET names == [i \in DOMAIN frames |-> normalized(frames[i])]
        real == {i \in DOMAIN names : ~is_noise(names[i])}
        first == IF real = {} THEN 1 ELSE First(real)
    IN  SubSeq(names, first, Lesser(first + SIGNIFICANT_FRAMES - 1, Len(names)))

\* Signature::coarse.
coarse(executable, signal, version) ==
    [precision |-> "coarse", executable |-> executable, signal |-> signal,
     frames |-> <<>>, version |-> version]

\* Bug variant: the leading noise is hashed as well.
from_frames_noisy(frames, signal, executable) ==
    [precision |-> "precise", executable |-> executable, signal |-> signal,
     frames |-> SubSeq([i \in DOMAIN frames |-> normalized(frames[i])], 1,
                       Lesser(SIGNIFICANT_FRAMES, Len(frames))),
     version |-> NoVersion]

\* Signature::from_frames.
from_frames(frames, signal, executable) ==
    IF Significant(frames) = <<>> THEN coarse(executable, signal, NoVersion)
    ELSE [precision |-> "precise", executable |-> executable, signal |-> signal,
          frames |-> Significant(frames), version |-> NoVersion]
=============================================================================
