--------------------------- MODULE ArgumentParser ---------------------------
(***************************************************************************)
(* The command line as args::ArgumentParser (args.hxx) reads it with the   *)
(* flags of parse_arguments (parse_arguments.h): ParseCLI resets the flags *)
(* and Parse takes the arguments one after the other.                      *)
(*                                                                         *)
(* All flags are ValueFlags in a DontCare group, none required, single or  *)
(* kicking out; there are no commands, positionals, help or completion     *)
(* flags, so those branches of Parse, Match and Validate are never taken.  *)
(*                                                                         *)
(* A chunk (an argument) is [dashes, name, joined]: its leading dashes,    *)
(* what is between them and its value, and the value joined to it (after   *)
(* the letter of a short flag, after the "=" of a long one).  A chunk with *)
(* no dashes is all value.  Text is known by what an istringstream makes   *)
(* of it; int and long are scaled down to UIntBits and LongBits bits.      *)
(***************************************************************************)
EXTENDS Integers, SequencesExt

CONSTANTS
  UIntBits,   \* bits of an int or unsigned int
  LongBits,   \* bits of a long or size_t
  Chunks,     \* bound: the arguments tried
  MaxArgs     \* bound: arguments on a command line

ASSUME WidthAssumption ==
  UIntBits \in Nat \ {0} /\ LongBits \in Nat /\ UIntBits < LongBits

(* What arithmetic says of the powers of 2 below.                           *)
ASSUME PowersAssumption ==
  /\ 2 ^ (UIntBits - 1) \in Nat \ {0}
  /\ 2 ^ UIntBits = 2 * 2 ^ (UIntBits - 1)
  /\ 2 ^ UIntBits <= 2 ^ (LongBits - 1)
  /\ 2 ^ LongBits = 2 * 2 ^ (LongBits - 1)

VARIABLES
  argv,        \* the arguments, without the name of the program
  at,          \* Parse's iterator
  terminated,  \* Parse: "--" was seen
  matched,     \* flags that are Matched()
  value,       \* the value of each flag
  status       \* "parsing", "parsed" or "ParseError"

parserVars == <<argv, at, terminated, matched, value, status>>

-----------------------------------------------------------------------------
(* Text and chunks.                                                        *)

Number(n) == [kind |-> "number", n |-> n]   \* "12", "+12", "12 "
Blank == [kind |-> "blank", n |-> 0]        \* "", "  "
Sign == [kind |-> "sign", n |-> 0]          \* "-", "+"
Junk == [kind |-> "junk", n |-> 0]          \* "abc", "12abc", "4.5", "=4"
Absent == [kind |-> "absent", n |-> 0]

Text ==
  {text \in [kind : {"number", "blank", "sign", "junk", "absent"}, n : Int] :
     text.kind # "number" => text.n = 0}

Digit == "#"   \* the name of a chunk that is a dash and a number
NoName == "-"  \* the name of a chunk that has none

ASSUME ChunksAssumption ==
  Chunks \subseteq [dashes : 0 .. 2, name : STRING, joined : Text]

(* The whole chunk, as a value.                                             *)
Whole(c) ==
  CASE c.dashes = 0 -> c.joined
    [] c.dashes = 1 /\ c.name = NoName -> Sign
    [] c.dashes = 1 /\ c.name = Digit -> Number(-c.joined.n)
    [] OTHER -> Junk

IsTerminator(c) == c.dashes = 2 /\ c.name = NoName /\ c.joined = Absent

HasMoreThanDashes(c) == c.name # NoName \/ c.joined # Absent

ParseOption(c) ==
  CASE c.dashes = 2 /\ HasMoreThanDashes(c) -> "LongFlag"
    [] c.dashes = 2 \/ (c.dashes = 1 /\ HasMoreThanDashes(c)) -> "ShortFlag"
    [] OTHER -> "Positional"

-----------------------------------------------------------------------------
(* The flags.                                                              *)

(* The letters and the names of each flag, with their dashes.               *)
Matchers ==
  [d |-> {<<1, "d">>, <<2, "destroy">>},
   cc |-> {<<2, "cc">>},
   T |-> {<<1, "T">>, <<2, "size_ratio">>},
   P |-> {<<1, "P">>, <<2, "buffer_size_in_pages">>},
   B |-> {<<1, "B">>, <<2, "entries_per_page">>},
   E |-> {<<1, "E">>, <<2, "entry_size">>},
   M |-> {<<1, "M">>, <<2, "memory_size">>},
   f |-> {<<1, "f">>, <<2, "file_to_memtable_size_ratio">>},
   F |-> {<<1, "F">>, <<2, "file_size">>},
   c |-> {<<1, "c">>, <<2, "compaction_pri">>},
   C |-> {<<1, "C">>, <<2, "compaction_style">>},
   b |-> {<<1, "b">>, <<2, "bits_per_key">>},
   bb |-> {<<2, "bb">>},
   perf |-> {<<2, "perf">>},
   iostat |-> {<<2, "iostat">>},
   stat |-> {<<2, "stat">>},
   progress |-> {<<2, "progress">>},
   V |-> {<<1, "V">>, <<2, "verbosity">>},
   peroptime |-> {<<2, "peroptime">>},
   totaltime |-> {<<2, "totaltime">>},
   lowpri |-> {<<2, "lowpri">>}]

Flags == DOMAIN Matchers

LongFlags == {"M", "F"}   \* ValueFlag<long>; the others are ValueFlag<int>

NumberOfArguments == 1   \* at least and at most, of a ValueFlag

(* The name a chunk has between its dashes and its value.                   *)
EitherFlag(c) == <<c.dashes, c.name>>

Matches(f, c) == EitherFlag(c) \in Matchers[f]

Match(c) == {f \in Flags : Matches(f, c)}

Width(f) == IF f \in LongFlags THEN LongBits ELSE UIntBits

(* What >> stores of a number: the nearest one the type holds.              *)
Clamp(f, n) ==
  LET bound == 2 ^ (Width(f) - 1)
  IN  CASE n >= bound -> bound - 1
        [] n < -bound -> -bound
        [] OTHER -> n

(* Mutant of Read: a number that does not fit wraps around.                 *)
ReadWrapped(f, text, old) ==
  CASE text.kind = "number" -> text.n % 2 ^ Width(f)
    [] text.kind = "blank" -> old
    [] OTHER -> 0

(* The reader: >> finds nothing to convert in a blank and leaves the flag   *)
(* its value; it stores 0 when it fails on a sign.                          *)
Read(f, text, old) ==
  CASE text.kind = "number" -> Clamp(f, text.n)
    [] text.kind = "blank" -> old
    [] OTHER -> 0

(* Mutant of Readable: the leftovers are not looked at.                     *)
ReadableAnyway(text) == TRUE

(* The reader throws only if characters are left, not when >> has failed.   *)
Readable(text) == text.kind # "junk"

-----------------------------------------------------------------------------
(* Parse.                                                                  *)

chunk == argv[at]

Reading == status = "parsing" /\ at <= Len(argv)

(* The values of the flag: the one joined to it, else the next argument     *)
(* whatever it looks like, as the flag takes no fewer.                      *)
ParseArgsValues ==
  IF chunk.joined # Absent
  THEN <<chunk.joined>>
  ELSE [i \in 1 .. Min({NumberOfArguments, Len(argv) - at}) |->
          Whole(argv[at + i])]

Throw ==
  /\ status' = "ParseError"
  /\ UNCHANGED <<at, value>>

ParseValue(f, text) ==
  /\ value' = [value EXCEPT ![f] = Read(f, text, @)]
  /\ at' = at + (IF chunk.joined # Absent THEN 1 ELSE 2)
  /\ UNCHANGED status

(* The flag that matches counts as given from then on.                      *)
Mark == matched' = matched \cup Match(chunk)

(* ParseLong and ParseShort: an unknown flag, a missing value or one that   *)
(* cannot be read throws.  As every flag takes a value, the loop of         *)
(* ParseShort over the letters of a cluster stops at the first.             *)
ParseFlag(option) ==
  /\ Reading /\ ~terminated /\ ~IsTerminator(chunk)
  /\ ParseOption(chunk) = option
  /\ Mark
  /\ \/ \E f \in Match(chunk) : \E text \in Range(ParseArgsValues) :
          Readable(text) /\ ParseValue(f, text)
     \/ /\ \/ Match(chunk) = {}
           \/ ~\E text \in Range(ParseArgsValues) : Readable(text)
        /\ Throw
  /\ UNCHANGED <<argv, terminated>>

ParseLong == ParseFlag("LongFlag")

ParseShort == ParseFlag("ShortFlag")

Terminate ==
  /\ Reading /\ ~terminated /\ IsTerminator(chunk)
  /\ terminated' = TRUE /\ at' = at + 1
  /\ UNCHANGED <<argv, matched, value, status>>

(* No positional is ready for it.                                           *)
ParsePositional ==
  /\ Reading
  /\ terminated \/ ParseOption(chunk) = "Positional"
  /\ Throw
  /\ UNCHANGED <<argv, terminated, matched>>

(* Validate finds nothing wrong: no flag is required, the group is matched. *)
Finish ==
  /\ status = "parsing" /\ at > Len(argv)
  /\ status' = "parsed"
  /\ UNCHANGED <<argv, at, terminated, matched, value>>

Reset ==
  /\ at = 1 /\ terminated = FALSE
  /\ matched = {}
  /\ value = [f \in Flags |-> 0]

ParserInit ==
  /\ argv \in BoundedSeq(Chunks, MaxArgs)
  /\ Reset
  /\ status = "parsing"

ParseCLI == ParseLong \/ ParseShort \/ Terminate \/ ParsePositional \/ Finish

-----------------------------------------------------------------------------
(* Properties.                                                             *)

ParserTypeOK ==
  /\ at \in 1 .. Len(argv) + 1
  /\ terminated \in BOOLEAN
  /\ matched \subseteq Flags
  /\ \A f \in Flags :
       value[f] \in -(2 ^ (Width(f) - 1)) .. 2 ^ (Width(f) - 1) - 1
  /\ status \in {"parsing", "parsed", "ParseError"}

(* The flags of a command line, read off it at once: the arguments where a  *)
(* flag starts, which are those that are not the value of the one before.   *)
Starts ==
  CHOOSE S \in SUBSET (1 .. Len(argv)) :
    \A i \in 1 .. Len(argv) :
      i \in S <=>
        i = 1 \/ i - 1 \notin S \/ argv[i - 1].joined # Absent
              \/ IsTerminator(argv[i - 1])

TextAt(i) ==
  IF argv[i].joined # Absent THEN argv[i].joined ELSE Whole(argv[i + 1])

(* What the reader has stored is what the user spelled: a flag counts as    *)
(* given if and only if it is on the command line, and has the last value   *)
(* that was spelled for it, cut to what its type holds; one never spelled   *)
(* (not given, or only blanks) is 0.                                        *)
ReadAsSpelled ==
  status = "parsed" =>
    \A f \in Flags :
      LET given == {i \in Starts : f \in Match(argv[i])}
          spelled == {i \in given : TextAt(i) # Blank}
      IN  /\ f \in matched <=> given # {}
          /\ value[f] =
               IF spelled = {} THEN 0 ELSE Clamp(f, TextAt(Max(spelled)).n)

(* A separate value is taken whatever it looks like, and yet no flag is     *)
(* lost that way: in a command line that is accepted, every argument that   *)
(* spells a flag was matched as one, since as a value it cannot be read.    *)
NoFlagSwallowed ==
  status = "parsed" =>
    \A i \in 1 .. Len(argv) :
      Match(argv[i]) # {} => i \in Starts /\ Match(argv[i]) \subseteq matched

=============================================================================
