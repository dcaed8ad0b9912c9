------------------------------ MODULE MCConfig ------------------------------
(***************************************************************************)
(* Config for TLC: the arguments a command line is put together from.  The *)
(* values of the other constants are in the cfgs.                          *)
(***************************************************************************)
EXTENDS Config

Short(name, joined) == [dashes |-> 1, name |-> name, joined |-> joined]
Long_(name, joined) == [dashes |-> 2, name |-> name, joined |-> joined]
Bare(text) == [dashes |-> 0, name |-> NoName, joined |-> text]

(* -T, -T2, -T=2 (whose value is "=2"), --size_ratio, --size_ratio=, and    *)
(* so on.                                                                   *)
RatioArguments ==
  {Short("T", Absent), Short("T", Number(2)), Short("T", Junk),
   Long_("size_ratio", Absent), Long_("size_ratio", Blank),
   Long_("size_ratio", Number(10))}

SizeArguments ==
  {Short("P", Absent), Short("P", Number(0)), Short("P", Number(1200)),
   Short("B", Number(1200)), Short("E", Number(1200)),
   Short("M", Absent), Short("M", Number(8192)), Short("F", Number(8192)),
   Short("f", Number(2))}

PolicyArguments ==
  {Short("C", Number(0)), Short("C", Number(2)), Short("c", Number(65538)),
   Short("b", Number(0)), Long_("bb", Number(8)), Long_("bb", Number(600)),
   Long_("lowpri", Number(0))}

ReportArguments ==
  {Short("V", Number(1)), Long_("perf", Number(1)), Long_("iostat", Number(1)),
   Long_("stat", Number(1))}

(* Neither flags nor joined values: 5, a number no type holds, "", -, abc,  *)
(* -7, -- and two flags that do not exist.                                  *)
OtherArguments ==
  {Bare(Number(5)), Bare(Number(10 ^ 9)), Bare(Blank), Bare(Junk),
   Short(NoName, Absent), Short(Digit, Number(7)), Long_(NoName, Absent),
   Short("x", Absent), Long_("T", Number(4))}

MCChunks ==
  RatioArguments \cup SizeArguments \cup PolicyArguments
    \cup ReportArguments \cup OtherArguments
=============================================================================
