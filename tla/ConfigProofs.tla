---------------------------- MODULE ConfigProofs ----------------------------
(***************************************************************************)
(* Proofs about the command line and the configuration, for command lines  *)
(* of any length, any arguments and any widths of the integers.            *)
(***************************************************************************)
EXTENDS Config, TLAPS

-----------------------------------------------------------------------------
(* The text of the arguments.                                              *)

LEMMA PowersType ==
  \A f : /\ Width(f) \in Nat /\ 2 ^ (Width(f) - 1) \in Nat
         /\ 2 ^ (Width(f) - 1) > 0
<1>1. 2 ^ (LongBits - 1) \in Nat /\ 2 ^ (LongBits - 1) > 0
  <2>1. 2 ^ UIntBits \in Nat /\ 2 ^ UIntBits > 0
    BY PowersAssumption
  <2>2. 2 ^ (LongBits - 1) \in Int
    BY WidthAssumption
  <2> QED
    BY <2>1, <2>2, PowersAssumption
<1>2. 2 ^ (UIntBits - 1) \in Nat /\ 2 ^ (UIntBits - 1) > 0
  BY PowersAssumption
<1> QED
  BY <1>1, <1>2, WidthAssumption DEF Width

(* No flag is matched by an argument without a name, or by a number.        *)
LEMMA FlagsSpelled ==
  ASSUME NEW c \in Chunks, Match(c) # {}
  PROVE  c.dashes \in {1, 2} /\ c.name # NoName /\ c.name # Digit
<1>1. ASSUME NEW f \in Flags, NEW n
      PROVE  <<n, NoName>> \notin Matchers[f] /\ <<n, Digit>> \notin Matchers[f]
  <2>1. <<n, NoName>> \notin Matchers[f]
    BY DEF Flags, Matchers, NoName
  <2>2. <<n, Digit>> \notin Matchers[f]
    BY DEF Flags, Matchers, Digit
  <2> QED
    BY <2>1, <2>2
<1>2. ASSUME NEW f \in Flags, NEW n, NEW name, <<n, name>> \in Matchers[f]
      PROVE  n \in {1, 2}
  BY <1>2 DEF Flags, Matchers
<1> QED
  BY <1>1, <1>2 DEF Match, Matches, EitherFlag

(* An argument spells one flag at most.                                     *)
LEMMA FlagsDistinct ==
  ASSUME NEW c, NEW f \in Match(c), NEW g \in Match(c)
  PROVE  f = g
<1>1. ASSUME NEW a \in Flags, NEW b \in Flags, NEW p \in Matchers[a],
             p \in Matchers[b]
      PROVE  a = b
  BY <1>1 DEF Flags, Matchers
<1> QED
  BY <1>1 DEF Match, Matches

LEMMA ClampCases ==
  ASSUME NEW f, NEW n \in Int
  PROVE  LET bound == 2 ^ (Width(f) - 1)
         IN  /\ n >= bound => Clamp(f, n) = bound - 1
             /\ n < - bound => Clamp(f, n) = - bound
             /\ n \in - bound .. bound - 1 => Clamp(f, n) = n
             /\ Clamp(f, n) \in - bound .. bound - 1
<1>1. PICK bound \in Nat : bound = 2 ^ (Width(f) - 1) /\ bound > 0
  BY PowersType
<1>2. n >= bound /\ ~ (n < - bound) => Clamp(f, n) = bound - 1
  BY <1>1, Zenon DEF Clamp
<1>3. ~ (n >= bound) /\ n < - bound => Clamp(f, n) = - bound
  BY <1>1, Zenon DEF Clamp
<1>4. ~ (n >= bound) /\ ~ (n < - bound) => Clamp(f, n) = n
  BY <1>1, Zenon DEF Clamp
<1> QED
  BY <1>1, <1>2, <1>3, <1>4

LEMMA ReadCases ==
  ASSUME NEW f, NEW text, NEW old
  PROVE  /\ text.kind = "number" => Read(f, text, old) = Clamp(f, text.n)
         /\ text.kind = "blank" => Read(f, text, old) = old
         /\ text.kind \notin {"number", "blank"} => Read(f, text, old) = 0
<1>1. "number" # "blank"
  OBVIOUS
<1> QED
  BY <1>1, Zenon DEF Read

LEMMA WholeCases ==
  ASSUME NEW c
  PROVE  /\ c.dashes = 0 => Whole(c) = c.joined
         /\ c.dashes = 1 /\ c.name = NoName => Whole(c) = Sign
         /\ c.dashes = 1 /\ c.name = Digit => Whole(c) = Number(- c.joined.n)
         /\ c.dashes \in {1, 2} /\ c.name # NoName /\ c.name # Digit
              => Whole(c) = Junk
         /\ c.dashes = 2 => Whole(c) = Junk
<1>1. c.dashes = 0 /\ c.dashes # 1 => Whole(c) = c.joined
  BY Zenon DEF Whole
<1>2. c.dashes # 0 /\ c.dashes = 1 /\ c.name = NoName /\ c.name # Digit
        => Whole(c) = Sign
  BY Zenon DEF Whole
<1>3. c.dashes # 0 /\ c.dashes = 1 /\ c.name # NoName /\ c.name = Digit
        => Whole(c) = Number(- c.joined.n)
  BY Zenon DEF Whole
<1>4. c.dashes # 0 /\ c.name # NoName /\ c.name # Digit => Whole(c) = Junk
  BY Zenon DEF Whole
<1>5. c.dashes # 0 /\ c.dashes # 1 => Whole(c) = Junk
  BY Zenon DEF Whole
<1>6. /\ c.dashes = 0 => c.dashes # 1
      /\ c.dashes = 1 => c.dashes # 0
      /\ c.dashes = 2 => c.dashes # 0 /\ c.dashes # 1
      /\ c.dashes \in {1, 2} => c.dashes # 0
  OBVIOUS
<1>7. NoName # Digit
  BY DEF NoName, Digit
<1> QED
  BY <1>1, <1>2, <1>3, <1>4, <1>5, <1>6, <1>7, Zenon

LEMMA WholeText ==
  ASSUME NEW c \in Chunks
  PROVE  /\ Whole(c) \in Text
         /\ Match(c) # {} => Whole(c) = Junk
<1>1. c.dashes \in {0, 1, 2} /\ c.joined \in Text
  BY ChunksAssumption
<1>2. CASE c.dashes = 0
  <2>1. Match(c) = {}
    BY <1>2, FlagsSpelled
  <2> QED
    BY <1>1, <1>2, <2>1, WholeCases
<1>3. Junk \in Text /\ Sign \in Text /\ Number(- c.joined.n) \in Text
  BY <1>1 DEF Junk, Sign, Number, Text
<1>4. CASE c.dashes \in {1, 2}
  <2>1. Whole(c) \in {Junk, Sign, Number(- c.joined.n)}
    BY <1>4, WholeCases
  <2>2. Match(c) # {} => Whole(c) = Junk
    BY <1>4, FlagsSpelled, WholeCases
  <2> QED
    BY <1>3, <2>1, <2>2
<1> QED
  BY <1>1, <1>2, <1>4

-----------------------------------------------------------------------------
(* The inductive invariant of the parser.                                  *)

StartsAt(S, i) ==
  \/ i = 1
  \/ i - 1 \notin S
  \/ argv[i - 1].joined # Absent
  \/ IsTerminator(argv[i - 1])

(* S is where flags start among the first n arguments.                      *)
Followed(S, n) == \A i \in 1 .. n : i \in S <=> StartsAt(S, i)

(* What has been read before argument n started flags at S, and nothing     *)
(* else could: so the walk itself shows that Starts exists.                 *)
Walked(S, n) ==
  /\ S \subseteq 1 .. n - 1
  /\ Followed(S, n - 1)
  /\ StartsAt(S, n)
  /\ \A O \in SUBSET (1 .. Len(argv)) :
       Followed(O, Len(argv)) => O \cap (1 .. n - 1) = S

FlagAt(f, S) == {i \in S : f \in Match(argv[i])}

SpelledAt(f, S) == {i \in FlagAt(f, S) : TextAt(i) # Blank}

(* The flags that start at S are those that have been matched, and their    *)
(* last values those they have.                                             *)
Stored(S) ==
  \A f \in Flags :
    /\ f \in matched <=> FlagAt(f, S) # {}
    /\ value[f] = IF SpelledAt(f, S) = {} THEN 0
                  ELSE Clamp(f, TextAt(Max(SpelledAt(f, S))).n)

ReadSoFar ==
  status # "ParseError" =>
    \E S \in SUBSET (1 .. Len(argv)) :
      /\ Walked(S, at)
      /\ \A i \in 1 .. at - 1 : Match(argv[i]) # {} => i \in S
      /\ Stored(S)

ParserInv ==
  /\ argv \in Seq(Chunks)
  /\ value \in [Flags -> Int]
  /\ ParserTypeOK
  /\ ReadSoFar
  /\ status = "parsed" => at = Len(argv) + 1

-----------------------------------------------------------------------------
(* One step of the walk over the arguments.                                *)

LEMMA MinOne ==
  ASSUME NEW n \in Nat
  PROVE  Min({NumberOfArguments, n}) = IF n = 0 THEN 0 ELSE 1
<1> DEFINE m == IF n = 0 THEN 0 ELSE 1
<1>1. m \in {1, n} /\ \A y \in {1, n} : m <= y
  OBVIOUS
<1>2. \A x \in {1, n} : (\A y \in {1, n} : x <= y) => x = m
  OBVIOUS
<1> QED
  BY <1>1, <1>2 DEF Min, NumberOfArguments

(* The value of the flag that starts at n, and where the walk goes on.      *)
LEMMA ValueText ==
  ASSUME argv \in Seq(Chunks), at \in 1 .. Len(argv),
         NEW text \in Range(ParseArgsValues)
  PROVE  /\ text = TextAt(at) /\ text \in Text
         /\ chunk.joined = Absent =>
              at + 1 <= Len(argv) /\ text = Whole(argv[at + 1])
<1>1. CASE chunk.joined # Absent
  <2>1. ParseArgsValues = <<chunk.joined>>
    BY <1>1 DEF ParseArgsValues
  <2>2. text = chunk.joined
    BY <2>1 DEF Range
  <2>3. chunk \in Chunks
    BY DEF chunk
  <2>4. chunk.joined \in Text
    BY <2>3, ChunksAssumption
  <2> QED
    BY <1>1, <2>2, <2>4 DEF TextAt, chunk
<1>2. CASE chunk.joined = Absent
  <2>1. PICK n \in Nat : n = Len(argv) - at
    OBVIOUS
  <2>2. ParseArgsValues
          = [i \in 1 .. (IF n = 0 THEN 0 ELSE 1) |-> Whole(argv[at + i])]
    BY <1>2, <2>1, MinOne DEF ParseArgsValues
  <2>3. PICK i \in 1 .. (IF n = 0 THEN 0 ELSE 1) : text = Whole(argv[at + i])
    BY <2>2 DEF Range
  <2>4. i = 1 /\ n # 0
    BY <2>3
  <2>5. argv[at + 1] \in Chunks /\ at + 1 <= Len(argv)
    BY <2>1, <2>4
  <2> QED
    BY <1>2, <2>3, <2>4, <2>5, WholeText DEF TextAt, chunk
<1> QED
  BY <1>1, <1>2

LEMMA WalkedOne ==
  ASSUME argv \in Seq(Chunks), NEW n \in 1 .. Len(argv), NEW S, Walked(S, n),
         argv[n].joined # Absent \/ IsTerminator(argv[n])
  PROVE  Walked(S \cup {n}, n + 1)
<1> DEFINE R == S \cup {n}
<1>1. S \subseteq 1 .. n - 1 /\ n \in Nat /\ n + 1 - 1 = n
  BY DEF Walked
<1>2. \A i \in 1 .. n : i - 1 \in R <=> i - 1 \in S
  BY <1>1
<1>3. \A i \in 1 .. n : StartsAt(R, i) <=> StartsAt(S, i)
  BY <1>2 DEF StartsAt
<1>4. Followed(R, n)
  <2>1. ASSUME NEW i \in 1 .. n PROVE i \in R <=> StartsAt(S, i)
    <3>1. CASE i = n
      BY <3>1 DEF Walked
    <3>2. CASE i # n
      <4>1. i \in 1 .. n - 1
        BY <3>2
      <4>2. i \in S <=> StartsAt(S, i)
        BY <4>1 DEF Walked, Followed
      <4> QED
        BY <3>2, <4>2
    <3> QED
      BY <3>1, <3>2
  <2> QED
    BY <1>3, <2>1 DEF Followed
<1>5. StartsAt(R, n + 1)
  BY <1>1 DEF StartsAt
<1>6. ASSUME NEW O \in SUBSET (1 .. Len(argv)), Followed(O, Len(argv))
      PROVE  O \cap (1 .. n) = R
  <2>1. O \cap (1 .. n - 1) = S
    BY <1>6 DEF Walked
  <2>2. n - 1 \in 1 .. n - 1 => (n - 1 \in O <=> n - 1 \in S)
    BY <2>1
  <2>3. n = 1 \/ n - 1 \in 1 .. n - 1
    BY <1>1
  <2>4. StartsAt(O, n)
    BY <2>2, <2>3 DEF StartsAt, Walked
  <2>5. n \in O
    BY <1>6, <2>4 DEF Followed
  <2>6. 1 .. n = (1 .. n - 1) \cup {n}
    BY <1>1
  <2> QED
    BY <2>1, <2>5, <2>6
<1>7. R \subseteq 1 .. n
  BY <1>1
<1> HIDE DEF R
<1>8. Walked(R, n + 1)
  BY <1>1, <1>4, <1>5, <1>6, <1>7 DEF Walked
<1> QED
  BY <1>8 DEF R

LEMMA WalkedTwo ==
  ASSUME argv \in Seq(Chunks), NEW n \in 1 .. Len(argv), NEW S, Walked(S, n),
         n + 1 <= Len(argv),
         argv[n].joined = Absent, ~ IsTerminator(argv[n])
  PROVE  Walked(S \cup {n}, n + 2)
<1> DEFINE R == S \cup {n}
<1>1. S \subseteq 1 .. n - 1 /\ n \in Nat /\ n + 2 - 1 = n + 1
  BY DEF Walked
<1>2. \A i \in 1 .. n : i - 1 \in R <=> i - 1 \in S
  BY <1>1
<1>3. \A i \in 1 .. n : StartsAt(R, i) <=> StartsAt(S, i)
  BY <1>2 DEF StartsAt
<1>4. \A i \in 1 .. n : i \in R <=> StartsAt(R, i)
  <2>1. ASSUME NEW i \in 1 .. n PROVE i \in R <=> StartsAt(S, i)
    <3>1. CASE i = n
      BY <3>1 DEF Walked
    <3>2. CASE i # n
      <4>1. i \in 1 .. n - 1
        BY <3>2
      <4>2. i \in S <=> StartsAt(S, i)
        BY <4>1 DEF Walked, Followed
      <4> QED
        BY <3>2, <4>2
    <3> QED
      BY <3>1, <3>2
  <2> QED
    BY <1>3, <2>1
<1>5. n + 1 \notin R /\ ~ StartsAt(R, n + 1) /\ StartsAt(R, n + 2)
  BY <1>1 DEF StartsAt
<1>6. \A i \in 1 .. n + 1 : i \in 1 .. n \/ i = n + 1
  BY <1>1
<1>7. Followed(R, n + 1)
  BY <1>4, <1>5, <1>6 DEF Followed
<1>8. ASSUME NEW O \in SUBSET (1 .. Len(argv)), Followed(O, Len(argv))
      PROVE  O \cap (1 .. n + 1) = R
  <2>1. O \cap (1 .. n - 1) = S
    BY <1>8 DEF Walked
  <2>2. n - 1 \in 1 .. n - 1 => (n - 1 \in O <=> n - 1 \in S)
    BY <2>1
  <2>3. n = 1 \/ n - 1 \in 1 .. n - 1
    BY <1>1
  <2>4. StartsAt(O, n)
    BY <2>2, <2>3 DEF StartsAt, Walked
  <2>5. n \in O
    BY <1>8, <2>4 DEF Followed
  <2>6. ~ StartsAt(O, n + 1)
    BY <1>1, <2>5 DEF StartsAt
  <2>7. n + 1 \notin O
    BY <1>8, <2>6 DEF Followed
  <2>8. 1 .. n + 1 = (1 .. n - 1) \cup {n, n + 1}
    BY <1>1
  <2> QED
    BY <2>1, <2>5, <2>7, <2>8
<1>9. R \subseteq 1 .. n + 1
  BY <1>1
<1> HIDE DEF R
<1>10. Walked(R, n + 2)
  BY <1>1, <1>5, <1>7, <1>8, <1>9 DEF Walked
<1> QED
  BY <1>10 DEF R

-----------------------------------------------------------------------------
(* One step of the reader.                                                 *)

Held(f) == - (2 ^ (Width(f) - 1)) .. 2 ^ (Width(f) - 1) - 1

LEMMA ReadIsHeld ==
  ASSUME NEW f, NEW text \in Text, NEW old \in Held(f)
  PROVE  Read(f, text, old) \in Held(f)
<1>1. text.n \in Int
  BY DEF Text
<1>2. Clamp(f, text.n) \in Held(f) /\ 0 \in Held(f)
  BY <1>1, ClampCases, PowersType DEF Held
<1>3. Read(f, text, old) \in {Clamp(f, text.n), old, 0}
  BY ReadCases
<1> QED
  BY <1>2, <1>3

(* What the reader stores is the value spelled, unless that is blank.       *)
LEMMA ReadIsSpelled ==
  ASSUME NEW f, NEW text \in Text, NEW old
  PROVE  Read(f, text, old) = IF text = Blank THEN old ELSE Clamp(f, text.n)
<1>1. CASE text.kind = "number"
  BY <1>1, ReadCases DEF Blank
<1>2. CASE text.kind = "blank"
  <2>1. text = Blank
    BY <1>2 DEF Text, Blank
  <2> QED
    BY <1>2, <2>1, ReadCases
<1>3. CASE text.kind \notin {"number", "blank"}
  <2>1. text.n = 0 /\ text # Blank
    BY <1>3 DEF Text, Blank
  <2>2. Clamp(f, 0) = 0
    BY ClampCases, PowersType
  <2> QED
    BY <1>3, <2>1, <2>2, ReadCases
<1> QED
  BY <1>1, <1>2, <1>3

LEMMA FlagStored ==
  ASSUME argv \in Seq(Chunks), NEW n \in 1 .. Len(argv),
         NEW S \in SUBSET (1 .. n - 1), Stored(S),
         NEW f \in Match(argv[n]), TextAt(n) \in Text,
         value \in [Flags -> Int],
         NEW v, v = [value EXCEPT ![f] = Read(f, TextAt(n), @)]
  PROVE  \A g \in Flags :
           /\ g \in matched \cup Match(argv[n]) <=> FlagAt(g, S \cup {n}) # {}
           /\ v[g] = IF SpelledAt(g, S \cup {n}) = {} THEN 0
                     ELSE Clamp(g, TextAt(Max(SpelledAt(g, S \cup {n}))).n)
<1> SUFFICES ASSUME NEW g \in Flags
             PROVE  /\ g \in matched \cup Match(argv[n])
                         <=> FlagAt(g, S \cup {n}) # {}
                    /\ v[g] = IF SpelledAt(g, S \cup {n}) = {} THEN 0
                              ELSE Clamp(g,
                                     TextAt(Max(SpelledAt(g, S \cup {n}))).n)
  OBVIOUS
<1>1. f \in Flags
  BY DEF Match
<1>2. CASE g # f
  <2>1. g \notin Match(argv[n])
    BY <1>2, FlagsDistinct
  <2>2. FlagAt(g, S \cup {n}) = FlagAt(g, S)
    BY <2>1 DEF FlagAt
  <2>3. SpelledAt(g, S \cup {n}) = SpelledAt(g, S)
    BY <2>2 DEF SpelledAt
  <2>4. v[g] = value[g]
    BY <1>2
  <2> QED
    BY <2>1, <2>2, <2>3, <2>4 DEF Stored
<1>3. CASE g = f
  <2>1. FlagAt(f, S \cup {n}) = FlagAt(f, S) \cup {n}
    BY DEF FlagAt
  <2>2. v[f] = IF TextAt(n) = Blank THEN value[f] ELSE Clamp(f, TextAt(n).n)
    BY <1>1, ReadIsSpelled
  <2>3. CASE TextAt(n) = Blank
    <3>1. SpelledAt(f, S \cup {n}) = SpelledAt(f, S)
      BY <2>1, <2>3 DEF SpelledAt
    <3> QED
      BY <1>1, <1>3, <2>1, <2>2, <2>3, <3>1 DEF Stored
  <2>4. CASE TextAt(n) # Blank
    <3>1. SpelledAt(f, S \cup {n}) = SpelledAt(f, S) \cup {n}
      BY <2>1, <2>4 DEF SpelledAt
    <3>2. \A i \in SpelledAt(f, S) : i \in 1 .. n - 1
      BY DEF SpelledAt, FlagAt
    <3>3. PICK Z : Z = SpelledAt(f, S) \cup {n}
      OBVIOUS
    <3>4. n \in Z /\ \A i \in Z : i \in Int /\ n >= i
      BY <3>2, <3>3
    <3>5. Max(Z) = n
      <4>1. \A x \in Z : (\A y \in Z : x >= y) => x = n
        BY <3>4
      <4> QED
        BY <3>4, <4>1 DEF Max
    <3> QED
      BY <1>1, <1>3, <2>1, <2>2, <2>4, <3>1, <3>3, <3>4, <3>5
  <2> QED
    BY <2>3, <2>4
<1> QED
  BY <1>2, <1>3

(* The command line itself does not change.                                 *)
LEMMA ArgvKept ==
  ASSUME argv' = argv, NEW S
  PROVE  /\ \A n : Walked(S, n)' <=> Walked(S, n)
         /\ \A f : FlagAt(f, S)' = FlagAt(f, S)
         /\ \A f : SpelledAt(f, S)' = SpelledAt(f, S)
         /\ \A i : TextAt(i)' = TextAt(i)
<1>1. \A i : TextAt(i)' = TextAt(i)
  BY DEF TextAt
<1>2. \A f : FlagAt(f, S)' = FlagAt(f, S)
  BY DEF FlagAt
<1>3. \A f : SpelledAt(f, S)' = SpelledAt(f, S)
  BY <1>1, <1>2 DEF SpelledAt
<1>4. \A n : Walked(S, n)' <=> Walked(S, n)
  BY DEF Walked, Followed, StartsAt
<1> QED
  BY <1>1, <1>2, <1>3, <1>4

LEMMA ThrowKeeps ==
  ASSUME ParserInv, Throw, UNCHANGED <<argv, terminated>>,
         matched' = matched \/ matched' = matched \cup Match(chunk)
  PROVE  ParserInv'
<1>1. ReadSoFar'
  BY DEF Throw, ReadSoFar
<1>2. ParserTypeOK'
  BY DEF ParserInv, ParserTypeOK, Throw, Match
<1> QED
  BY <1>1, <1>2 DEF ParserInv, Throw

LEMMA FlagParsed ==
  ASSUME ParserInv, Reading, ~ IsTerminator(chunk), Mark,
         NEW f \in Match(chunk), NEW text \in Range(ParseArgsValues),
         Readable(text), ParseValue(f, text), UNCHANGED <<argv, terminated>>
  PROVE  ParserInv'
<1>1. PICK n \in 1 .. Len(argv) : n = at
  BY DEF ParserInv, ParserTypeOK, Reading
<1>2. argv \in Seq(Chunks) /\ value \in [Flags -> Int] /\ chunk = argv[n]
      /\ argv[n] \in Chunks /\ f \in Flags
  BY <1>1 DEF ParserInv, chunk, Match
<1>3. /\ text = TextAt(n) /\ text \in Text
      /\ chunk.joined = Absent =>
           n + 1 <= Len(argv) /\ text = Whole(argv[n + 1])
  BY <1>1, <1>2, ValueText
<1>4. value' = [value EXCEPT ![f] = Read(f, TextAt(n), @)]
  BY <1>3 DEF ParseValue
<1>5. PICK S \in SUBSET (1 .. Len(argv)) :
        /\ Walked(S, n)
        /\ \A i \in 1 .. n - 1 : Match(argv[i]) # {} => i \in S
        /\ Stored(S)
  BY <1>1 DEF ParserInv, ReadSoFar, Reading
<1>6. S \in SUBSET (1 .. n - 1)
  BY <1>5 DEF Walked
<1>7. PICK m \in {n + 1, n + 2} :
        /\ m = at' /\ m <= Len(argv) + 1
        /\ m = n + 1 <=> chunk.joined # Absent
  BY <1>1, <1>3 DEF ParseValue
<1>8. PICK R \in SUBSET (1 .. Len(argv)) : R = S \cup {n}
  OBVIOUS
<1>9. Walked(R, m)
  <2>1. CASE chunk.joined # Absent
    BY <1>2, <1>5, <1>7, <1>8, <2>1, WalkedOne
  <2>2. CASE chunk.joined = Absent
    <3>1. m = n + 2 /\ n + 1 <= Len(argv)
      BY <1>1, <1>3, <1>7, <2>2
    <3>2. Walked(S \cup {n}, n + 2)
      BY <1>2, <1>5, <2>2, <3>1, WalkedTwo
    <3> QED
      BY <1>8, <3>1, <3>2
  <2> QED
    BY <2>1, <2>2
<1>10. ASSUME NEW i \in 1 .. m - 1, Match(argv[i]) # {} PROVE i \in R
  <2>1. i \in 1 .. n - 1 \/ i = n \/ (i = n + 1 /\ m = n + 2)
    <3>1. n \in Nat /\ m \in {n + 1, n + 2}
      BY <1>2
    <3> QED
      BY <3>1
  <2>2. CASE i = n + 1 /\ m = n + 2
    <3>1. text = Whole(argv[i]) /\ argv[i] \in Chunks
      BY <1>2, <1>3, <1>7, <2>2
    <3>2. text = Junk
      BY <1>10, <3>1, WholeText
    <3> QED
      BY <3>2 DEF Readable, Junk
  <2> QED
    BY <1>5, <1>8, <1>10, <2>1, <2>2
<1>11. Stored(R)'
  <2>1. PICK v, M : v = value' /\ M = matched'
    OBVIOUS
  <2>2. M = matched \cup Match(argv[n])
    BY <1>2, <2>1 DEF Mark
  <2>3. \A g \in Flags :
          /\ g \in matched \cup Match(argv[n]) <=> FlagAt(g, S \cup {n}) # {}
          /\ v[g] = IF SpelledAt(g, S \cup {n}) = {} THEN 0
                    ELSE Clamp(g, TextAt(Max(SpelledAt(g, S \cup {n}))).n)
    <3>1. /\ f \in Match(argv[n]) /\ TextAt(n) \in Text /\ Stored(S)
          /\ v = [value EXCEPT ![f] = Read(f, TextAt(n), @)]
      BY <1>2, <1>3, <1>4, <1>5, <2>1
    <3> QED
      BY <1>2, <1>6, <3>1, FlagStored
  <2>4. \A g \in Flags :
          /\ g \in M <=> FlagAt(g, R) # {}
          /\ v[g] = IF SpelledAt(g, R) = {} THEN 0
                    ELSE Clamp(g, TextAt(Max(SpelledAt(g, R))).n)
    BY <1>8, <2>2, <2>3
  <2> QED
    BY <2>1, <2>4, ArgvKept DEF Stored
<1>12. ReadSoFar'
  <2>1. /\ Walked(R, m)'
        /\ \A i \in 1 .. m - 1 : Match(argv[i])' # {} => i \in R
    BY <1>9, <1>10, ArgvKept
  <2> QED
    BY <1>7, <1>11, <2>1 DEF ReadSoFar
<1>13. \A g \in Flags : value'[g] \in Held(g)
  <2>1. \A g \in Flags : value[g] \in Held(g)
    BY DEF ParserInv, ParserTypeOK, Held
  <2>2. Read(f, TextAt(n), value[f]) \in Held(f)
    BY <1>2, <1>3, <2>1, ReadIsHeld
  <2> QED
    BY <1>2, <1>4, <2>1, <2>2
<1>14. value' \in [Flags -> Int]
  <2>1. Read(f, TextAt(n), value[f]) \in Int
    BY <1>2, <1>4, <1>13, PowersType DEF Held
  <2> QED
    BY <1>2, <1>4, <2>1
<1>15. ParserTypeOK'
  <2>1. at' \in 1 .. Len(argv') + 1
    BY <1>1, <1>7
  <2> QED
    BY <1>13, <2>1 DEF ParserInv, ParserTypeOK, ParseValue, Mark, Match, Held
<1> QED
  BY <1>12, <1>14, <1>15 DEF ParserInv, ParseValue, Reading

LEMMA TerminatorPassed ==
  ASSUME ParserInv, Terminate
  PROVE  ParserInv'
<1>1. PICK n \in 1 .. Len(argv) : n = at
  BY DEF ParserInv, ParserTypeOK, Terminate, Reading
<1>2. /\ argv \in Seq(Chunks) /\ argv[n] \in Chunks
      /\ IsTerminator(argv[n]) /\ status = "parsing"
      /\ n \in Nat /\ Len(argv) \in Nat
      /\ at' = n + 1 /\ UNCHANGED <<argv, matched, value, status>>
  BY <1>1 DEF ParserInv, Terminate, chunk, Reading
<1>3. Match(argv[n]) = {}
  BY <1>2, FlagsSpelled DEF IsTerminator
<1>4. PICK S \in SUBSET (1 .. Len(argv)) :
        /\ Walked(S, n)
        /\ \A i \in 1 .. n - 1 : Match(argv[i]) # {} => i \in S
        /\ Stored(S)
  BY <1>1, <1>2 DEF ParserInv, ReadSoFar
<1>5. PICK R \in SUBSET (1 .. Len(argv)) : R = S \cup {n}
  OBVIOUS
<1>6. Walked(R, n + 1)
  BY <1>2, <1>4, <1>5, WalkedOne
<1>7. \A i \in 1 .. n + 1 - 1 : Match(argv[i]) # {} => i \in R
  <2>1. \A i \in 1 .. n + 1 - 1 : i \in 1 .. n - 1 \/ i = n
    BY <1>2
  <2> QED
    BY <1>4, <1>5, <2>1
<1>8. Stored(R)
  <2>1. \A f : FlagAt(f, R) = FlagAt(f, S)
    BY <1>3, <1>5 DEF FlagAt
  <2>2. \A f : SpelledAt(f, R) = SpelledAt(f, S)
    BY <2>1 DEF SpelledAt
  <2> QED
    BY <1>4, <2>1, <2>2 DEF Stored
<1>9. ReadSoFar'
  <2>1. Walked(R, n + 1)' /\ Stored(R)'
    BY <1>2, <1>6, <1>8, ArgvKept DEF Stored
  <2> QED
    BY <1>2, <1>7, <2>1 DEF ReadSoFar
<1>10. ParserTypeOK'
  BY <1>2 DEF ParserInv, ParserTypeOK, Terminate
<1> QED
  BY <1>2, <1>9, <1>10 DEF ParserInv

LEMMA ParserStarts == Init => ParserInv
<1> SUFFICES ASSUME Init PROVE ParserInv
  OBVIOUS
<1>1. argv \in Seq(Chunks)
  <2>1. PICK m \in 0 .. MaxArgs : argv \in [1 .. m -> Chunks]
    BY DEF Init, ParserInit, BoundedSeq, SeqOf
  <2> QED
    BY <2>1
<1>2. /\ at = 1 /\ terminated = FALSE /\ matched = {} /\ status = "parsing"
      /\ value = [f \in Flags |-> 0]
  BY DEF Init, ParserInit, Reset
<1>3. ReadSoFar
  <2>1. Walked({}, 1)
    BY <1>1 DEF Walked, Followed, StartsAt
  <2>2. Stored({})
    BY <1>2 DEF Stored, FlagAt, SpelledAt
  <2> QED
    BY <1>2, <2>1, <2>2 DEF ReadSoFar
<1>4. \A f \in Flags : value[f] \in Held(f)
  BY <1>2, PowersType DEF Held
<1>5. ParserTypeOK
  <2>1. Len(argv) \in Nat /\ at \in 1 .. Len(argv) + 1
    BY <1>1, <1>2
  <2> QED
    BY <1>2, <1>4, <2>1 DEF ParserTypeOK, Held
<1> QED
  BY <1>1, <1>2, <1>3, <1>5 DEF ParserInv

LEMMA ParserNext ==
  ASSUME ParserInv, [Next]_vars
  PROVE  ParserInv'
<1>1. ASSUME NEW option, ParseFlag(option) PROVE ParserInv'
  <2>1. CASE \E f \in Match(chunk) : \E text \in Range(ParseArgsValues) :
               Readable(text) /\ ParseValue(f, text)
    BY <1>1, <2>1, FlagParsed DEF ParseFlag
  <2>2. CASE Throw
    BY <1>1, <2>2, ThrowKeeps DEF ParseFlag, Mark
  <2> QED
    BY <1>1, <2>1, <2>2 DEF ParseFlag
<1>2. CASE ParsePositional
  BY <1>2, ThrowKeeps DEF ParsePositional
<1>3. CASE Finish
  <2>1. at = Len(argv) + 1
    BY <1>3 DEF Finish, ParserInv, ParserTypeOK
  <2>2. ReadSoFar'
    BY <1>3, ArgvKept DEF Finish, ParserInv, ReadSoFar, Stored
  <2> QED
    BY <1>3, <2>1, <2>2 DEF Finish, ParserInv, ParserTypeOK
<1>4. CASE UNCHANGED parserVars
  <2>1. ReadSoFar'
    BY <1>4, ArgvKept DEF parserVars, ParserInv, ReadSoFar, Stored
  <2> QED
    BY <1>4, <2>1 DEF parserVars, ParserInv, ParserTypeOK
<1>5. ParseCLI \/ UNCHANGED parserVars
  BY DEF Next, ReadArguments, SetArguments, ParseFails, ConfigOptions,
         PrintExperimentalSetup, PrintRocksDBPerfStats, vars
<1> QED
  BY <1>1, <1>2, <1>3, <1>4, <1>5, TerminatorPassed
     DEF ParseCLI, ParseLong, ParseShort

(* What has been read of the command line, at every point of it.            *)
THEOREM ParserInvariant == Spec => []ParserInv
BY ParserStarts, ParserNext, PTL DEF Spec

(* In a command line that is accepted, Starts is where the walk has found   *)
(* flags.                                                                   *)
LEMMA StartsFound ==
  ASSUME ParserInv, status = "parsed"
  PROVE  /\ Starts \in SUBSET (1 .. Len(argv))
         /\ \A i \in 1 .. Len(argv) : Match(argv[i]) # {} => i \in Starts
         /\ Stored(Starts)
<1>1. PICK n \in Nat : n = Len(argv)
  BY DEF ParserInv
<1>2. at = n + 1 /\ at - 1 = n /\ n + 1 - 1 = n
  BY <1>1 DEF ParserInv
<1>3. PICK S \in SUBSET (1 .. n) :
        /\ Walked(S, n + 1)
        /\ \A i \in 1 .. n : Match(argv[i]) # {} => i \in S
        /\ Stored(S)
  <2>1. \E S \in SUBSET (1 .. Len(argv)) :
          /\ Walked(S, at)
          /\ \A i \in 1 .. at - 1 : Match(argv[i]) # {} => i \in S
          /\ Stored(S)
    BY DEF ParserInv, ReadSoFar
  <2> QED
    BY <1>1, <1>2, <2>1
<1>4. Followed(S, n)
  BY <1>2, <1>3 DEF Walked
<1>5. ASSUME NEW O \in SUBSET (1 .. n), Followed(O, n) PROVE O = S
  <2>1. O \cap (1 .. n) = S
    BY <1>1, <1>2, <1>3, <1>5 DEF Walked
  <2> QED
    BY <2>1
<1>6. Starts = CHOOSE O \in SUBSET (1 .. n) : Followed(O, n)
  BY <1>1 DEF Starts, Followed, StartsAt
<1>7. Starts = S
  BY <1>3, <1>4, <1>5, <1>6
<1> QED
  BY <1>1, <1>3, <1>7

(* What the reader has stored is what the user spelled (args.hxx,           *)
(* parse_arguments): on a command line of any length, with flags spelled    *)
(* short or long, values joined or apart, repeated or blank.                *)
THEOREM FlagsReadAsSpelled == Spec => []ReadAsSpelled
<1>1. ParserInv => ReadAsSpelled
  <2> SUFFICES ASSUME ParserInv, status = "parsed", NEW f \in Flags
               PROVE  LET given == {i \in Starts : f \in Match(argv[i])}
                          spelled == {i \in given : TextAt(i) # Blank}
                      IN  /\ f \in matched <=> given # {}
                          /\ value[f] =
                               IF spelled = {} THEN 0
                               ELSE Clamp(f, TextAt(Max(spelled)).n)
    BY DEF ReadAsSpelled
  <2> QED
    BY StartsFound DEF Stored, FlagAt, SpelledAt
<1> QED
  BY <1>1, ParserInvariant, PTL

(* No flag of an accepted command line is lost as the value of the one      *)
(* before: args.hxx takes a value whatever it looks like, but none that     *)
(* looks like a flag can be read.                                           *)
THEOREM NoFlagLost == Spec => []NoFlagSwallowed
<1>1. ParserInv => NoFlagSwallowed
  <2> SUFFICES ASSUME ParserInv, status = "parsed", NEW i \in 1 .. Len(argv),
                      Match(argv[i]) # {}
               PROVE  i \in Starts /\ Match(argv[i]) \subseteq matched
    BY DEF NoFlagSwallowed
  <2>1. i \in Starts
    BY StartsFound
  <2>2. ASSUME NEW f \in Match(argv[i]) PROVE f \in matched
    <3>1. f \in Flags /\ i \in FlagAt(f, Starts)
      BY <2>1 DEF FlagAt, Match
    <3> QED
      BY <3>1, StartsFound DEF Stored
  <2> QED
    BY <2>1, <2>2
<1> QED
  BY <1>1, ParserInvariant, PTL

-----------------------------------------------------------------------------
(* The fields of DBEnv, and the options that configOptions makes of them.   *)

LEMMA WithDomain ==
  ASSUME NEW f, NEW g
  PROVE  DOMAIN With(f, g) = DOMAIN f \cup DOMAIN g
BY DEF With

LEMMA WithApart ==
  ASSUME NEW f, NEW g, DOMAIN f \cap DOMAIN g = {}
  PROVE  /\ DOMAIN With(f, g) = DOMAIN f \cup DOMAIN g
         /\ \A o \in DOMAIN f : With(f, g)[o] = f[o]
         /\ \A o \in DOMAIN g : With(f, g)[o] = g[o]
BY DEF With

(* The fields that each part of parse_arguments sets.                      *)
DatabaseFields == {"destroy_database_", "clear_system_cache"}

RatioFields ==
  {"size_ratio", "level0_slowdown_writes_trigger",
   "level0_stop_writes_trigger", "level0_file_num_compaction_trigger"}

SizeFields ==
  {"buffer_size_in_pages", "entries_per_page", "entry_size", "buffer_size_",
   "file_to_memtable_size_ratio"}

PolicyFields ==
  {"compaction_pri", "compaction_style", "bits_per_key", "block_cache",
   "low_pri"}

ReportFields ==
  {"verbosity", "is_per_op_timer", "is_total_timer", "perf_stats_",
   "iostat_stats_", "rocksdb_stats_", "show_progress_bar_"}

SetFields ==
  DatabaseFields \cup RatioFields \cup SizeFields \cup PolicyFields
    \cup ReportFields

LEMMA DefaultsDomain ==
  DOMAIN Defaults =
    DOMAIN DBOptionsDefaults \cup (DOMAIN TreeDefaults
      \cup (DOMAIN TableOptionsDefaults
        \cup (DOMAIN ReadWriteOptionsDefaults
          \cup (DOMAIN ColumnFamilyOptionsDefaults
            \cup DOMAIN PrivateDefaults))))
<1> DEFINE d5 == With(ColumnFamilyOptionsDefaults, PrivateDefaults)
           d4 == With(ReadWriteOptionsDefaults, d5)
           d3 == With(TableOptionsDefaults, d4)
           d2 == With(TreeDefaults, d3)
<1>5. DOMAIN d5 =
        DOMAIN ColumnFamilyOptionsDefaults \cup DOMAIN PrivateDefaults
  BY WithDomain
<1> HIDE DEF d5
<1>4. DOMAIN d4 = DOMAIN ReadWriteOptionsDefaults \cup DOMAIN d5
  BY WithDomain
<1> HIDE DEF d4
<1>3. DOMAIN d3 = DOMAIN TableOptionsDefaults \cup DOMAIN d4
  BY WithDomain
<1> HIDE DEF d3
<1>2. DOMAIN d2 = DOMAIN TreeDefaults \cup DOMAIN d3
  BY WithDomain
<1> HIDE DEF d2
<1>1. DOMAIN With(DBOptionsDefaults, d2) =
        DOMAIN DBOptionsDefaults \cup DOMAIN d2
  BY WithDomain
<1>6. Defaults = With(DBOptionsDefaults, d2)
  BY DEF Defaults, d2, d3, d4, d5
<1> QED
  BY <1>1, <1>2, <1>3, <1>4, <1>5, <1>6

LEMMA SetFieldsExist ==
  SetFields \cup {"no_block_cache", "num_levels"} \subseteq DOMAIN Defaults
<1>1. {"clear_system_cache", "verbosity"} \subseteq DOMAIN DBOptionsDefaults
  BY DEF DBOptionsDefaults
<1>2. {"size_ratio", "level0_file_num_compaction_trigger",
       "buffer_size_in_pages", "entries_per_page", "entry_size",
       "file_to_memtable_size_ratio", "compaction_pri", "compaction_style",
       "bits_per_key", "num_levels"} \subseteq DOMAIN TreeDefaults
  BY DEF TreeDefaults
<1>3. {"block_cache", "no_block_cache"} \subseteq DOMAIN TableOptionsDefaults
  BY DEF TableOptionsDefaults
<1>4. "low_pri" \in DOMAIN ReadWriteOptionsDefaults
  BY DEF ReadWriteOptionsDefaults
<1>5. {"level0_slowdown_writes_trigger", "level0_stop_writes_trigger"}
        \subseteq DOMAIN ColumnFamilyOptionsDefaults
  BY DEF ColumnFamilyOptionsDefaults
<1>6. {"destroy_database_", "buffer_size_", "is_per_op_timer",
       "is_total_timer", "perf_stats_", "iostat_stats_", "rocksdb_stats_",
       "show_progress_bar_"} \subseteq DOMAIN PrivateDefaults
  BY DEF PrivateDefaults
<1> QED
  BY <1>1, <1>2, <1>3, <1>4, <1>5, <1>6, DefaultsDomain
     DEF SetFields, DatabaseFields, RatioFields, SizeFields, PolicyFields,
         ReportFields

-----------------------------------------------------------------------------
(* What each part of parse_arguments does to the environment.               *)

LEMMA SetDatabaseIs ==
  ASSUME NEW e, SetFields \subseteq DOMAIN e
  PROVE  LET r == SetDatabase(e)
         IN  /\ DOMAIN r = DOMAIN e
             /\ \A o \in DOMAIN e \ DatabaseFields :
                  r[o] = e[o]
BY DEF SetDatabase, SetFields, DatabaseFields

LEMMA SetSizeRatioIs ==
  ASSUME NEW e, SetFields \subseteq DOMAIN e
  PROVE  LET r == SetSizeRatio(e)
             T == Argument("T", e.size_ratio)
         IN  /\ DOMAIN r = DOMAIN e
             /\ r.size_ratio = T
             /\ r.level0_slowdown_writes_trigger = T - 1
             /\ r.level0_stop_writes_trigger = T
             /\ r.level0_file_num_compaction_trigger = T
             /\ \A o \in DOMAIN e \ RatioFields :
                  r[o] = e[o]
<1> DEFINE T == Argument("T", e.size_ratio)
<1> HIDE DEF T
<1> SUFFICES LET r == [e EXCEPT !.size_ratio = T,
                !.level0_slowdown_writes_trigger = T - 1,
                !.level0_stop_writes_trigger = T,
                !.level0_file_num_compaction_trigger = T] IN
 /\ DOMAIN r = DOMAIN e
             /\ r.size_ratio = T
             /\ r.level0_slowdown_writes_trigger = T - 1
             /\ r.level0_stop_writes_trigger = T
             /\ r.level0_file_num_compaction_trigger = T
             /\ \A o \in DOMAIN e \ RatioFields :
                  r[o] = e[o]
  BY DEF T, SetSizeRatio
<1> QED
  BY DEF SetFields, RatioFields

LEMMA SetSizesIs ==
  ASSUME NEW e, SetFields \subseteq DOMAIN e
  PROVE  LET r == SetSizes(e)
         IN  /\ DOMAIN r = DOMAIN e
             /\ r.buffer_size_in_pages =
                  UInt(Argument("P", e.buffer_size_in_pages))
             /\ r.entries_per_page = UInt(Argument("B", e.entries_per_page))
             /\ r.entry_size = UInt(Argument("E", e.entry_size))
             /\ r.buffer_size_ = SizeT(Argument("M", 0))
             /\ \A o \in DOMAIN e \ SizeFields : r[o] = e[o]
BY DEF SetSizes, SetFields, SizeFields

LEMMA SetPoliciesIs ==
  ASSUME NEW e, SetFields \subseteq DOMAIN e
  PROVE  LET r == SetPolicies(e)
         IN  /\ DOMAIN r = DOMAIN e
             /\ r.compaction_pri = UInt16(Argument("c", e.compaction_pri))
             /\ r.compaction_style = SizeT(Argument("C", e.compaction_style))
             /\ r.bits_per_key = Argument("b", e.bits_per_key)
             /\ r.block_cache = Argument("bb", e.block_cache)
             /\ r.low_pri = Switch("lowpri", e.low_pri)
             /\ \A o \in DOMAIN e \ PolicyFields : r[o] = e[o]
BY DEF SetPolicies, SetFields, PolicyFields

LEMMA SetReportsIs ==
  ASSUME NEW e, SetFields \subseteq DOMAIN e
  PROVE  LET r == SetReports(e)
         IN  /\ DOMAIN r = DOMAIN e
             /\ r.verbosity = Argument("V", e.verbosity)
             /\ r.perf_stats_ = Switch("perf", e.perf_stats_)
             /\ r.iostat_stats_ = Switch("iostat", e.iostat_stats_)
             /\ r.rocksdb_stats_ = Switch("stat", e.rocksdb_stats_)
             /\ \A o \in DOMAIN e \ ReportFields : r[o] = e[o]
BY DEF SetReports, SetFields, ReportFields

-----------------------------------------------------------------------------
(* The defaults of DBEnv, field by field.                                   *)

LEMMA DefaultsAre ==
  /\ \A o \in DOMAIN DBOptionsDefaults : Defaults[o] = DBOptionsDefaults[o]
  /\ \A o \in DOMAIN TreeDefaults : Defaults[o] = TreeDefaults[o]
  /\ \A o \in DOMAIN TableOptionsDefaults :
       Defaults[o] = TableOptionsDefaults[o]
  /\ \A o \in DOMAIN ReadWriteOptionsDefaults :
       Defaults[o] = ReadWriteOptionsDefaults[o]
  /\ \A o \in DOMAIN ColumnFamilyOptionsDefaults :
       Defaults[o] = ColumnFamilyOptionsDefaults[o]
  /\ \A o \in DOMAIN PrivateDefaults : Defaults[o] = PrivateDefaults[o]
<1> DEFINE d5 == With(ColumnFamilyOptionsDefaults, PrivateDefaults)
           d4 == With(ReadWriteOptionsDefaults, d5)
           d3 == With(TableOptionsDefaults, d4)
           d2 == With(TreeDefaults, d3)
<1>1. /\ DOMAIN TreeDefaults \cap DOMAIN DBOptionsDefaults = {}
      /\ DOMAIN TableOptionsDefaults \cap DOMAIN DBOptionsDefaults = {}
      /\ DOMAIN ReadWriteOptionsDefaults \cap DOMAIN DBOptionsDefaults = {}
      /\ DOMAIN ColumnFamilyOptionsDefaults \cap DOMAIN DBOptionsDefaults = {}
      /\ DOMAIN PrivateDefaults \cap DOMAIN DBOptionsDefaults = {}
  BY DEF DBOptionsDefaults, TreeDefaults, TableOptionsDefaults,
         ReadWriteOptionsDefaults, ColumnFamilyOptionsDefaults, PrivateDefaults
<1>2. /\ DOMAIN TableOptionsDefaults \cap DOMAIN TreeDefaults = {}
      /\ DOMAIN ReadWriteOptionsDefaults \cap DOMAIN TreeDefaults = {}
      /\ DOMAIN ColumnFamilyOptionsDefaults \cap DOMAIN TreeDefaults = {}
      /\ DOMAIN PrivateDefaults \cap DOMAIN TreeDefaults = {}
  BY DEF TreeDefaults, TableOptionsDefaults,
         ReadWriteOptionsDefaults, ColumnFamilyOptionsDefaults, PrivateDefaults
<1>3. /\ DOMAIN ReadWriteOptionsDefaults \cap DOMAIN TableOptionsDefaults = {}
      /\ DOMAIN ColumnFamilyOptionsDefaults
           \cap DOMAIN TableOptionsDefaults = {}
      /\ DOMAIN PrivateDefaults \cap DOMAIN TableOptionsDefaults = {}
      /\ DOMAIN ColumnFamilyOptionsDefaults
           \cap DOMAIN ReadWriteOptionsDefaults = {}
      /\ DOMAIN PrivateDefaults \cap DOMAIN ReadWriteOptionsDefaults = {}
      /\ DOMAIN PrivateDefaults \cap DOMAIN ColumnFamilyOptionsDefaults = {}
  BY DEF TableOptionsDefaults,
         ReadWriteOptionsDefaults, ColumnFamilyOptionsDefaults, PrivateDefaults
<1>15. /\ DOMAIN d5 =
            DOMAIN ColumnFamilyOptionsDefaults \cup DOMAIN PrivateDefaults
       /\ \A o \in DOMAIN ColumnFamilyOptionsDefaults :
            d5[o] = ColumnFamilyOptionsDefaults[o]
       /\ \A o \in DOMAIN PrivateDefaults : d5[o] = PrivateDefaults[o]
  <2>1. DOMAIN ColumnFamilyOptionsDefaults \cap DOMAIN PrivateDefaults = {}
    BY <1>3
  <2> QED
    BY <2>1, WithApart
<1> HIDE DEF d5
<1>14. /\ DOMAIN d4 = DOMAIN ReadWriteOptionsDefaults \cup DOMAIN d5
       /\ \A o \in DOMAIN ReadWriteOptionsDefaults :
            d4[o] = ReadWriteOptionsDefaults[o]
       /\ \A o \in DOMAIN d5 : d4[o] = d5[o]
  <2>1. DOMAIN ReadWriteOptionsDefaults \cap DOMAIN d5 = {}
    BY <1>3, <1>15
  <2> QED
    BY <2>1, WithApart
<1> HIDE DEF d4
<1>13. /\ DOMAIN d3 = DOMAIN TableOptionsDefaults \cup DOMAIN d4
       /\ \A o \in DOMAIN TableOptionsDefaults :
            d3[o] = TableOptionsDefaults[o]
       /\ \A o \in DOMAIN d4 : d3[o] = d4[o]
  <2>1. DOMAIN TableOptionsDefaults \cap DOMAIN d4 = {}
    BY <1>3, <1>14, <1>15
  <2> QED
    BY <2>1, WithApart
<1> HIDE DEF d3
<1>12. /\ DOMAIN d2 = DOMAIN TreeDefaults \cup DOMAIN d3
       /\ \A o \in DOMAIN TreeDefaults : d2[o] = TreeDefaults[o]
       /\ \A o \in DOMAIN d3 : d2[o] = d3[o]
  <2>1. DOMAIN TreeDefaults \cap DOMAIN d3 = {}
    BY <1>2, <1>13, <1>14, <1>15
  <2> QED
    BY <2>1, WithApart
<1> HIDE DEF d2
<1>6. Defaults = With(DBOptionsDefaults, d2)
  BY DEF Defaults, d2, d3, d4, d5
<1>11. /\ \A o \in DOMAIN DBOptionsDefaults :
            Defaults[o] = DBOptionsDefaults[o]
       /\ \A o \in DOMAIN d2 : Defaults[o] = d2[o]
  <2>1. DOMAIN DBOptionsDefaults \cap DOMAIN d2 = {}
    BY <1>1, <1>12, <1>13, <1>14, <1>15
  <2>2. /\ \A o \in DOMAIN DBOptionsDefaults :
             With(DBOptionsDefaults, d2)[o] = DBOptionsDefaults[o]
        /\ \A o \in DOMAIN d2 : With(DBOptionsDefaults, d2)[o] = d2[o]
    BY <2>1, WithApart
  <2> QED
    BY <1>6, <2>2
<1> QED
  BY <1>11, <1>12, <1>13, <1>14, <1>15

-----------------------------------------------------------------------------
(* The options, by the part of configOptions they come from.                *)

(* The options that CacheOf sets, and those with cases.                     *)
CacheOptions ==
  {"no_block_cache", "block_cache", "cache_index_and_filter_blocks"}

CaseOptions ==
  {"compaction_pri", "memtable_factory", "compaction_style",
   "data_block_index_type", "index_type", "index_shortening", "compression",
   "read_tier", "comparator"}

SizeOptions ==
  {"max_bytes_for_level_multiplier", "write_buffer_size",
   "target_file_size_base", "max_bytes_for_level_base", "block_size",
   "arena_block_size"}

(* The names of all options, in the order of ConfiguredFrom.                *)
OptionNames ==
  Copied \cup (CaseOptions \cup (SizeOptions \cup ({"filter_policy"}
    \cup ({"level0_file_num_compaction_trigger", "num_levels"}
      \cup (CacheOptions \cup {"statistics"})))))

LEMMA NamesApart ==
  /\ Copied \cap CaseOptions = {}
  /\ Copied \cap SizeOptions = {}
  /\ Copied \cap CacheOptions = {}
  /\ Copied \cap {"filter_policy", "level0_file_num_compaction_trigger",
                  "num_levels", "statistics"} = {}
  /\ {"level0_slowdown_writes_trigger", "level0_stop_writes_trigger",
      "low_pri"} \subseteq Copied
BY DEF Copied, CopiedDBOptions, CopiedTreeOptions, CopiedTableOptions,
       CopiedReadWriteOptions, CopiedColumnFamilyOptions, CaseOptions,
       SizeOptions, CacheOptions

LEMMA CasesDomain == DOMAIN Cases = CaseOptions
BY DEF Cases, CaseOptions

LEMMA ConfiguredIs ==
  ASSUME NEW e, NEW capacity
  PROVE  LET c == ConfiguredFrom(e, capacity)
         IN  /\ DOMAIN c = OptionNames
             /\ \A o \in Copied : c[o] = e[o]
             /\ \A o \in CaseOptions : c[o] = Chosen(o, e[o])
             /\ \A o \in SizeOptions : c[o] = SizesOf(e)[o]
             /\ c.filter_policy = FilterPolicy(e).filter_policy
             /\ \A o \in {"level0_file_num_compaction_trigger", "num_levels"} :
                  c[o] = ShapeOf(e)[o]
             /\ \A o \in CacheOptions : c[o] = CacheOf(e, capacity)[o]
             /\ c.statistics = Statistics(e).statistics
<1> DEFINE copied == [o \in Copied |-> e[o]]
           cases == [o \in DOMAIN Cases |-> Chosen(o, e[o])]
           sizes == SizesOf(e)
           filter == FilterPolicy(e)
           shape == ShapeOf(e)
           cache == CacheOf(e, capacity)
           stat == Statistics(e)
           c6 == With(cache, stat)
           c5 == With(shape, c6)
           c4 == With(filter, c5)
           c3 == With(sizes, c4)
           c2 == With(cases, c3)
           c1 == With(copied, c2)
<1>1. ConfiguredFrom(e, capacity) = c1
  BY DEF ConfiguredFrom
<1>2. /\ DOMAIN copied = Copied /\ DOMAIN cases = CaseOptions
      /\ DOMAIN sizes = SizeOptions
      /\ DOMAIN filter = {"filter_policy"}
      /\ DOMAIN shape = {"level0_file_num_compaction_trigger", "num_levels"}
      /\ DOMAIN cache = CacheOptions
      /\ DOMAIN stat = {"statistics"}
  BY CasesDomain DEF SizesOf, FilterPolicy, ShapeOf, CacheOf, Statistics,
                     SizeOptions, CacheOptions
<1>3. /\ \A o \in Copied : copied[o] = e[o]
      /\ \A o \in CaseOptions : cases[o] = Chosen(o, e[o])
  BY CasesDomain
<1> HIDE DEF copied, cases, sizes, filter, shape, cache, stat
<1>16. /\ DOMAIN c6 = DOMAIN cache \cup DOMAIN stat
       /\ \A o \in DOMAIN cache : c6[o] = cache[o]
       /\ \A o \in DOMAIN stat : c6[o] = stat[o]
  <2>1. DOMAIN cache \cap DOMAIN stat = {}
    BY <1>2 DEF CacheOptions
  <2> QED
    BY <2>1, WithApart
<1> HIDE DEF c6
<1>15. /\ DOMAIN c5 = DOMAIN shape \cup DOMAIN c6
       /\ \A o \in DOMAIN shape : c5[o] = shape[o]
       /\ \A o \in DOMAIN c6 : c5[o] = c6[o]
  <2>1. DOMAIN shape \cap DOMAIN c6 = {}
    BY <1>2, <1>16 DEF CacheOptions
  <2> QED
    BY <2>1, WithApart
<1> HIDE DEF c5
<1>14. /\ DOMAIN c4 = DOMAIN filter \cup DOMAIN c5
       /\ \A o \in DOMAIN filter : c4[o] = filter[o]
       /\ \A o \in DOMAIN c5 : c4[o] = c5[o]
  <2>1. DOMAIN filter \cap DOMAIN c5 = {}
    BY <1>2, <1>15, <1>16 DEF CacheOptions
  <2> QED
    BY <2>1, WithApart
<1> HIDE DEF c4
<1>13. /\ DOMAIN c3 = DOMAIN sizes \cup DOMAIN c4
       /\ \A o \in DOMAIN sizes : c3[o] = sizes[o]
       /\ \A o \in DOMAIN c4 : c3[o] = c4[o]
  <2>1. DOMAIN sizes \cap DOMAIN c4 = {}
    BY <1>2, <1>14, <1>15, <1>16 DEF SizeOptions, CacheOptions
  <2> QED
    BY <2>1, WithApart
<1> HIDE DEF c3
<1>12. /\ DOMAIN c2 = DOMAIN cases \cup DOMAIN c3
       /\ \A o \in DOMAIN cases : c2[o] = cases[o]
       /\ \A o \in DOMAIN c3 : c2[o] = c3[o]
  <2>1. DOMAIN cases \cap DOMAIN c3 = {}
    BY <1>2, <1>13, <1>14, <1>15, <1>16
       DEF SizeOptions, CacheOptions, CaseOptions
  <2> QED
    BY <2>1, WithApart
<1> HIDE DEF c2
<1>11. /\ DOMAIN c1 = DOMAIN copied \cup DOMAIN c2
       /\ \A o \in DOMAIN copied : c1[o] = copied[o]
       /\ \A o \in DOMAIN c2 : c1[o] = c2[o]
  <2>1. DOMAIN copied \cap DOMAIN c2 = {}
    BY <1>2, <1>12, <1>13, <1>14, <1>15, <1>16, NamesApart
  <2> QED
    BY <2>1, WithApart
<1> HIDE DEF c1
<1>4. DOMAIN c1 = OptionNames
  BY <1>2, <1>11, <1>12, <1>13, <1>14, <1>15, <1>16 DEF OptionNames
<1>5. /\ \A o \in Copied : c1[o] = e[o]
      /\ \A o \in CaseOptions : c1[o] = Chosen(o, e[o])
  BY <1>2, <1>3, <1>11, <1>12
<1>6. \A o \in DOMAIN cache \cup DOMAIN stat : c1[o] = c6[o]
  BY <1>2, <1>11, <1>12, <1>13, <1>14, <1>15, <1>16
<1>7. /\ \A o \in DOMAIN shape : c1[o] = shape[o]
      /\ \A o \in DOMAIN filter : c1[o] = filter[o]
  BY <1>2, <1>11, <1>12, <1>13, <1>14, <1>15
<1>8. \A o \in SizeOptions : c1[o] = sizes[o]
  BY <1>2, <1>11, <1>12, <1>13
<1>9. /\ c1.filter_policy = filter.filter_policy
      /\ \A o \in {"level0_file_num_compaction_trigger", "num_levels"} :
           c1[o] = shape[o]
      /\ \A o \in CacheOptions : c1[o] = cache[o]
      /\ c1.statistics = stat.statistics
  BY <1>2, <1>6, <1>7, <1>16
<1> QED
  BY <1>1, <1>4, <1>5, <1>8, <1>9 DEF sizes, filter, shape, cache, stat

LEMMA ConfiguredCopied ==
  ASSUME NEW e, NEW capacity, NEW o \in Copied
  PROVE  ConfiguredFrom(e, capacity)[o] = e[o]
BY ConfiguredIs

LEMMA ConfiguredCases ==
  ASSUME NEW e, NEW capacity, NEW o \in CaseOptions
  PROVE  ConfiguredFrom(e, capacity)[o] = Chosen(o, e[o])
BY ConfiguredIs

LEMMA ConfiguredSizes ==
  ASSUME NEW e, NEW capacity, NEW o \in SizeOptions
  PROVE  ConfiguredFrom(e, capacity)[o] = SizesOf(e)[o]
BY ConfiguredIs

LEMMA ConfiguredShape ==
  ASSUME NEW e, NEW capacity,
         NEW o \in {"level0_file_num_compaction_trigger", "num_levels"}
  PROVE  ConfiguredFrom(e, capacity)[o] = ShapeOf(e)[o]
BY ConfiguredIs

LEMMA ConfiguredCache ==
  ASSUME NEW e, NEW capacity, NEW o \in CacheOptions
  PROVE  ConfiguredFrom(e, capacity)[o] = CacheOf(e, capacity)[o]
BY ConfiguredIs

-----------------------------------------------------------------------------
(* The environment that parse_arguments leaves.                             *)

(* The environment that the flags give.                                     *)
Parsed ==
  SetReports(SetPolicies(SetSizes(SetSizeRatio(SetDatabase(Defaults)))))

LEMMA DefaultValues ==
  /\ Defaults.size_ratio = 4 /\ Defaults.num_levels = 10
  /\ Defaults.level0_file_num_compaction_trigger = 4
  /\ Defaults.buffer_size_in_pages = UInt(128)
  /\ Defaults.entries_per_page = UInt(64)
  /\ Defaults.entry_size = UInt(64)
  /\ Defaults.compaction_pri = 1 /\ Defaults.compaction_style = 1
  /\ Defaults.bits_per_key = 10 /\ Defaults.block_cache = 0
  /\ Defaults.buffer_size_ = 0
  /\ Defaults.perf_stats_ = FALSE /\ Defaults.iostat_stats_ = FALSE
  /\ Defaults.rocksdb_stats_ = FALSE /\ Defaults.low_pri = TRUE
  /\ Defaults.level0_slowdown_writes_trigger = 3
  /\ Defaults.level0_stop_writes_trigger = 4
<1>1. \A o \in {"size_ratio", "num_levels",
               "level0_file_num_compaction_trigger",
               "buffer_size_in_pages", "entries_per_page", "entry_size",
               "compaction_pri", "compaction_style", "bits_per_key"} :
        Defaults[o] = TreeDefaults[o]
  BY DefaultsAre DEF TreeDefaults
<1>2. Defaults.block_cache = 0
  BY DefaultsAre DEF TableOptionsDefaults
<1>3. Defaults.low_pri = TRUE
  BY DefaultsAre DEF ReadWriteOptionsDefaults
<1>4. /\ Defaults.level0_slowdown_writes_trigger = 3
      /\ Defaults.level0_stop_writes_trigger = 4
  BY DefaultsAre DEF ColumnFamilyOptionsDefaults
<1>5. /\ Defaults.buffer_size_ = 0
      /\ Defaults.perf_stats_ = FALSE /\ Defaults.iostat_stats_ = FALSE
      /\ Defaults.rocksdb_stats_ = FALSE
  BY DefaultsAre DEF PrivateDefaults
<1> QED
  BY <1>1, <1>2, <1>3, <1>4, <1>5 DEF TreeDefaults

LEMMA ParsedIs ==
  /\ DOMAIN Parsed = DOMAIN Defaults
  /\ Parsed.size_ratio = Argument("T", 4)
  /\ Parsed.level0_slowdown_writes_trigger = Argument("T", 4) - 1
  /\ Parsed.level0_stop_writes_trigger = Argument("T", 4)
  /\ Parsed.level0_file_num_compaction_trigger = Argument("T", 4)
  /\ Parsed.buffer_size_in_pages = UInt(Argument("P", UInt(128)))
  /\ Parsed.entries_per_page = UInt(Argument("B", UInt(64)))
  /\ Parsed.entry_size = UInt(Argument("E", UInt(64)))
  /\ Parsed.buffer_size_ = SizeT(Argument("M", 0))
  /\ Parsed.compaction_pri = UInt16(Argument("c", 1))
  /\ Parsed.compaction_style = SizeT(Argument("C", 1))
  /\ Parsed.bits_per_key = Argument("b", 10)
  /\ Parsed.block_cache = Argument("bb", 0)
  /\ Parsed.low_pri = Switch("lowpri", TRUE)
  /\ Parsed.perf_stats_ = Switch("perf", FALSE)
  /\ Parsed.iostat_stats_ = Switch("iostat", FALSE)
  /\ Parsed.rocksdb_stats_ = Switch("stat", FALSE)
  /\ \A o \in DOMAIN Defaults \ SetFields : Parsed[o] = Defaults[o]
<1> DEFINE p1 == SetDatabase(Defaults)
           p2 == SetSizeRatio(p1)
           p3 == SetSizes(p2)
           p4 == SetPolicies(p3)
           p5 == SetReports(p4)
<1>0. Parsed = p5
  BY DEF Parsed
<1>1. /\ DOMAIN p1 = DOMAIN Defaults
      /\ \A o \in DOMAIN Defaults \ DatabaseFields :
           p1[o] = Defaults[o]
  BY SetFieldsExist, SetDatabaseIs
<1> HIDE DEF p1
<1>a. SetFields \subseteq DOMAIN p1
  BY <1>1, SetFieldsExist
<1>2. /\ DOMAIN p2 = DOMAIN Defaults
      /\ p2.size_ratio = Argument("T", p1.size_ratio)
      /\ p2.level0_slowdown_writes_trigger = Argument("T", p1.size_ratio) - 1
      /\ p2.level0_stop_writes_trigger = Argument("T", p1.size_ratio)
      /\ p2.level0_file_num_compaction_trigger = Argument("T", p1.size_ratio)
      /\ \A o \in DOMAIN Defaults \ RatioFields :
           p2[o] = p1[o]
  BY <1>1, <1>a, SetSizeRatioIs
<1> HIDE DEF p2
<1>b. SetFields \subseteq DOMAIN p2
  BY <1>2, SetFieldsExist
<1>3. /\ DOMAIN p3 = DOMAIN Defaults
      /\ p3.buffer_size_in_pages = UInt(Argument("P", p2.buffer_size_in_pages))
      /\ p3.entries_per_page = UInt(Argument("B", p2.entries_per_page))
      /\ p3.entry_size = UInt(Argument("E", p2.entry_size))
      /\ p3.buffer_size_ = SizeT(Argument("M", 0))
      /\ \A o \in DOMAIN Defaults \ SizeFields : p3[o] = p2[o]
  BY <1>2, <1>b, SetSizesIs
<1> HIDE DEF p3
<1>c. SetFields \subseteq DOMAIN p3
  BY <1>3, SetFieldsExist
<1>4. /\ DOMAIN p4 = DOMAIN Defaults
      /\ p4.compaction_pri = UInt16(Argument("c", p3.compaction_pri))
      /\ p4.compaction_style = SizeT(Argument("C", p3.compaction_style))
      /\ p4.bits_per_key = Argument("b", p3.bits_per_key)
      /\ p4.block_cache = Argument("bb", p3.block_cache)
      /\ p4.low_pri = Switch("lowpri", p3.low_pri)
      /\ \A o \in DOMAIN Defaults \ PolicyFields : p4[o] = p3[o]
  BY <1>3, <1>c, SetPoliciesIs
<1> HIDE DEF p4
<1>d. SetFields \subseteq DOMAIN p4
  BY <1>4, SetFieldsExist
<1>5. /\ DOMAIN p5 = DOMAIN Defaults
      /\ p5.perf_stats_ = Switch("perf", p4.perf_stats_)
      /\ p5.iostat_stats_ = Switch("iostat", p4.iostat_stats_)
      /\ p5.rocksdb_stats_ = Switch("stat", p4.rocksdb_stats_)
      /\ \A o \in DOMAIN Defaults \ ReportFields : p5[o] = p4[o]
  BY <1>4, <1>d, SetReportsIs
<1> HIDE DEF p5
<1>e. SetFields \subseteq DOMAIN Defaults
  BY SetFieldsExist
<1>6. \A o \in DOMAIN Defaults \ SetFields : p5[o] = Defaults[o]
  BY <1>1, <1>2, <1>3, <1>4, <1>5 DEF SetFields
<1>7. /\ p1.size_ratio = 4
      /\ p2.buffer_size_in_pages = UInt(128)
      /\ p2.entries_per_page = UInt(64)
      /\ p2.entry_size = UInt(64)
      /\ p3.compaction_pri = 1 /\ p3.compaction_style = 1
      /\ p3.bits_per_key = 10 /\ p3.block_cache = 0
      /\ p3.low_pri = TRUE
  BY <1>1, <1>2, <1>3, <1>e, DefaultValues
     DEF SetFields, DatabaseFields, RatioFields, SizeFields, PolicyFields
<1>8. /\ p4.perf_stats_ = FALSE /\ p4.iostat_stats_ = FALSE
      /\ p4.rocksdb_stats_ = FALSE
  BY <1>1, <1>2, <1>3, <1>4, <1>e, DefaultValues
     DEF SetFields, DatabaseFields, RatioFields, SizeFields, PolicyFields,
         ReportFields
<1>9. /\ p5.size_ratio = p2.size_ratio
      /\ p5.level0_slowdown_writes_trigger = p2.level0_slowdown_writes_trigger
      /\ p5.level0_stop_writes_trigger = p2.level0_stop_writes_trigger
      /\ p5.level0_file_num_compaction_trigger =
           p2.level0_file_num_compaction_trigger
      /\ p5.buffer_size_in_pages = p3.buffer_size_in_pages
      /\ p5.entries_per_page = p3.entries_per_page
      /\ p5.entry_size = p3.entry_size
      /\ p5.buffer_size_ = p3.buffer_size_
      /\ p5.compaction_pri = p4.compaction_pri
      /\ p5.compaction_style = p4.compaction_style
      /\ p5.bits_per_key = p4.bits_per_key
      /\ p5.block_cache = p4.block_cache
      /\ p5.low_pri = p4.low_pri
  BY <1>3, <1>4, <1>5, <1>e
     DEF SetFields, RatioFields, SizeFields, PolicyFields, ReportFields
<1> QED
  BY <1>0, <1>2, <1>3, <1>4, <1>5, <1>6, <1>7, <1>8, <1>9

-----------------------------------------------------------------------------
(* Conversions of integers.                                                 *)

LEMMA Mod ==
  ASSUME NEW n \in Int, NEW k \in Nat, k > 0
  PROVE  /\ n % k \in 0 .. k - 1
         /\ n \in 0 .. k - 1 => n % k = n
         /\ n \in - k .. - 1 => n % k = n + k
OBVIOUS

LEMMA Powers ==
  /\ 2 ^ UIntBits \in Nat /\ 2 ^ UIntBits > 0
  /\ 2 ^ (UIntBits - 1) \in Nat /\ 2 ^ (UIntBits - 1) > 0
  /\ 2 ^ UIntBits = 2 * 2 ^ (UIntBits - 1)
  /\ 2 ^ LongBits \in Nat /\ 2 ^ LongBits > 0
  /\ 2 ^ (LongBits - 1) \in Nat
  /\ 2 ^ UIntBits <= 2 ^ (LongBits - 1)
  /\ 2 ^ LongBits = 2 * 2 ^ (LongBits - 1)
<1>1. 2 ^ (LongBits - 1) \in Int /\ 2 ^ LongBits \in Int
  BY WidthAssumption
<1>2. 2 ^ UIntBits \in Nat /\ 2 ^ UIntBits > 0
  BY PowersAssumption
<1> QED
  BY <1>1, <1>2, PowersAssumption

LEMMA UIntIs ==
  ASSUME NEW n \in Int
  PROVE  UInt(n) \in UInts /\ (n \in UInts => UInt(n) = n)
BY Mod, Powers DEF UInt, UInts

LEMMA SizeTIs ==
  ASSUME NEW n \in Int
  PROVE  /\ SizeT(n) \in 0 .. 2 ^ LongBits - 1
         /\ n \in 0 .. 2 ^ LongBits - 1 => SizeT(n) = n
         /\ n \in - 2 ^ LongBits .. - 1 => SizeT(n) = n + 2 ^ LongBits
BY Mod, Powers DEF SizeT

LEMMA LongIs ==
  ASSUME NEW n \in 0 .. 2 ^ LongBits - 1
  PROVE  /\ n >= 2 ^ (LongBits - 1) =>
              Long(n) = n - 2 ^ LongBits /\ Long(n) < 0
         /\ n < 2 ^ (LongBits - 1) => Long(n) = n
         /\ Long(n) \in Int
         /\ SizeT(Long(n)) = n
<1>1. n \in Int
  OBVIOUS
<1>2. CASE n >= 2 ^ (LongBits - 1)
  <2>1. Long(n) = n - 2 ^ LongBits
    BY <1>2 DEF Long
  <2>2. n - 2 ^ LongBits \in - 2 ^ LongBits .. - 1
    BY <1>2, Powers
  <2>3. SizeT(n - 2 ^ LongBits) = (n - 2 ^ LongBits) + 2 ^ LongBits
    BY <2>2, SizeTIs
  <2> QED
    BY <1>2, <2>1, <2>2, <2>3, Powers
<1>3. CASE n < 2 ^ (LongBits - 1)
  <2>1. Long(n) = n
    BY <1>3, Powers DEF Long
  <2> QED
    BY <1>3, <2>1, SizeTIs, Powers
<1> QED
  BY <1>1, <1>2, <1>3, Powers

LEMMA ArgumentIs ==
  ASSUME ParserInv, NEW f \in Flags, NEW d \in Int
  PROVE  /\ Argument(f, d) \in Int
         /\ ~Given(f) => Argument(f, d) = d
         /\ Given(f) => /\ Argument(f, d) = value[f]
                        /\ value[f] \in
                             - (2 ^ (Width(f) - 1)) .. 2 ^ (Width(f) - 1) - 1
<1>1. value[f] \in - (2 ^ (Width(f) - 1)) .. 2 ^ (Width(f) - 1) - 1
  BY DEF ParserInv, ParserTypeOK
<1> QED
  BY <1>1, PowersType DEF Argument

LEMMA ArgumentType ==
  ASSUME ParserInv, NEW f \in Flags, NEW d \in Int
  PROVE  Argument(f, d) \in Int
BY ArgumentIs

LEMMA SwitchIs ==
  ASSUME NEW f, NEW d \in BOOLEAN
  PROVE  Switch(f, d) \in BOOLEAN
BY DEF Switch

LEMMA FlagsAre ==
  {"T", "P", "B", "E", "M", "C", "c", "b", "bb", "perf", "iostat"}
    \subseteq Flags
BY DEF Flags, Matchers

LEMMA ParsedType ==
  ASSUME ParserInv
  PROVE  /\ Parsed.size_ratio \in Int
         /\ Parsed.buffer_size_in_pages \in UInts
         /\ Parsed.entries_per_page \in UInts
         /\ Parsed.entry_size \in UInts
         /\ Parsed.buffer_size_ \in 0 .. 2 ^ LongBits - 1
         /\ Parsed.bits_per_key \in Int /\ Parsed.block_cache \in Int
         /\ Parsed.perf_stats_ \in BOOLEAN /\ Parsed.iostat_stats_ \in BOOLEAN
         /\ Parsed.rocksdb_stats_ \in BOOLEAN
<1>1. UInt(64) \in Int /\ UInt(128) \in Int
  BY UIntIs DEF UInts
<1>a. \A f \in Flags : \A d \in Int : Argument(f, d) \in Int
  BY ArgumentType
<1>2. /\ Argument("T", 4) \in Int /\ Argument("P", UInt(128)) \in Int
      /\ Argument("B", UInt(64)) \in Int /\ Argument("E", UInt(64)) \in Int
      /\ Argument("M", 0) \in Int /\ Argument("b", 10) \in Int
      /\ Argument("bb", 0) \in Int
  <2>1. /\ "T" \in Flags /\ "P" \in Flags /\ "B" \in Flags /\ "E" \in Flags
        /\ "M" \in Flags /\ "b" \in Flags /\ "bb" \in Flags
    BY FlagsAre
  <2> QED
    BY <1>1, <1>a, <2>1
<1>3. /\ Switch("perf", FALSE) \in BOOLEAN
      /\ Switch("iostat", FALSE) \in BOOLEAN
      /\ Switch("stat", FALSE) \in BOOLEAN
  BY SwitchIs
<1>4. /\ Parsed.buffer_size_in_pages \in UInts
      /\ Parsed.entries_per_page \in UInts
      /\ Parsed.entry_size \in UInts
  BY <1>2, UIntIs, ParsedIs
<1>5. Parsed.buffer_size_ \in 0 .. 2 ^ LongBits - 1
  BY <1>2, SizeTIs, ParsedIs
<1> QED
  BY <1>2, <1>3, <1>4, <1>5, ParsedIs

LEMMA BufferSizeIs ==
  ASSUME NEW e, e.buffer_size_in_pages \in UInts,
         e.entries_per_page \in UInts, e.entry_size \in UInts,
         e.buffer_size_ \in 0 .. 2 ^ LongBits - 1
  PROVE  /\ GetBlockSize(e) \in UInts
         /\ GetBufferSize(e) \in 0 .. 2 ^ LongBits - 1
         /\ e.buffer_size_ = 0 => GetBufferSize(e) \in UInts
<1>1. /\ e.entries_per_page * e.entry_size \in Int
      /\ e.buffer_size_in_pages * e.entries_per_page \in Int
  BY Powers DEF UInts
<1>2. UInt(e.buffer_size_in_pages * e.entries_per_page) * e.entry_size \in Int
  <2>1. /\ UInt(e.buffer_size_in_pages * e.entries_per_page) \in Int
        /\ e.entry_size \in Int
    BY <1>1, UIntIs DEF UInts
  <2> QED BY <2>1
<1>3. UInt(UInt(e.buffer_size_in_pages * e.entries_per_page) * e.entry_size)
        \in UInts
  BY <1>2, UIntIs
<1>4. UInts \subseteq 0 .. 2 ^ LongBits - 1
  BY Powers DEF UInts
<1>5. UInt(e.entries_per_page * e.entry_size) \in UInts
  BY <1>1, UIntIs
<1>6. GetBlockSize(e) \in UInts
  BY <1>5 DEF GetBlockSize
<1>7. /\ GetBufferSize(e) \in 0 .. 2 ^ LongBits - 1
      /\ e.buffer_size_ = 0 => GetBufferSize(e) \in UInts
  BY <1>3, <1>4, Zenon DEF GetBufferSize
<1> QED
  BY <1>6, <1>7

-----------------------------------------------------------------------------
(* The inductive invariant of the configuration.                            *)

(* The statements after configOptions.                                      *)
Opened == {"PrintExperimentalSetup", "DB::Open", "returned"}

(* What the options and the environment are made of.                        *)
OptionsFollow ==
  \E capacity \in Capacities(Parsed) :
    /\ options = ConfiguredFrom(Parsed, capacity)
    /\ env = [Parsed EXCEPT !.no_block_cache = options.no_block_cache]

(* The statement says how far the flags have got: into env, into options,   *)
(* into what is measured, into the log.                                     *)
ConfigInv ==
  /\ ParserInv
  /\ stmt \in {"parse_arguments", "configOptions", "exited"} \cup Opened
  /\ stmt = "configOptions" => env = Parsed
  /\ stmt \in {"parse_arguments", "exited"} => env = Defaults
  /\ stmt \in {"parse_arguments", "configOptions", "exited"} =>
       options = NoOptions
  /\ stmt \in Opened => OptionsFollow
  /\ stmt \in {"PrintExperimentalSetup", "DB::Open"} => perf = PerfOf(Parsed)
  /\ DOMAIN log = {"setup", "sections"}
  /\ log.setup # NoRow =>
       stmt \in {"DB::Open", "returned"} /\ log.setup = SetupRow(env)

LEMMA ParsedKept ==
  ASSUME UNCHANGED parserVars
  PROVE  Parsed' = Parsed
<1> DEFINE p1 == SetDatabase(Defaults)
           p2 == SetSizeRatio(p1)
           p3 == SetSizes(p2)
           p4 == SetPolicies(p3)
           p5 == SetReports(p4)
<1>0. matched' = matched /\ value' = value
  BY DEF parserVars
<1>1. p1' = p1
  BY <1>0 DEF SetDatabase, Switch, Given
<1> HIDE DEF p1
<1>2. p2' = p2
  BY <1>0, <1>1 DEF SetSizeRatio, Argument, Given
<1> HIDE DEF p2
<1>3. p3' = p3
  BY <1>0, <1>2 DEF SetSizes, Argument, Given
<1> HIDE DEF p3
<1>4. p4' = p4
  BY <1>0, <1>3 DEF SetPolicies, Argument, Switch, Given
<1> HIDE DEF p4
<1>5. p5' = p5
  BY <1>0, <1>4 DEF SetReports, Argument, Switch, Given
<1> QED
  BY <1>5 DEF Parsed, p1, p2, p3, p4, p5

LEMMA ConfigStarts == Init => ConfigInv
BY ParserStarts DEF Init, ConfigInv, Opened

LEMMA ConfigSteps ==
  ASSUME ConfigInv, Next
  PROVE  ConfigInv'
<1>0. ParserInv'
  BY ParserNext DEF ConfigInv
<1>p. UNCHANGED parserVars => Parsed' = Parsed
  BY ParsedKept
<1>1. CASE ReadArguments
  BY <1>0, <1>1 DEF ReadArguments, ConfigInv, Opened
<1>2. CASE SetArguments
  <2>1. env' = Parsed'
    BY <1>p, <1>2 DEF SetArguments, ConfigInv, Parsed
  <2> QED
    BY <1>0, <1>2, <2>1 DEF SetArguments, ConfigInv, Opened
<1>3. CASE ParseFails
  BY <1>0, <1>3 DEF ParseFails, ConfigInv, Opened
<1>4. CASE ConfigOptions
  <2>1. Parsed' = Parsed /\ env = Parsed
    BY <1>p, <1>4 DEF ConfigOptions, ConfigInv
  <2>2. OptionsFollow'
    BY <1>4, <2>1 DEF ConfigOptions, OptionsFollow
  <2>3. perf' = PerfOf(Parsed')
    BY <1>4, <2>1 DEF ConfigOptions
  <2> QED
    BY <1>0, <1>4, <2>2, <2>3 DEF ConfigOptions, ConfigInv, Opened
<1>5. CASE PrintExperimentalSetup
  <2>1. Parsed' = Parsed
    BY <1>p, <1>5 DEF PrintExperimentalSetup
  <2>2. OptionsFollow'
    BY <1>5, <2>1 DEF PrintExperimentalSetup, OptionsFollow, ConfigInv, Opened
  <2>3. DOMAIN log' = {"setup", "sections"}
    BY <1>5 DEF PrintExperimentalSetup, ConfigInv
  <2>4. log'.setup = NoRow \/ log'.setup = SetupRow(env)
    <3>1. log.setup = NoRow
      BY <1>5 DEF PrintExperimentalSetup, ConfigInv
    <3>2. log'.setup = IF env.verbosity > 0 THEN SetupRow(env) ELSE log.setup
      BY <1>5 DEF PrintExperimentalSetup, ConfigInv
    <3> QED
      BY <3>1, <3>2
  <2>5. log'.setup = NoRow \/ log'.setup = SetupRow(env')
    BY <1>5, <2>4 DEF PrintExperimentalSetup
  <2>6. perf' = PerfOf(Parsed')
    BY <1>5, <2>1 DEF PrintExperimentalSetup, ConfigInv
  <2> QED
    BY <1>0, <1>5, <2>2, <2>3, <2>5, <2>6
       DEF PrintExperimentalSetup, ConfigInv, Opened
<1>6. CASE PrintRocksDBPerfStats
  <2>1. Parsed' = Parsed
    BY <1>p, <1>6 DEF PrintRocksDBPerfStats
  <2>2. OptionsFollow'
    BY <1>6, <2>1 DEF PrintRocksDBPerfStats, OptionsFollow, ConfigInv, Opened
  <2>3. DOMAIN log' = {"setup", "sections"} /\ log'.setup = log.setup
    BY <1>6 DEF PrintRocksDBPerfStats, ConfigInv
  <2>4. log'.setup # NoRow => log'.setup = SetupRow(env')
    BY <1>6, <2>3 DEF PrintRocksDBPerfStats, ConfigInv
  <2> QED
    BY <1>0, <1>6, <2>2, <2>3, <2>4
       DEF PrintRocksDBPerfStats, ConfigInv, Opened
<1> QED
  BY <1>1, <1>2, <1>3, <1>4, <1>5, <1>6 DEF Next

LEMMA ConfigStutters ==
  ASSUME ConfigInv, UNCHANGED vars
  PROVE  ConfigInv'
<1>0. ParserInv'
  BY ParserNext DEF ConfigInv
<1>1. Parsed' = Parsed
  BY ParsedKept DEF vars
<1>2. OptionsFollow => OptionsFollow'
  BY <1>1 DEF vars, OptionsFollow
<1> QED
  BY <1>0, <1>1, <1>2 DEF vars, ConfigInv

(* At every statement of main, env and options are what the flags and the   *)
(* defaults make of them, and a setup that is logged describes this env.    *)
THEOREM ConfigInvariant == Spec => []ConfigInv
BY ConfigStarts, ConfigSteps, ConfigStutters, PTL DEF Spec

-----------------------------------------------------------------------------
(* The type invariant.                                                      *)

LEMMA IsConfigured ==
  ASSUME NEW e, NEW capacity
  PROVE  ConfiguredFrom(e, capacity) # NoOptions
<1>1. /\ "low_pri" \in OptionNames
      /\ DOMAIN ConfiguredFrom(e, capacity) = OptionNames
  BY NamesApart, ConfiguredIs DEF OptionNames
<1> QED
  BY <1>1 DEF NoOptions

(* The options are what configOptions makes of the environment it got.      *)
LEMMA ConfiguredFollow ==
  ASSUME ConfigInv, Configured
  PROVE  stmt \in Opened /\ OptionsFollow
BY DEF ConfigInv, Configured

LEMMA EnvironmentKept ==
  ASSUME OptionsFollow
  PROVE  /\ DOMAIN env = DOMAIN Defaults
         /\ \A o \in DOMAIN Defaults \ {"no_block_cache"} : env[o] = Parsed[o]
BY ParsedIs, SetFieldsExist DEF OptionsFollow

(* The environment has the fields of DBEnv, its sizes are unsigned ints     *)
(* whatever the command line holds, and options are set from configOptions  *)
(* on (config_options.h, parse_arguments.h).                                *)
THEOREM ConfigTypeCorrect == Spec => []TypeOK
<1>1. ConfigInv => TypeOK
  <2> SUFFICES ASSUME ConfigInv PROVE TypeOK
    OBVIOUS
  <2>1. Configured <=> stmt \in Opened
    BY IsConfigured DEF ConfigInv, OptionsFollow, Configured, Opened
  <2>2. ParserInv
    BY DEF ConfigInv
  <2>3. /\ DOMAIN env = DOMAIN Defaults
        /\ env.buffer_size_in_pages \in UInts /\ env.entries_per_page \in UInts
        /\ env.entry_size \in UInts
    <3>1. CASE stmt = "configOptions"
      BY <2>2, <3>1, ParsedIs, ParsedType DEF ConfigInv
    <3>2. CASE stmt \in {"parse_arguments", "exited"}
      BY <3>2, DefaultValues, UIntIs DEF ConfigInv
    <3>3. CASE stmt \in Opened
      BY <2>2, <3>3, EnvironmentKept, SetFieldsExist, ParsedType
         DEF ConfigInv, SetFields, SizeFields
    <3> QED
      BY <3>1, <3>2, <3>3 DEF ConfigInv
  <2>4. Configured => options.block_size \in UInts
    <3> SUFFICES ASSUME Configured PROVE options.block_size \in UInts
      OBVIOUS
    <3>1. PICK capacity : options = ConfiguredFrom(Parsed, capacity)
      BY ConfiguredFollow DEF OptionsFollow
    <3>2. options.block_size = GetBlockSize(Parsed)
      BY <3>1, ConfiguredIs DEF SizesOf, SizeOptions
    <3> QED
      BY <2>2, <3>2, ParsedType, BufferSizeIs
  <2> QED
    BY <2>1, <2>2, <2>3, <2>4 DEF TypeOK, ConfigInv, ParserInv, Opened
<1> QED
  BY <1>1, ConfigInvariant, PTL

-----------------------------------------------------------------------------
(* What RocksDB is opened with, in terms of the flags.                      *)

LEMMA TreeOptionsAre ==
  ASSUME NEW capacity, options = ConfiguredFrom(Parsed, capacity)
  PROVE  /\ options.max_bytes_for_level_multiplier = Argument("T", 4)
         /\ options.level0_stop_writes_trigger = Argument("T", 4)
         /\ options.level0_slowdown_writes_trigger = Argument("T", 4) - 1
         /\ options.compaction_style =
              Chosen("compaction_style", SizeT(Argument("C", 1)))
         /\ options.compaction_pri =
              Chosen("compaction_pri", UInt16(Argument("c", 1)))
         /\ options.level0_file_num_compaction_trigger =
              IF options.compaction_style = "Universal" THEN 4
              ELSE Argument("T", 4)
<1>1. options.max_bytes_for_level_multiplier = Argument("T", 4)
  <2>1. options.max_bytes_for_level_multiplier =
          SizesOf(Parsed).max_bytes_for_level_multiplier
    BY ConfiguredIs DEF SizeOptions
  <2> QED
    BY <2>1, ParsedIs DEF SizesOf
<1>2. /\ options.level0_stop_writes_trigger = Argument("T", 4)
      /\ options.level0_slowdown_writes_trigger = Argument("T", 4) - 1
  <2>1. \A o \in Copied : options[o] = Parsed[o]
    BY ConfiguredIs
  <2> QED
    BY <2>1, NamesApart, ParsedIs
<1>3. /\ options.compaction_style =
           Chosen("compaction_style", SizeT(Argument("C", 1)))
      /\ options.compaction_pri =
           Chosen("compaction_pri", UInt16(Argument("c", 1)))
  <2>1. \A o \in CaseOptions : options[o] = Chosen(o, Parsed[o])
    BY ConfiguredIs
  <2>2. "compaction_style" \in CaseOptions /\ "compaction_pri" \in CaseOptions
    BY DEF CaseOptions
  <2> QED
    BY <2>1, <2>2, ParsedIs
<1>4. options.level0_file_num_compaction_trigger =
        ShapeOf(Parsed).level0_file_num_compaction_trigger
  BY ConfiguredIs DEF ShapeOf
<1>5. ShapeOf(Parsed).level0_file_num_compaction_trigger =
        IF Chosen("compaction_style", Parsed.compaction_style) = "Universal"
        THEN 4 ELSE Argument("T", 4)
  <2>1. RocksDBDefaults.level0_file_num_compaction_trigger = 4
    BY DEF RocksDBDefaults
  <2> QED
    BY <2>1, ParsedIs DEF ShapeOf
<1> QED
  BY <1>1, <1>2, <1>3, <1>4, <1>5, ParsedIs

LEMMA TriggersDo == ConfigInv => TriggersFollowRatio
<1> SUFFICES ASSUME ConfigInv, Configured
             PROVE  LET T == options.max_bytes_for_level_multiplier
                    IN  /\ options.level0_stop_writes_trigger = T
                        /\ options.level0_slowdown_writes_trigger = T - 1
                        /\ options.compaction_style # "Universal" =>
                             options.level0_file_num_compaction_trigger = T
  BY DEF TriggersFollowRatio
<1>1. PICK capacity : options = ConfiguredFrom(Parsed, capacity)
  BY ConfiguredFollow DEF OptionsFollow
<1> QED
  BY <1>1, TreeOptionsAre

(* The three triggers of level 0 that RocksDB gets follow the size ratio it *)
(* gets (parse_arguments.h:105, config_options.h:112), for any value of T.  *)
THEOREM TriggersAgree == Spec => []TriggersFollowRatio
BY TriggersDo, ConfigInvariant, PTL

(* Only the number 2 chooses the universal style, and none wraps around to  *)
(* it, as -C takes an int and compaction_style is a size_t.                 *)
LEMMA UniversalIs ==
  ASSUME ParserInv,
         Chosen("compaction_style", SizeT(Argument("C", 1))) = "Universal"
  PROVE  Given("C") /\ value.C = 2
<1>1. SizeT(Argument("C", 1)) = 2
  <2>1. Cases["compaction_style"] = CompactionStyles
    BY DEF Cases
  <2>2. RocksDBDefaults["compaction_style"] = "Level"
    BY DEF RocksDBDefaults
  <2>3. \A n : /\ n \in DOMAIN CompactionStyles
               /\ CompactionStyles[n] = "Universal"
               => n = 2
    BY DEF CompactionStyles
  <2> QED
    BY <2>1, <2>2, <2>3 DEF Chosen
<1>2. "C" \in Flags /\ "C" \notin LongFlags
  BY FlagsAre DEF LongFlags
<1>3. SizeT(1) = 1
  <2>1. 1 \in 0 .. 2 ^ LongBits - 1
    BY Powers
  <2> QED
    BY <2>1, SizeTIs
<1>4. Given("C")
  <2>1. ~ Given("C") => Argument("C", 1) = 1
    BY <1>2, ArgumentIs
  <2> QED
    BY <1>1, <1>3, <2>1
<1>5. /\ Argument("C", 1) = value["C"]
      /\ value["C"] \in - (2 ^ (UIntBits - 1)) .. 2 ^ (UIntBits - 1) - 1
  BY <1>2, <1>4, ArgumentIs DEF Width
<1>6. PICK n \in Int : n = value["C"]
  BY <1>5, Powers
<1>7. SizeT(n) = 2
  BY <1>1, <1>5, <1>6
<1>8. CASE n >= 0
  <2>1. n \in 0 .. 2 ^ LongBits - 1
    BY <1>5, <1>6, <1>8, Powers
  <2> QED
    BY <1>4, <1>6, <1>7, <2>1, SizeTIs
<1>9. CASE n < 0
  <2>1. n \in - 2 ^ LongBits .. - 1
    BY <1>5, <1>6, <1>9, Powers
  <2>2. SizeT(n) = n + 2 ^ LongBits
    BY <2>1, SizeTIs
  <2>3. PICK half \in Nat : half = 2 ^ (UIntBits - 1) /\ half > 0
    BY Powers
  <2>4. n >= - half /\ 2 ^ LongBits >= 4 * half
    BY <1>5, <1>6, <2>3, Powers
  <2> QED
    BY <1>7, <2>2, <2>3, <2>4, Powers
<1> QED
  BY <1>8, <1>9

LEMMA CompactionDue == ConfigInv => CompactionDueBeforeStop
<1> SUFFICES ASSUME ConfigInv, Configured,
                    options.compaction_style \in {"Level", "Universal"},
                    ~ (/\ 1 <= options.level0_file_num_compaction_trigger
                       /\ options.level0_file_num_compaction_trigger
                            <= options.level0_stop_writes_trigger),
                    ~ (Given("T") /\ value.T < 1)
             PROVE  Given("C") /\ value.C = 2 /\ Given("T") /\ value.T < 4
  BY DEF CompactionDueBeforeStop
<1>0. ParserInv
  BY DEF ConfigInv
<1>1. PICK capacity : options = ConfiguredFrom(Parsed, capacity)
  BY ConfiguredFollow DEF OptionsFollow
<1>2. /\ options.level0_stop_writes_trigger = Argument("T", 4)
      /\ options.compaction_style =
           Chosen("compaction_style", SizeT(Argument("C", 1)))
      /\ options.level0_file_num_compaction_trigger =
           IF options.compaction_style = "Universal" THEN 4
           ELSE Argument("T", 4)
  BY <1>1, TreeOptionsAre
<1>3. /\ Argument("T", 4) \in Int
      /\ ~ Given("T") => Argument("T", 4) = 4
      /\ Given("T") => Argument("T", 4) = value["T"]
  <2>1. "T" \in Flags
    BY FlagsAre
  <2> QED
    BY <1>0, <2>1, ArgumentIs
<1>4. Argument("T", 4) >= 1
  BY <1>3
<1>5. options.compaction_style = "Universal" /\ Argument("T", 4) < 4
  BY <1>2, <1>3, <1>4
<1>6. Given("C") /\ value.C = 2
  BY <1>0, <1>2, <1>5, UniversalIs
<1>7. Given("T") /\ value["T"] < 4
  BY <1>3, <1>5
<1> QED
  BY <1>6, <1>7

(* RocksDB is asked to compact level 0, in a style that compacts it by the  *)
(* number of its files, no later than it stops the writes, but with a size  *)
(* ratio below 1, or the universal style and a size ratio below 4.          *)
THEOREM CompactionDueInTime == Spec => []CompactionDueBeforeStop
BY CompactionDue, ConfigInvariant, PTL

LEMMA Multiples ==
  ASSUME NEW p \in Nat, NEW m \in Nat, p > 0
  PROVE  m <= p * m
OBVIOUS

(* The sizes of a page and of the buffer are exact where nothing wraps.     *)
LEMMA ProductsAreExact ==
  ASSUME ParserInv
  PROVE  LET p == Parsed.buffer_size_in_pages
             b == Parsed.entries_per_page
             s == Parsed.entry_size
         IN  /\ b * s \in UInts => GetBlockSize(Parsed) = b * s
             /\ Parsed.buffer_size_ = 0 /\ ~ Overflows(p, b, s) =>
                  GetBufferSize(Parsed) = p * b * s
<1>1. PICK p \in UInts, b \in UInts, s \in UInts :
        /\ p = Parsed.buffer_size_in_pages /\ b = Parsed.entries_per_page
        /\ s = Parsed.entry_size
  BY ParsedType
<1>2. p \in Nat /\ b \in Nat /\ s \in Nat
  BY <1>1, Powers DEF UInts
<1>3. b * s \in UInts => GetBlockSize(Parsed) = b * s
  BY <1>1, <1>2, UIntIs DEF GetBlockSize
<1>4. ASSUME Parsed.buffer_size_ = 0, ~ Overflows(p, b, s)
      PROVE  GetBufferSize(Parsed) = p * b * s
  <2>1. p * b \in UInts /\ p * b * s \in UInts
    BY <1>4, Zenon DEF Overflows
  <2>2. UInt(p * b) = p * b
    BY <1>2, <2>1, UIntIs
  <2>3. UInt(p * b * s) = p * b * s
    BY <1>2, <2>1, UIntIs
  <2> QED
    BY <1>1, <1>4, <2>2, <2>3 DEF GetBufferSize
<1> QED
  BY <1>1, <1>3, <1>4

LEMMA BufferHolds == ConfigInv => BufferHoldsPage
<1> SUFFICES ASSUME ConfigInv, Configured,
                    env.buffer_size_ = 0, env.buffer_size_in_pages # 0,
                    ~ Overflows(env.buffer_size_in_pages,
                                env.entries_per_page, env.entry_size)
             PROVE  ~ (options.block_size > options.write_buffer_size)
  BY DEF BufferHoldsPage
<1>0. ParserInv
  BY DEF ConfigInv
<1>1. PICK capacity : options = ConfiguredFrom(Parsed, capacity)
  BY ConfiguredFollow DEF OptionsFollow
<1>2. /\ options.block_size = GetBlockSize(Parsed)
      /\ options.write_buffer_size = GetBufferSize(Parsed)
  BY <1>1, ConfiguredIs DEF SizesOf, SizeOptions
<1>3. \A o \in SizeFields : env[o] = Parsed[o]
  BY ConfiguredFollow, EnvironmentKept, SetFieldsExist
     DEF SetFields, SizeFields
<1>4. PICK p \in UInts, b \in UInts, s \in UInts :
        /\ p = Parsed.buffer_size_in_pages /\ b = Parsed.entries_per_page
        /\ s = Parsed.entry_size
  BY <1>0, ParsedType
<1>5. ~ Overflows(p, b, s) /\ p # 0 /\ Parsed.buffer_size_ = 0
  BY <1>3, <1>4 DEF SizeFields
<1>6. p * b \in UInts /\ p * b * s \in UInts
  BY <1>5, Zenon DEF Overflows
<1>7. p \in Nat /\ b \in Nat /\ s \in Nat /\ p > 0 /\ b * s \in Nat
  BY <1>4, <1>5, Powers DEF UInts
<1>8. p * b * s = p * (b * s)
  BY <1>7
<1>9. b * s <= p * (b * s)
  BY <1>7, Multiples
<1>10. b * s \in UInts
  BY <1>6, <1>7, <1>8, <1>9, Powers DEF UInts
<1>11. /\ GetBlockSize(Parsed) = b * s
       /\ GetBufferSize(Parsed) = p * b * s
  BY <1>0, <1>4, <1>5, <1>10, ProductsAreExact
<1> QED
  BY <1>2, <1>7, <1>8, <1>9, <1>11

(* A write buffer smaller than a page comes from -M, from no pages or from  *)
(* an overflow of GetBufferSize (db_env.h:86), for integers of any width.   *)
THEOREM BufferBelowPageExplained == Spec => []BufferHoldsPage
BY BufferHolds, ConfigInvariant, PTL

-----------------------------------------------------------------------------
(* The setup in the log.                                                    *)

LEMMA CapacityIs ==
  ASSUME NEW e, e.block_cache \in Int,
         e.block_cache * Megabyte \in 1 .. 2 ^ (UIntBits - 1) - 1
  PROVE  Capacities(e) = {e.block_cache * Megabyte}
<1>1. PICK exact \in Int : exact = e.block_cache * Megabyte
  BY MegabyteAssumption
<1>2. PICK half \in Nat : half = 2 ^ (UIntBits - 1)
  BY Powers
<1>3. exact \in 1 .. half - 1
  BY <1>1, <1>2
<1>4. SizeT(exact) = exact
  <2>1. exact \in 0 .. 2 ^ LongBits - 1
    BY <1>2, <1>3, Powers
  <2> QED
    BY <2>1, SizeTIs
<1>5. UInt(exact + half) = exact + half
  <2>1. exact + half \in UInts
    BY <1>2, <1>3, Powers DEF UInts
  <2> QED
    BY <2>1, UIntIs
<1>6. UInt(exact + half) - half = exact
  BY <1>5
<1>7. Capacities(e) = {SizeT(exact), SizeT(UInt(exact + half) - half)}
  BY <1>1, <1>2 DEF Capacities
<1> QED
  BY <1>1, <1>4, <1>6, <1>7

LEMMA RowOfParsed ==
  ASSUME ConfigInv, OptionsFollow
  PROVE  SetupRow(env) = SetupRow(Parsed)
<1>1. \A o \in {"compaction_style", "compaction_pri", "size_ratio",
               "buffer_size_in_pages", "entries_per_page", "entry_size",
               "buffer_size_", "block_cache", "bits_per_key"} :
        env[o] = Parsed[o]
  BY EnvironmentKept, SetFieldsExist
     DEF SetFields, RatioFields, SizeFields, PolicyFields
<1>2. GetBufferSize(env) = GetBufferSize(Parsed)
  BY <1>1 DEF GetBufferSize
<1> QED
  BY <1>1, <1>2 DEF SetupRow, GetTargetFileSizeBase, GetMaxBytesForLevelBase

LEMMA SetupTells == ConfigInv => SetupTellsOptions
<1> SUFFICES ASSUME ConfigInv, log.setup # NoRow PROVE SetupTellsOptions
  BY DEF SetupTellsOptions
<1> DEFINE row == SetupRow(Parsed)
<1>0. ParserInv
  BY DEF ConfigInv
<1>1. OptionsFollow /\ log.setup = SetupRow(env)
  BY DEF ConfigInv, Opened
<1>2. log.setup = row
  BY <1>1, RowOfParsed
<1>3. PICK capacity \in Capacities(Parsed) :
        options = ConfiguredFrom(Parsed, capacity)
  BY <1>1 DEF OptionsFollow
<1>4. /\ row.cmpt_sty = Parsed.compaction_style
      /\ row.cmpt_pri = Parsed.compaction_pri
      /\ row.T = Parsed.size_ratio /\ row.M = GetBufferSize(Parsed)
      /\ row.file_size = Long(GetBufferSize(Parsed))
      /\ row.L1_size = SizeT(Long(GetBufferSize(Parsed)))
      /\ row.blk_cch = Parsed.block_cache /\ row.BPK = Parsed.bits_per_key
      /\ row.P = Parsed.buffer_size_in_pages
      /\ row.B = Parsed.entries_per_page /\ row.E = Parsed.entry_size
  BY DEF SetupRow, GetTargetFileSizeBase, GetMaxBytesForLevelBase
<1>5. /\ options.max_bytes_for_level_multiplier = Parsed.size_ratio
      /\ options.write_buffer_size = GetBufferSize(Parsed)
      /\ options.target_file_size_base = SizeT(Long(GetBufferSize(Parsed)))
      /\ options.max_bytes_for_level_base = SizeT(Long(GetBufferSize(Parsed)))
  BY <1>3, ConfiguredIs
     DEF SizesOf, GetTargetFileSizeBase, GetMaxBytesForLevelBase, SizeOptions
<1>6. /\ Parsed.compaction_style \in DOMAIN CompactionStyles =>
           options.compaction_style = CompactionStyles[Parsed.compaction_style]
      /\ Parsed.compaction_pri \in DOMAIN CompactionPris =>
           options.compaction_pri = CompactionPris[Parsed.compaction_pri]
  <2>1. /\ options.compaction_style =
             Chosen("compaction_style", Parsed.compaction_style)
        /\ options.compaction_pri =
             Chosen("compaction_pri", Parsed.compaction_pri)
    BY <1>3, TreeOptionsAre, ParsedIs
  <2>2. /\ Cases["compaction_style"] = CompactionStyles
        /\ Cases["compaction_pri"] = CompactionPris
    BY DEF Cases
  <2> QED
    BY <2>1, <2>2 DEF Chosen
<1>7. GetBufferSize(Parsed) \in 0 .. 2 ^ LongBits - 1
  BY <1>0, ParsedType, BufferSizeIs
<1>8. SizeT(Long(GetBufferSize(Parsed))) = GetBufferSize(Parsed)
  BY <1>7, LongIs
<1>9. Long(GetBufferSize(Parsed)) # SizeT(Long(GetBufferSize(Parsed))) =>
        Long(GetBufferSize(Parsed)) < 0 /\ Given("M") /\ value["M"] < 0
  <2> SUFFICES ASSUME Long(GetBufferSize(Parsed)) # GetBufferSize(Parsed)
               PROVE  /\ Long(GetBufferSize(Parsed)) < 0
                      /\ Given("M") /\ value["M"] < 0
    BY <1>8
  <2>1. PICK n \in 0 .. 2 ^ LongBits - 1 : n = GetBufferSize(Parsed)
    BY <1>7
  <2>2. n >= 2 ^ (LongBits - 1) /\ Long(n) < 0
    BY <2>1, LongIs, Powers
  <2>3. Parsed.buffer_size_ # 0
    BY <1>0, <2>1, <2>2, ParsedType, BufferSizeIs, Powers DEF UInts
  <2>4. n = SizeT(Argument("M", 0))
    BY <2>1, <2>3, ParsedIs DEF GetBufferSize
  <2>5. "M" \in Flags /\ Width("M") = LongBits
    BY FlagsAre DEF Width, LongFlags
  <2>6. SizeT(0) = 0
    <3>1. 0 \in 0 .. 2 ^ LongBits - 1
      BY Powers
    <3> QED
      BY <3>1, SizeTIs
  <2>7. Given("M")
    <3>1. ~ Given("M") => Argument("M", 0) = 0
      BY <1>0, <2>5, ArgumentIs
    <3> QED
      BY <2>2, <2>4, <2>6, <3>1, Powers, PowersType, <2>5
  <2>8. /\ Argument("M", 0) = value["M"]
        /\ value["M"] \in - (2 ^ (LongBits - 1)) .. 2 ^ (LongBits - 1) - 1
    BY <1>0, <2>5, <2>7, ArgumentIs
  <2>9. PICK m \in Int : m = value["M"]
    BY <2>8, Powers
  <2>10. m < 0
    <3> SUFFICES ASSUME m >= 0 PROVE FALSE
      OBVIOUS
    <3>1. m \in 0 .. 2 ^ LongBits - 1 /\ m < 2 ^ (LongBits - 1)
      BY <2>8, <2>9, Powers
    <3>2. SizeT(m) = m
      BY <3>1, SizeTIs
    <3> QED
      BY <2>2, <2>4, <2>8, <2>9, <3>1, <3>2, Powers
  <2> QED
    BY <2>1, <2>2, <2>7, <2>9, <2>10
<1>10. options.block_cache = IF Parsed.block_cache = 0 THEN {} ELSE {capacity}
  BY <1>3, ConfiguredIs DEF CacheOf, CacheOptions
<1>11. Parsed.block_cache * Megabyte \in 1 .. 2 ^ (UIntBits - 1) - 1 =>
         options.block_cache = {Parsed.block_cache * Megabyte}
  <2> SUFFICES ASSUME Parsed.block_cache * Megabyte
                        \in 1 .. 2 ^ (UIntBits - 1) - 1
               PROVE  options.block_cache = {Parsed.block_cache * Megabyte}
    OBVIOUS
  <2>1. Parsed.block_cache \in Int
    BY <1>0, ParsedType
  <2>2. capacity = Parsed.block_cache * Megabyte
    BY <1>3, <2>1, CapacityIs
  <2>3. Parsed.block_cache # 0
    <3>1. 0 * Megabyte = 0
      BY MegabyteAssumption
    <3> QED
      BY <2>1, <3>1, Powers
  <2> QED
    BY <1>10, <2>2, <2>3
<1>12. options.block_cache = {} <=> Parsed.block_cache = 0
  BY <1>10
<1>13. options.filter_policy =
         IF Parsed.bits_per_key = 0 THEN {} ELSE {Parsed.bits_per_key}
  BY <1>3, ConfiguredIs DEF FilterPolicy
<1>14. /\ \/ Given("M") /\ env.buffer_size_ # 0
          \/ Overflows(row.P, row.B, row.E)
          \/ row.P * row.B * row.E = options.write_buffer_size
       /\ row.B * row.E \in UInts => row.B * row.E = options.block_size
  <2>1. options.block_size = GetBlockSize(Parsed)
    BY <1>3, ConfiguredIs DEF SizesOf, SizeOptions
  <2>2. env.buffer_size_ = Parsed.buffer_size_
    BY <1>1, EnvironmentKept, SetFieldsExist DEF SetFields, SizeFields
  <2>3. Parsed.buffer_size_ # 0 => Given("M")
    <3>1. ~ Given("M") => Argument("M", 0) = 0
      <4>1. "M" \in Flags
        BY FlagsAre
      <4> QED
        BY <1>0, <4>1, ArgumentIs
    <3>2. SizeT(0) = 0
      <4>1. 0 \in 0 .. 2 ^ LongBits - 1
        BY Powers
      <4> QED
        BY <4>1, SizeTIs
    <3>3. Parsed.buffer_size_ = SizeT(Argument("M", 0))
      BY ParsedIs
    <3> QED
      BY <3>1, <3>2, <3>3
  <2> HIDE DEF row
  <2> QED
    BY <1>0, <1>4, <1>5, <2>1, <2>2, <2>3, ProductsAreExact
<1> HIDE DEF row
<1> QED
  BY <1>2, <1>4, <1>5, <1>6, <1>8, <1>9, <1>11, <1>12, <1>13, <1>14
     DEF SetupTellsOptions

(* PrintExperimentalSetup logs the setup that RocksDB is opened with, but   *)
(* for the six cases SetupTellsOptions names.                               *)
THEOREM SetupIsTold == Spec => []SetupTellsOptions
BY SetupTells, ConfigInvariant, PTL

-----------------------------------------------------------------------------
(* The report at the end.                                                   *)

LEMMA PerfLevelIs ==
  ASSUME ParserInv
  PROVE  LET p == PerfOf(Parsed)
         IN  /\ p.perLevel = Parsed.perf_stats_
             /\ p.iostats = Parsed.iostat_stats_
             /\ Parsed.perf_stats_ => p.level = "TimeAndCPU"
             /\ ~ Parsed.perf_stats_ /\ Parsed.iostat_stats_ =>
                  p.level = "Count"
             /\ ~ Parsed.perf_stats_ /\ ~ Parsed.iostat_stats_ =>
                  p.level = "Disable"
             /\ Parsed.iostat_stats_ => Given("iostat")
             /\ ~ Parsed.perf_stats_ => ~ Given("perf") \/ value.perf = 0
<1>1. /\ PerfOf(Parsed).perLevel = Parsed.perf_stats_
      /\ PerfOf(Parsed).iostats = Parsed.iostat_stats_
      /\ Parsed.perf_stats_ => PerfOf(Parsed).level = "TimeAndCPU"
      /\ ~Parsed.perf_stats_ /\ Parsed.iostat_stats_ =>
           PerfOf(Parsed).level = "Count"
      /\ ~Parsed.perf_stats_ /\ ~Parsed.iostat_stats_ =>
           PerfOf(Parsed).level = "Disable"
  BY Zenon DEF PerfOf
<1>2. Parsed.iostat_stats_ => Given("iostat")
  BY ParsedIs, Zenon DEF Switch
<1>3. ~ Parsed.perf_stats_ => ~ Given("perf") \/ value.perf = 0
  <2>1. Parsed.perf_stats_ = (IF Given("perf") THEN value["perf"] # 0 ELSE FALSE)
    BY ParsedIs, Zenon DEF Switch
  <2> QED
    BY <2>1
<1> QED
  BY <1>1, <1>2, <1>3, Zenon

LEMMA PerfTells ==
  ASSUME ConfigInv, PrintRocksDBPerfStats
  PROVE  /\ \A s \in log'.sections : Measured(s)
         /\ "Perf Context" \in log'.sections =>
              perf.level = "TimeAndCPU" /\ perf.perLevel
         /\ \A s \in Sections \ log'.sections :
              Measured(s) =>
                /\ s = "Perf Context" /\ perf.level = "Count"
                /\ Given("iostat")
                /\ ~ Given("perf") \/ value.perf = 0
<1> DEFINE reports == Parsed.rocksdb_stats_
           perfs == Parsed.perf_stats_
           ios == Parsed.iostat_stats_
<1>0. ParserInv
  BY DEF ConfigInv
<1>1. /\ OptionsFollow /\ perf = PerfOf(Parsed)
      /\ DOMAIN log = {"setup", "sections"}
  BY DEF ConfigInv, PrintRocksDBPerfStats, Opened
<1>2. PICK capacity : options = ConfiguredFrom(Parsed, capacity)
  BY <1>1 DEF OptionsFollow
<1>3. /\ env.rocksdb_stats_ = reports
      /\ env.perf_stats_ = perfs
      /\ env.iostat_stats_ = ios
  BY <1>1, EnvironmentKept, SetFieldsExist DEF SetFields, ReportFields
<1>4. reports <=> options.statistics = "All"
  <2>1. options.statistics = IF reports THEN "All" ELSE "DisableAll"
    BY <1>2, ConfiguredIs DEF Statistics
  <2>2. "All" # "DisableAll"
    OBVIOUS
  <2> QED
    BY <2>1, <2>2, Zenon
<1>5. \A s : s \in log'.sections <=>
               /\ s \in Sections
               /\ CASE s = "Rocksdb Stats" -> env.rocksdb_stats_
                    [] s = "Perf Context" -> env.perf_stats_
                    [] s = "IO Stats Context" -> env.iostat_stats_
  <2> DEFINE S ==
               {t \in {"Rocksdb Stats", "Perf Context", "IO Stats Context"} :
                  CASE t = "Rocksdb Stats" -> env.rocksdb_stats_
                    [] t = "Perf Context" -> env.perf_stats_
                    [] t = "IO Stats Context" -> env.iostat_stats_}
  <2>1. log' = [log EXCEPT !.sections = S]
    BY DEF PrintRocksDBPerfStats
  <2>2. \A s : s \in S <=>
               /\ s \in Sections
               /\ CASE s = "Rocksdb Stats" -> env.rocksdb_stats_
                    [] s = "Perf Context" -> env.perf_stats_
                    [] s = "IO Stats Context" -> env.iostat_stats_
    BY Zenon DEF Sections
  <2> HIDE DEF S
  <2>3. log'.sections = S
    BY <1>1, <2>1
  <2> QED
    BY <2>2, <2>3, Zenon
<1>6. /\ perf.perLevel = perfs /\ perf.iostats = ios
      /\ perfs => perf.level = "TimeAndCPU"
      /\ ~ perfs /\ ios => perf.level = "Count"
      /\ ~ perfs /\ ~ ios => perf.level = "Disable"
      /\ ios => Given("iostat")
      /\ ~ perfs => ~ Given("perf") \/ value.perf = 0
  BY <1>0, <1>1, PerfLevelIs, Zenon
<1> HIDE DEF reports, perfs, ios
<1>7. /\ "TimeAndCPU" # "Disable" /\ "Count" # "Disable"
      /\ "Rocksdb Stats" # "Perf Context"
      /\ "Rocksdb Stats" # "IO Stats Context"
      /\ "Perf Context" # "IO Stats Context"
  OBVIOUS
<1>8. /\ "Rocksdb Stats" \in log'.sections <=> reports
      /\ "Perf Context" \in log'.sections <=> perfs
      /\ "IO Stats Context" \in log'.sections <=> ios
  <2>1. "Rocksdb Stats" \in log'.sections <=> reports
    BY <1>3, <1>5, <1>7, Zenon DEF Sections
  <2>2. "Perf Context" \in log'.sections <=> perfs
    BY <1>3, <1>5, <1>7, Zenon DEF Sections
  <2>3. "IO Stats Context" \in log'.sections <=> ios
    BY <1>3, <1>5, <1>7, Zenon DEF Sections
  <2> QED
    BY <2>1, <2>2, <2>3
<1>9. /\ Measured("Rocksdb Stats") <=> reports
      /\ Measured("Perf Context") <=> perf.level # "Disable"
      /\ Measured("IO Stats Context") <=> perf.level # "Disable" /\ ios
  <2>1. Measured("Rocksdb Stats") <=> reports
    BY <1>4, Zenon DEF Measured
  <2>2. Measured("Perf Context") <=> perf.level # "Disable"
    BY <1>7, Zenon DEF Measured
  <2>3. Measured("IO Stats Context") <=> perf.level # "Disable" /\ ios
    BY <1>6, <1>7, Zenon DEF Measured
  <2> QED
    BY <2>1, <2>2, <2>3
<1>10. log'.sections \subseteq Sections
  BY <1>5, Zenon
<1>11. \A s \in log'.sections : Measured(s)
  BY <1>6, <1>7, <1>8, <1>9, <1>10, Zenon DEF Sections
<1>12. "Perf Context" \in log'.sections =>
         perf.level = "TimeAndCPU" /\ perf.perLevel
  BY <1>6, <1>8, Zenon
<1>13. ASSUME NEW s \in Sections \ log'.sections, Measured(s)
       PROVE  /\ s = "Perf Context" /\ perf.level = "Count"
              /\ Given("iostat")
              /\ ~ Given("perf") \/ value.perf = 0
  <2>1. s = "Perf Context"
    BY <1>8, <1>9, <1>13, Zenon DEF Sections
  <2>2. ~ perfs /\ ios
    BY <1>6, <1>8, <1>9, <1>13, <2>1, Zenon
  <2> QED
    BY <1>6, <2>1, <2>2, Zenon
<1> QED
  BY <1>11, <1>12, <1>13, Zenon

(* PrintRocksDBPerfStats prints no section whose counters were off, and     *)
(* leaves out none that was on but the perf context's of --iostat alone.    *)
THEOREM SectionsWereMeasured == Spec => PrintedWasMeasured
<1> DEFINE Shown == /\ \A s \in log'.sections : Measured(s)
                    /\ "Perf Context" \in log'.sections =>
                         perf.level = "TimeAndCPU" /\ perf.perLevel
                    /\ \A s \in Sections \ log'.sections :
                         Measured(s) =>
                           /\ s = "Perf Context" /\ perf.level = "Count"
                           /\ Given("iostat")
                           /\ ~ Given("perf") \/ value.perf = 0
<1>1. ASSUME ConfigInv, [Next]_vars
      PROVE  [stmt' = "returned" => Shown]_vars
  <2> SUFFICES ASSUME ~ UNCHANGED vars, stmt' = "returned" PROVE Shown
    BY Zenon
  <2>1. PrintRocksDBPerfStats
    BY <1>1 DEF Next, ReadArguments, SetArguments, ParseFails, ConfigOptions,
                PrintExperimentalSetup
  <2> QED
    BY <1>1, <2>1, PerfTells, Zenon
<1> QED
  BY <1>1, ConfigInvariant, PTL DEF Spec, PrintedWasMeasured

-----------------------------------------------------------------------------
(* What the flags leave alone.                                              *)

LEMMA OptionsExist == Copied \cup CaseOptions \subseteq DOMAIN Defaults
<1>1. CopiedDBOptions \subseteq DOMAIN DBOptionsDefaults
  BY DEF CopiedDBOptions, DBOptionsDefaults
<1>2. CopiedTreeOptions
        \cup {"compaction_pri", "memtable_factory", "compaction_style"}
          \subseteq DOMAIN TreeDefaults
  BY DEF CopiedTreeOptions, TreeDefaults
<1>3. CopiedTableOptions
        \cup {"data_block_index_type", "index_type", "index_shortening",
              "compression"} \subseteq DOMAIN TableOptionsDefaults
  BY DEF CopiedTableOptions, TableOptionsDefaults
<1>4. CopiedReadWriteOptions \cup {"read_tier"}
        \subseteq DOMAIN ReadWriteOptionsDefaults
  BY DEF CopiedReadWriteOptions, ReadWriteOptionsDefaults
<1>5. CopiedColumnFamilyOptions \cup {"comparator"}
        \subseteq DOMAIN ColumnFamilyOptionsDefaults
  BY DEF CopiedColumnFamilyOptions, ColumnFamilyOptionsDefaults
<1>6. Copied \subseteq DOMAIN Defaults
  BY <1>1, <1>2, <1>3, <1>4, <1>5, DefaultsDomain DEF Copied
<1>7. CaseOptions \subseteq DOMAIN Defaults
  BY <1>2, <1>3, <1>4, <1>5, DefaultsDomain DEF CaseOptions
<1> QED
  BY <1>6, <1>7

(* The fields that a flag sets have their default without it.               *)
LEMMA NotGiven ==
  ASSUME ParserInv
  PROVE  /\ ~Given("T") => /\ Parsed.size_ratio = Defaults.size_ratio
                           /\ Parsed.level0_slowdown_writes_trigger =
                                Defaults.level0_slowdown_writes_trigger
                           /\ Parsed.level0_stop_writes_trigger =
                                Defaults.level0_stop_writes_trigger
                           /\ Parsed.level0_file_num_compaction_trigger =
                                Defaults.level0_file_num_compaction_trigger
         /\ ~Given("P") =>
              Parsed.buffer_size_in_pages = Defaults.buffer_size_in_pages
         /\ ~Given("B") => Parsed.entries_per_page = Defaults.entries_per_page
         /\ ~Given("E") => Parsed.entry_size = Defaults.entry_size
         /\ ~Given("M") => Parsed.buffer_size_ = Defaults.buffer_size_
         /\ ~Given("c") => Parsed.compaction_pri = Defaults.compaction_pri
         /\ ~Given("C") => Parsed.compaction_style = Defaults.compaction_style
         /\ ~Given("b") => Parsed.bits_per_key = Defaults.bits_per_key
         /\ ~Given("bb") => Parsed.block_cache = Defaults.block_cache
         /\ ~Given("lowpri") => Parsed.low_pri = Defaults.low_pri
         /\ ~Given("stat") => Parsed.rocksdb_stats_ = Defaults.rocksdb_stats_
<1>1. \A f, d : ~Given(f) => Argument(f, d) = d /\ Switch(f, d) = d
  BY DEF Argument, Switch
<1>2. UInt(UInt(128)) = UInt(128) /\ UInt(UInt(64)) = UInt(64)
  <2>1. UInt(128) \in UInts /\ UInt(64) \in UInts
    BY UIntIs
  <2>2. UInt(128) \in Int /\ UInt(64) \in Int
    BY <2>1 DEF UInts
  <2> QED
    BY <2>1, <2>2, UIntIs
<1>3. SizeT(0) = 0 /\ SizeT(1) = 1
  <2>1. 0 \in 0 .. 2 ^ LongBits - 1 /\ 1 \in 0 .. 2 ^ LongBits - 1
    BY Powers
  <2> QED
    BY <2>1, SizeTIs
<1>4. UInt16(1) = 1
  BY DEF UInt16
<1>5. /\ ~Given("T") => Argument("T", 4) = 4
      /\ ~Given("P") => Argument("P", UInt(128)) = UInt(128)
      /\ ~Given("B") => Argument("B", UInt(64)) = UInt(64)
      /\ ~Given("E") => Argument("E", UInt(64)) = UInt(64)
      /\ ~Given("M") => Argument("M", 0) = 0
      /\ ~Given("c") => Argument("c", 1) = 1
      /\ ~Given("C") => Argument("C", 1) = 1
      /\ ~Given("b") => Argument("b", 10) = 10
      /\ ~Given("bb") => Argument("bb", 0) = 0
      /\ ~Given("lowpri") => Switch("lowpri", TRUE) = TRUE
      /\ ~Given("stat") => Switch("stat", FALSE) = FALSE
  BY <1>1
<1> HIDE DEF Given
<1>6. ~Given("T") => /\ Parsed.size_ratio = Defaults.size_ratio
                     /\ Parsed.level0_slowdown_writes_trigger =
                          Defaults.level0_slowdown_writes_trigger
                     /\ Parsed.level0_stop_writes_trigger =
                          Defaults.level0_stop_writes_trigger
                     /\ Parsed.level0_file_num_compaction_trigger =
                          Defaults.level0_file_num_compaction_trigger
  BY <1>5, ParsedIs, DefaultValues
<1>7. /\ ~Given("P") =>
           Parsed.buffer_size_in_pages = Defaults.buffer_size_in_pages
      /\ ~Given("B") => Parsed.entries_per_page = Defaults.entries_per_page
      /\ ~Given("E") => Parsed.entry_size = Defaults.entry_size
      /\ ~Given("M") => Parsed.buffer_size_ = Defaults.buffer_size_
  BY <1>2, <1>3, <1>5, ParsedIs, DefaultValues
<1>8. /\ ~Given("c") => Parsed.compaction_pri = Defaults.compaction_pri
      /\ ~Given("C") => Parsed.compaction_style = Defaults.compaction_style
      /\ ~Given("b") => Parsed.bits_per_key = Defaults.bits_per_key
      /\ ~Given("bb") => Parsed.block_cache = Defaults.block_cache
      /\ ~Given("lowpri") => Parsed.low_pri = Defaults.low_pri
      /\ ~Given("stat") => Parsed.rocksdb_stats_ = Defaults.rocksdb_stats_
  <2>1. ~Given("c") => Parsed.compaction_pri = Defaults.compaction_pri
    BY <1>4, <1>5, ParsedIs, DefaultValues
  <2>2. ~Given("C") => Parsed.compaction_style = Defaults.compaction_style
    BY <1>3, <1>5, ParsedIs, DefaultValues
  <2>3. /\ ~Given("b") => Parsed.bits_per_key = Defaults.bits_per_key
        /\ ~Given("bb") => Parsed.block_cache = Defaults.block_cache
    BY <1>5, ParsedIs, DefaultValues
  <2>4. ~Given("lowpri") => Parsed.low_pri = Defaults.low_pri
    BY <1>5, ParsedIs, DefaultValues
  <2>5. ~Given("stat") => Parsed.rocksdb_stats_ = Defaults.rocksdb_stats_
    BY <1>5, ParsedIs, DefaultValues
  <2> QED
    BY <2>1, <2>2, <2>3, <2>4, <2>5
<1> QED
  BY <1>6, <1>7, <1>8

LEMMA OnlyGiven == ConfigInv => OnlyGivenFlagsMatter
<1> SUFFICES ASSUME ConfigInv, Configured, NEW o \in DOMAIN options,
                    o \in DOMAIN DependsOn => DependsOn[o] \cap matched = {}
             PROVE  options[o] = ConfiguredFrom(Defaults, 0)[o]
  BY DEF OnlyGivenFlagsMatter
<1>0. ParserInv
  BY DEF ConfigInv
<1>1. PICK capacity : options = ConfiguredFrom(Parsed, capacity)
  BY ConfiguredFollow DEF OptionsFollow
<1>2. PICK d : d = ConfiguredFrom(Defaults, 0)
  OBVIOUS
<1>3. o \in OptionNames
  BY <1>1, ConfiguredIs
<1>4. /\ o = "max_bytes_for_level_multiplier" => ~Given("T")
      /\ o \in {"write_buffer_size", "target_file_size_base",
                "max_bytes_for_level_base"} =>
           ~Given("P") /\ ~Given("B") /\ ~Given("E") /\ ~Given("M")
      /\ o \in {"block_size", "arena_block_size"} => ~Given("B") /\ ~Given("E")
      /\ o = "compaction_style" => ~Given("C")
      /\ o = "compaction_pri" => ~Given("c")
      /\ o = "level0_file_num_compaction_trigger" => ~Given("T") /\ ~Given("C")
      /\ o = "num_levels" => ~Given("C")
      /\ o \in {"level0_slowdown_writes_trigger",
                "level0_stop_writes_trigger"} => ~Given("T")
      /\ o = "filter_policy" => ~Given("b")
      /\ o \in CacheOptions => ~Given("bb")
      /\ o = "statistics" => ~Given("stat")
      /\ o = "low_pri" => ~Given("lowpri")
  BY DEF DependsOn, Given, CacheOptions
<1>5. CASE o \in Copied
  <2>1. options[o] = Parsed[o] /\ d[o] = Defaults[o]
    BY <1>1, <1>2, <1>5, ConfiguredCopied
  <2>2. CASE o \in SetFields
    <3>1. o \in {"level0_slowdown_writes_trigger",
                 "level0_stop_writes_trigger", "low_pri"}
      BY <1>5, <2>2
         DEF SetFields, DatabaseFields, RatioFields, SizeFields, PolicyFields,
             ReportFields, Copied, CopiedDBOptions, CopiedTreeOptions,
             CopiedTableOptions, CopiedReadWriteOptions,
             CopiedColumnFamilyOptions
    <3> QED
      BY <1>0, <1>2, <1>4, <2>1, <3>1, NotGiven
  <2>3. CASE o \notin SetFields
    BY <1>2, <1>5, <2>1, <2>3, OptionsExist, ParsedIs
  <2> QED
    BY <2>2, <2>3
<1>6. CASE o \in CaseOptions
  <2>1. options[o] = Chosen(o, Parsed[o]) /\ d[o] = Chosen(o, Defaults[o])
    BY <1>1, <1>2, <1>6, ConfiguredCases
  <2>2. Parsed[o] = Defaults[o]
    <3>1. CASE o \in SetFields
      <4>1. o \in {"compaction_style", "compaction_pri"}
        BY <1>6, <3>1
           DEF SetFields, DatabaseFields, RatioFields, SizeFields,
               PolicyFields, ReportFields, CaseOptions
      <4> QED
        BY <1>0, <1>4, <4>1, NotGiven
    <3>2. CASE o \notin SetFields
      BY <1>6, <3>2, OptionsExist, ParsedIs
    <3> QED
      BY <3>1, <3>2
  <2> QED
    BY <1>2, <2>1, <2>2
<1>7. CASE o \in SizeOptions
  <2>1. options[o] = SizesOf(Parsed)[o] /\ d[o] = SizesOf(Defaults)[o]
    BY <1>1, <1>2, <1>7, ConfiguredSizes
  <2>2. ~Given("P") /\ ~Given("B") /\ ~Given("E") /\ ~Given("M") =>
          GetBufferSize(Parsed) = GetBufferSize(Defaults)
    BY <1>0, NotGiven DEF GetBufferSize
  <2>3. ~Given("B") /\ ~Given("E") =>
          GetBlockSize(Parsed) = GetBlockSize(Defaults)
    BY <1>0, NotGiven DEF GetBlockSize
  <2>4. SizesOf(Parsed)[o] = SizesOf(Defaults)[o]
    BY <1>0, <1>4, <1>7, <2>2, <2>3, NotGiven
       DEF SizesOf, GetTargetFileSizeBase, GetMaxBytesForLevelBase, SizeOptions
  <2> QED
    BY <1>2, <2>1, <2>4
<1>8. CASE o = "filter_policy"
  <2>1. /\ options.filter_policy = FilterPolicy(Parsed).filter_policy
        /\ d.filter_policy = FilterPolicy(Defaults).filter_policy
    BY <1>1, <1>2, ConfiguredIs
  <2> QED
    BY <1>0, <1>2, <1>4, <1>8, <2>1, NotGiven DEF FilterPolicy
<1>9. CASE o \in {"level0_file_num_compaction_trigger", "num_levels"}
  <2>1. options[o] = ShapeOf(Parsed)[o] /\ d[o] = ShapeOf(Defaults)[o]
    BY <1>1, <1>2, <1>9, ConfiguredShape
  <2>2. Parsed.compaction_style = Defaults.compaction_style
    BY <1>0, <1>4, <1>9, NotGiven
  <2>3. Parsed.num_levels = Defaults.num_levels
    BY ParsedIs, SetFieldsExist
       DEF SetFields, DatabaseFields, RatioFields, SizeFields, PolicyFields,
           ReportFields
  <2>4. o = "level0_file_num_compaction_trigger" =>
          Parsed.level0_file_num_compaction_trigger =
            Defaults.level0_file_num_compaction_trigger
    BY <1>0, <1>4, NotGiven
  <2>5. ShapeOf(Parsed)[o] = ShapeOf(Defaults)[o]
    BY <1>9, <2>2, <2>3, <2>4 DEF ShapeOf
  <2> QED
    BY <1>2, <2>1, <2>5
<1>10. CASE o \in CacheOptions
  <2>1. /\ options[o] = CacheOf(Parsed, capacity)[o]
        /\ d[o] = CacheOf(Defaults, 0)[o]
    BY <1>1, <1>2, <1>10, ConfiguredCache
  <2>2. Parsed.block_cache = 0 /\ Defaults.block_cache = 0
    BY <1>0, <1>4, <1>10, NotGiven, DefaultValues
  <2> QED
    BY <1>2, <1>10, <2>1, <2>2 DEF CacheOf, CacheOptions
<1>11. CASE o = "statistics"
  <2>1. /\ options.statistics = Statistics(Parsed).statistics
        /\ d.statistics = Statistics(Defaults).statistics
    BY <1>1, <1>2, ConfiguredIs
  <2> QED
    BY <1>0, <1>2, <1>4, <1>11, <2>1, NotGiven DEF Statistics
<1> QED
  BY <1>3, <1>5, <1>6, <1>7, <1>8, <1>9, <1>10, <1>11 DEF OptionNames

(* An option differs from what the defaults of DBEnv make it only if a flag *)
(* it depends on is on the command line (parse_arguments.h).                *)
THEOREM OnlyFlagsMatter == Spec => []OnlyGivenFlagsMatter
BY OnlyGiven, ConfigInvariant, PTL

=============================================================================
