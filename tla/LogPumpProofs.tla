--------------------------- MODULE LogPumpProofs ---------------------------
(***************************************************************************)
(* Proofs about the log pump, for any number of runs, pieces, refusals and *)
(* interruptions, any room of the sockets and any length of a read.        *)
(*                                                                         *)
(* What a read makes of its pieces is computed one piece at a time.  The   *)
(* lemmas about Cutting are proved by induction on their number, for which *)
(* SetOfNaturalsInduction states induction with a set for the predicate.   *)
(***************************************************************************)
EXTENDS LogPump, FiniteSetTheorems, SequenceTheorems, WellFoundedInduction,
        TLAPS

-----------------------------------------------------------------------------
(* The inductive invariants.                                               *)

\* A write ends the process only once a run has failed or the flag is down.
EndTakesStop == ~alive => ~continue \/ failures > 0

\* Only a stop closes read ends without a failure, and it has lowered the flag
\* before: until then the streams lead to sockets somebody reads.
PipeInv ==
  /\ ctl \in {"closing", "joining"} => ~continue
  /\ ctl \in {"stdout", "stderr", "spawning"} => runs > 0
  /\ continue /\ failures = 0 => \A s \in Streams : fd[s] # 0 => readEnd[s][fd[s]]
  /\ EndTakesStop

\* The next cleanup_streams breaks the stream, or it is broken.
Tied(s) == fd[s] # 0 => pfd[s] = fd[s] \/ Broken(s)

\* stdout is redirected first and broken alone only by a run that fails before
\* it has redirected stderr; and where dup2 leaves one stream to an earlier run,
\* the other one is broken.
TiesInv ==
  /\ ctl \in {"idle", "stdout", "closing", "joining"} =>
       /\ \A s \in Streams : Tied(s) \/ (failed /\ \E t \in Streams \ {s} : Broken(t))
       /\ fd["stdout"] # 0 /\ fd["stderr"] = 0 => Broken("stdout")
  /\ ctl \in {"stderr", "spawning"} =>
       fd["stdout"] # 0 /\ pfd["stdout"] = fd["stdout"]
  /\ ctl = "spawning" => fd["stderr"] # 0 /\ pfd["stderr"] = fd["stderr"]

\* Redirect(s) has been through, and nothing has been undone.
Redirected(s) == fd[s] = 1 /\ pfd[s] = 1 /\ readEnd[s][1]

\* What is held is the end of the text, from its last newline on.
IsUnendedLineOf(line, text) ==
  /\ Len(line) <= Len(text)
  /\ \A i \in 1..Len(line) : line[i] = text[Len(text) - Len(line) + i]
  /\ Len(line) < Len(text) => text[Len(text) - Len(line)] = NL

\* The one pump goes through its loop, and finds neither stream closed nor at
\* its end.
FirstPump ==
  /\ \A g \in Runs \ {1} : pump[g] = "none"
  /\ pump[1] \in {"none", "new", "loop", "select", "process"}
  /\ \A s \in Streams : fd[s] <= runs
  /\ ctl \in {"stdout", "stderr", "spawning"} => pump[1] = "none"
  /\ ctl \in {"stderr", "spawning"} => Redirected("stdout")
  /\ ctl = "spawning" => Redirected("stderr")
  /\ pump[1] # "none" => runs = 1 /\ \A s \in Streams : Redirected(s)
  /\ pump[1] \in {"loop", "select", "process"} =>
       open[1] = Streams /\ \A s \in Streams : reads[1][s] = 1
  /\ pump[1] = "process" => \A s \in ready[1] : buf[s][1] # <<>>

\* What was written of a stream has been handed over, is held, or waits.
ReadToTheLetter(s) ==
  /\ Len(buf[s][1]) <= Len(written[s])
  /\ \A i \in 1..Len(buf[s][1]) :
       buf[s][1][i] = written[s][Len(written[s]) - Len(buf[s][1]) + i]
  /\ AreLinesOf(out[s], Taken(s))
  /\ IsUnendedLineOf(held[1][s], Taken(s))

\* Until a stop or a second run.
FirstRunInv ==
  runs <= 1 /\ continue => FirstPump /\ \A s \in Streams : ReadToTheLetter(s)

\* A sequence of pieces has no text twice; two have no text in common; what is
\* in one has been written.
Single(x) == \A a, b \in DOMAIN x : x[a] = x[b] /\ x[a] # NL => a = b

Apart(x, y) == \A a \in DOMAIN x : \A b \in DOMAIN y : x[a] = y[b] => x[a] = NL

UpTo(x, n) == \A a \in DOMAIN x : x[a] <= n

\* Each text of the first n pieces of a stream is in one place, once: in a line
\* handed over, held by one pump, or on one socket.
InOnePlace(lines, holds, queues, n) ==
  /\ \A i \in DOMAIN lines : Single(lines[i]) /\ UpTo(lines[i], n)
  /\ \A g \in Runs : Single(holds[g]) /\ UpTo(holds[g], n)
  /\ \A g \in Runs : Single(queues[g]) /\ UpTo(queues[g], n)
  /\ \A i, j \in DOMAIN lines : i # j => Apart(lines[i], lines[j])
  /\ \A g, k \in Runs : g # k => Apart(holds[g], holds[k]) /\ Apart(queues[g], queues[k])
  /\ \A i \in DOMAIN lines : \A g \in Runs :
       Apart(lines[i], holds[g]) /\ Apart(lines[i], queues[g])
  /\ \A g, k \in Runs : Apart(holds[g], queues[k])

HeldOf(s) == [g \in Runs |-> held[g][s]]

PlacesInv ==
  \A s \in Streams : InOnePlace(out[s], HeldOf(s), buf[s], Len(written[s]))

-----------------------------------------------------------------------------
(* Induction.                                                              *)

\* A set of naturals that is not empty has a least element.
LEMMA LeastNatural ==
  ASSUME NEW T, T \subseteq Nat, T # {}
  PROVE  \E n \in T : \A m \in T : n <= m
<1> DEFINE R == {pair \in Nat \X Nat : pair[1] < pair[2]}
<1>1. IsWellFoundedOn(R, Nat)
  BY NatLessThanWellFounded DEF OpToRel
<1>2. \A m, n \in Nat : <<m, n>> \in R <=> m < n
  OBVIOUS
<1> HIDE DEF R
<1>3. PICK n \in T : \A m \in T : ~ (<<m, n>> \in R)
  BY <1>1, WFMin
<1>4. \A m \in T : ~ (m < n)
  BY <1>2, <1>3
<1>5. n \in Nat /\ \A m \in T : m \in Nat
  OBVIOUS
<1>6. QED
  BY <1>4, <1>5

\* A set with 0, and with the successor of each natural in it, has them all.
LEMMA SetOfNaturalsInduction ==
  ASSUME NEW S, 0 \in S, \A n \in Nat : n \in S => n + 1 \in S
  PROVE  \A n \in Nat : n \in S
<1>1. SUFFICES ASSUME NEW k \in Nat, k \notin S
               PROVE  FALSE
  OBVIOUS
<1> DEFINE T == {n \in Nat : n \notin S}
<1>2. PICK n \in T : \A m \in T : n <= m
  BY <1>1, LeastNatural
<1>3. n # 0 /\ n \in Nat
  OBVIOUS
<1>4. n - 1 \in Nat /\ ~ (n <= n - 1) /\ (n - 1) + 1 = n
  BY <1>3
<1>5. n - 1 \in S
  BY <1>2, <1>4
<1>6. QED
  BY <1>4, <1>5

-----------------------------------------------------------------------------
(* What process_stream_data makes of the pieces it has read.               *)

Unread(partial) == [held |-> partial, lines |-> <<>>]

\* The recursion of Cutting has a solution, so Cutting is one.
LEMMA CuttingRecursion ==
  ASSUME NEW partial, NEW pieces, Len(pieces) \in Nat
  PROVE  Cutting(partial, pieces) =
           [n \in 0..Len(pieces) |->
              IF n = 0 THEN Unread(partial)
              ELSE TakePiece(Cutting(partial, pieces)[n - 1], pieces[n])]
<1> DEFINE Solves(f, m) ==
             f = [n \in 0..m |-> IF n = 0 THEN Unread(partial)
                                 ELSE TakePiece(f[n - 1], pieces[n])]
           Solved == {m \in Nat : \E f : Solves(f, m)}
<1>1. 0 \in Solved
  <2> DEFINE f == [n \in 0..0 |-> Unread(partial)]
  <2>1. Solves(f, 0)
    OBVIOUS
  <2>2. QED
    BY <2>1
<1>2. ASSUME NEW m \in Nat, m \in Solved
      PROVE  m + 1 \in Solved
  <2>1. PICK f : Solves(f, m)
    BY <1>2
  <2> DEFINE g == [n \in 0..m + 1 |->
                     IF n <= m THEN f[n] ELSE TakePiece(f[m], pieces[m + 1])]
  <2>2. \A n \in 0..m + 1 : n # 0 => n - 1 \in 0..m /\ g[n - 1] = f[n - 1]
    OBVIOUS
  <2>3. \A n \in 0..m : f[n] = IF n = 0 THEN Unread(partial)
                               ELSE TakePiece(f[n - 1], pieces[n])
    BY <2>1
  <2>4. \A n \in 0..m + 1 : g[n] = IF n = 0 THEN Unread(partial)
                                   ELSE TakePiece(g[n - 1], pieces[n])
    <3> SUFFICES ASSUME NEW n \in 0..m + 1
                 PROVE  g[n] = IF n = 0 THEN Unread(partial)
                               ELSE TakePiece(g[n - 1], pieces[n])
      OBVIOUS
    <3>1. CASE n <= m
      <4>1. n \in 0..m /\ g[n] = f[n]
        BY <3>1
      <4>2. QED
        BY <4>1, <2>2, <2>3
    <3>2. CASE n = m + 1
      <4>1. g[n] = TakePiece(f[m], pieces[m + 1]) /\ n # 0 /\ n - 1 = m
        BY <3>2
      <4>2. QED
        BY <4>1, <3>2, <2>2
    <3>3. QED
      BY <3>1, <3>2
  <2>5. Solves(g, m + 1)
    BY <2>4
  <2> HIDE DEF Solves, g
  <2>6. QED
    BY <2>5
<1> HIDE DEF Solved
<1>3. \A m \in Nat : m \in Solved
  BY <1>1, <1>2, SetOfNaturalsInduction
<1>4. \E f : Solves(f, Len(pieces))
  BY <1>3 DEF Solved
<1>5. Cutting(partial, pieces) = CHOOSE f : Solves(f, Len(pieces))
  BY DEF Cutting, Unread
<1> HIDE DEF Solves
<1>6. Solves(Cutting(partial, pieces), Len(pieces))
  BY <1>4, <1>5
<1>7. QED
  BY <1>6 DEF Solves

Text == Piece \ {NL}
Line == Seq(Text) \ {<<>>}

Accumulated == [held : Seq(Text), lines : Seq(Line)]

LEMMA TakePieceTypes ==
  ASSUME NEW acc \in Accumulated, NEW p \in Piece
  PROVE  TakePiece(acc, p) \in Accumulated
<1>1. acc.held \in Seq(Text) /\ acc.lines \in Seq(Line)
  BY DEF Accumulated
<1>2. /\ acc.held # <<>> => Append(acc.lines, acc.held) \in Seq(Line)
      /\ <<>> \in Seq(Text)
  BY <1>1, AppendProperties, EmptySeq DEF Line
<1>3. p # NL => Append(acc.held, p) \in Seq(Text)
  BY <1>1, AppendProperties DEF Text
<1>4. QED
  BY <1>1, <1>2, <1>3 DEF TakePiece, Accumulated

\* What Cutting returns, and how it goes on.
LEMMA CuttingStep ==
  ASSUME NEW partial \in Seq(Text), NEW pieces \in Seq(Piece)
  PROVE  /\ Cutting(partial, pieces)[0] = Unread(partial)
         /\ \A n \in Nat : n < Len(pieces) =>
              Cutting(partial, pieces)[n + 1] =
                TakePiece(Cutting(partial, pieces)[n], pieces[n + 1])
<1> DEFINE cut == Cutting(partial, pieces)
<1>1. Len(pieces) \in Nat
  BY LenProperties
<1>2. cut = [n \in 0..Len(pieces) |-> IF n = 0 THEN Unread(partial)
                                      ELSE TakePiece(cut[n - 1], pieces[n])]
  BY <1>1, CuttingRecursion
<1> HIDE DEF cut
<1>3. cut[0] = Unread(partial)
  BY <1>1, <1>2
<1>4. ASSUME NEW n \in Nat, n < Len(pieces)
      PROVE  cut[n + 1] = TakePiece(cut[n], pieces[n + 1])
  <2>1. n + 1 \in 0..Len(pieces) /\ n + 1 # 0 /\ (n + 1) - 1 = n
    BY <1>1, <1>4
  <2>2. QED
    BY <1>2, <2>1
<1>5. QED
  BY <1>3, <1>4 DEF cut

LEMMA CuttingTypes ==
  ASSUME NEW partial \in Seq(Text), NEW pieces \in Seq(Piece)
  PROVE  \A n \in 0..Len(pieces) : Cutting(partial, pieces)[n] \in Accumulated
<1> DEFINE cut == Cutting(partial, pieces)
           Typed == {n \in Nat : n <= Len(pieces) => cut[n] \in Accumulated}
<1>1. Len(pieces) \in Nat
  BY LenProperties
<1>2. /\ cut[0] = Unread(partial)
      /\ \A n \in Nat : n < Len(pieces) => cut[n + 1] = TakePiece(cut[n], pieces[n + 1])
  BY CuttingStep
<1>3. Unread(partial) \in Accumulated
  BY EmptySeq DEF Unread, Accumulated
<1> HIDE DEF cut
<1>4. 0 \in Typed
  BY <1>2, <1>3
<1>5. ASSUME NEW n \in Nat, n \in Typed
      PROVE  n + 1 \in Typed
  <2>1. SUFFICES ASSUME n + 1 <= Len(pieces)
                 PROVE  cut[n + 1] \in Accumulated
    BY <1>5
  <2>2. n < Len(pieces) /\ n <= Len(pieces) /\ n + 1 \in 1..Len(pieces)
    BY <1>1, <2>1
  <2>3. pieces[n + 1] \in Piece
    BY <2>2, ElementOfSeq
  <2>4. QED
    BY <1>2, <1>5, <2>2, <2>3, TakePieceTypes
<1> HIDE DEF Typed
<1>6. \A n \in Nat : n \in Typed
  BY <1>4, <1>5, SetOfNaturalsInduction
<1>7. QED
  BY <1>1, <1>6 DEF Typed, cut

-----------------------------------------------------------------------------
(* The lines of a text that grows by a piece.                              *)

LEMMA AppendedPiece ==
  ASSUME NEW text \in Seq(Piece), NEW p \in Piece
  PROVE  /\ Append(text, p) \in Seq(Piece)
         /\ Len(text) \in Nat /\ Len(Append(text, p)) = Len(text) + 1
         /\ \A i \in 1..Len(text) : Append(text, p)[i] = text[i]
         /\ Append(text, p)[Len(text) + 1] = p
BY AppendProperties, LenProperties

LEMMA EndsAreFinite ==
  ASSUME NEW text \in Seq(Piece)
  PROVE  /\ EndsOf(text) \subseteq 2..Len(text)
         /\ IsFiniteSet(EndsOf(text)) /\ Cardinality(EndsOf(text)) \in Nat
<1>1. Len(text) \in Nat
  BY LenProperties
<1>2. EndsOf(text) \subseteq 2..Len(text)
  BY DEF EndsOf
<1>3. IsFiniteSet(2..Len(text))
  BY <1>1, FS_Interval
<1>4. QED
  BY <1>2, <1>3, FS_Subset, FS_CardinalityType

\* A newline after something else is one more end, and the last one.
LEMMA EndsOfAppend ==
  ASSUME NEW text \in Seq(Piece), NEW p \in Piece
  PROVE  EndsOf(Append(text, p)) =
           EndsOf(text) \cup
             {i \in {Len(text) + 1} : p = NL /\ Len(text) > 0 /\ text[Len(text)] # NL}
<1> DEFINE longer == Append(text, p)
<1>1. /\ Len(text) \in Nat /\ Len(longer) = Len(text) + 1
      /\ \A i \in 1..Len(text) : longer[i] = text[i]
      /\ longer[Len(text) + 1] = p
  BY AppendedPiece
<1> HIDE DEF longer
<1>2. \A i \in 2..Len(text) : longer[i] = text[i] /\ longer[i - 1] = text[i - 1]
  BY <1>1
<1>3. \A i : i \in 2..Len(longer) <=>
               i \in 2..Len(text) \/ (i = Len(text) + 1 /\ Len(text) > 0)
  BY <1>1
<1>4. Len(text) > 0 => longer[Len(text) + 1 - 1] = text[Len(text)]
  BY <1>1
<1>5. QED
  BY <1>1, <1>2, <1>3, <1>4 DEF EndsOf, longer

\* A line stays where it is.
LEMMA LineStays ==
  ASSUME NEW text \in Seq(Piece), NEW p \in Piece, NEW line,
         NEW i \in EndsOf(text), IsLineEndingAt(line, text, i)
  PROVE  IsLineEndingAt(line, Append(text, p), i)
<1> DEFINE longer == Append(text, p)
<1>1. /\ Len(text) \in Nat /\ Len(longer) = Len(text) + 1
      /\ \A k \in 1..Len(text) : longer[k] = text[k]
  BY AppendedPiece
<1>2. i \in 2..Len(text)
  BY DEF EndsOf
<1>3. PICK j \in 1..i - 1 : /\ j = 1 \/ text[j - 1] = NL
                            /\ \A k \in j..i - 1 : text[k] # NL
                            /\ line = SubSeq(text, j, i - 1)
  BY DEF IsLineEndingAt
<1> HIDE DEF longer
<1>4. j \in Nat /\ i \in Nat /\ 1 <= j /\ j <= i - 1 /\ i - 1 <= Len(text)
  BY <1>1, <1>2, <1>3
<1>5. \A k \in j..i - 1 : k \in 1..Len(text)
  BY <1>1, <1>4
<1>6. j # 1 => j - 1 \in 1..Len(text)
  BY <1>1, <1>4
<1>7. SubSeq(longer, j, i - 1) = SubSeq(text, j, i - 1)
  <2>1. \A k \in 1..(i - 1) - j + 1 : k + j - 1 \in 1..Len(text)
    BY <1>1, <1>4
  <2>2. \A k \in 1..(i - 1) - j + 1 : longer[k + j - 1] = text[k + j - 1]
    BY <1>1, <2>1
  <2>3. QED
    BY <1>1, <1>4, <2>2
<1>8. QED
  BY <1>1, <1>3, <1>5, <1>6, <1>7 DEF IsLineEndingAt, longer

\* A text that ends in what is held has a line more when a newline comes.
LEMMA OneLineMore ==
  ASSUME NEW text \in Seq(Piece), NEW lines \in Seq(Line),
         NEW line \in Seq(Text), line # <<>>,
         AreLinesOf(lines, text), IsUnendedLineOf(line, text)
  PROVE  AreLinesOf(Append(lines, line), Append(text, NL))
<1> DEFINE longer == Append(text, NL)
           more == Append(lines, line)
           last == Len(text) + 1
           ends == EndsOf(text)
<1>1. /\ longer \in Seq(Piece)
      /\ Len(text) \in Nat /\ Len(longer) = Len(text) + 1
      /\ \A k \in 1..Len(text) : longer[k] = text[k]
      /\ longer[last] = NL
  BY AppendedPiece, LogPumpAssumption DEF Piece, NL
<1>2. /\ Len(line) \in Nat /\ Len(line) > 0 /\ Len(line) <= Len(text)
      /\ \A k \in 1..Len(line) : line[k] = text[Len(text) - Len(line) + k]
      /\ Len(line) < Len(text) => text[Len(text) - Len(line)] = NL
      /\ \A k \in 1..Len(line) : line[k] # NL
  <2>1. Len(line) \in Nat /\ Len(line) > 0
    BY LenProperties, EmptySeq
  <2>2. \A k \in 1..Len(line) : line[k] \in Text
    BY ElementOfSeq
  <2>3. QED
    BY <2>1, <2>2 DEF IsUnendedLineOf, Text
<1>3. text[Len(text)] # NL /\ Len(text) > 0
  <2>1. PICK k \in 1..Len(line) : Len(text) - Len(line) + k = Len(text)
    BY <1>1, <1>2
  <2>2. line[k] = text[Len(text) - Len(line) + k] /\ line[k] # NL
    BY <1>2
  <2>3. QED
    BY <1>1, <1>2, <2>1, <2>2
<1>4. EndsOf(longer) = ends \cup {last}
  <2>1. NL \in Piece
    BY LogPumpAssumption DEF Piece, NL
  <2>2. QED
    BY <1>3, <2>1, EndsOfAppend
<1>5. /\ ends \subseteq 2..Len(text) /\ IsFiniteSet(ends)
      /\ Cardinality(ends) \in Nat /\ last \notin ends
  <2>1. ends \subseteq 2..Len(text) /\ IsFiniteSet(ends) /\ Cardinality(ends) \in Nat
    BY EndsAreFinite
  <2>2. QED
    BY <1>1, <2>1
<1>6. Cardinality(EndsOf(longer)) = Cardinality(ends) + 1
  BY <1>4, <1>5, FS_AddElement
<1>7. /\ Len(lines) = Cardinality(ends) /\ Len(more) = Cardinality(ends) + 1
      /\ \A k \in 1..Len(lines) : more[k] = lines[k]
      /\ more[Len(lines) + 1] = line
  BY AppendProperties, LenProperties DEF AreLinesOf
<1>8. ASSUME NEW i \in ends
      PROVE  IsLineEndingAt(more[Cardinality(EndsOf(longer) \cap (1..i))], longer, i)
  <2> DEFINE before == ends \cap (1..i)
  <2>1. i \in Nat /\ 1 <= i /\ i <= Len(text)
    BY <1>1, <1>5
  <2>2. EndsOf(longer) \cap (1..i) = before
    BY <1>1, <1>4, <2>1
  <2>3. i \in before /\ before \subseteq ends
    BY <2>1
  <2>4. /\ IsFiniteSet(before) /\ Cardinality(before) \in Nat
        /\ Cardinality(before) <= Cardinality(ends)
    BY <1>5, <2>3, FS_Subset, FS_CardinalityType
  <2>5. Cardinality(before) # 0
    BY <2>3, <2>4, FS_EmptySet
  <2>6. Cardinality(before) \in 1..Len(lines)
    BY <1>5, <1>7, <2>4, <2>5
  <2>7. IsLineEndingAt(lines[Cardinality(before)], text, i)
    BY <1>8 DEF AreLinesOf
  <2>8. more[Cardinality(before)] = lines[Cardinality(before)]
    BY <1>7, <2>6
  <2>9. NL \in Piece
    BY LogPumpAssumption DEF Piece, NL
  <2>10. IsLineEndingAt(lines[Cardinality(before)], longer, i)
    BY <1>8, <2>7, <2>9, LineStays
  <2>11. QED
    BY <2>2, <2>8, <2>10
<1>9. IsLineEndingAt(more[Cardinality(EndsOf(longer) \cap (1..last))], longer, last)
  <2> DEFINE j == Len(text) - Len(line) + 1
  <2>1. EndsOf(longer) \cap (1..last) = EndsOf(longer)
    BY <1>1, <1>4, <1>5
  <2>2. more[Cardinality(EndsOf(longer) \cap (1..last))] = line
    BY <1>6, <1>7, <2>1
  <2>3. j \in 1..last - 1 /\ j - 1 = Len(text) - Len(line) /\ last - 1 = Len(text)
    BY <1>1, <1>2
  <2>4. j = 1 \/ longer[j - 1] = NL
    <3>1. CASE Len(line) = Len(text)
      BY <1>1, <1>2, <3>1
    <3>2. CASE Len(line) < Len(text)
      <4>1. Len(text) - Len(line) \in 1..Len(text)
        BY <1>1, <1>2, <3>2
      <4>2. QED
        BY <1>1, <1>2, <2>3, <3>2, <4>1
    <3>3. QED
      BY <1>1, <1>2, <3>1, <3>2
  <2>5. \A k \in 1..Len(line) : /\ j + k - 1 \in 1..Len(text)
                                /\ j + k - 1 = Len(text) - Len(line) + k
    BY <1>1, <1>2
  <2>6. \A k \in 1..Len(line) : longer[j + k - 1] = line[k]
    BY <1>1, <1>2, <2>5
  <2>7. \A k \in j..last - 1 : longer[k] # NL
    <3> SUFFICES ASSUME NEW k \in j..last - 1
                 PROVE  longer[k] # NL
      OBVIOUS
    <3>1. k - j + 1 \in 1..Len(line) /\ j + (k - j + 1) - 1 = k
      BY <1>1, <1>2
    <3>2. QED
      BY <1>2, <2>6, <3>1
  <2>8. line = SubSeq(longer, j, last - 1)
    <3> HIDE DEF longer
    <3>1. /\ SubSeq(longer, j, last - 1) \in Seq(Piece)
          /\ Len(SubSeq(longer, j, last - 1)) = Len(line)
          /\ \A k \in 1..Len(line) : SubSeq(longer, j, last - 1)[k] = longer[j + k - 1]
      BY <1>1, <1>2, <2>3
    <3>2. \A k \in 1..Len(line) : SubSeq(longer, j, last - 1)[k] = line[k]
      BY <2>6, <3>1
    <3>3. line \in Seq(Piece)
      BY DEF Text
    <3>4. QED
      BY <3>1, <3>2, <3>3, SeqEqual
  <2> HIDE DEF longer, j, last, more
  <2>9. IsLineEndingAt(line, longer, last)
    BY <2>3, <2>4, <2>7, <2>8 DEF IsLineEndingAt
  <2>10. QED
    BY <2>2, <2>9
<1> HIDE DEF longer, more, last, ends
<1>10. AreLinesOf(more, longer)
  BY <1>4, <1>6, <1>7, <1>8, <1>9 DEF AreLinesOf
<1>11. QED
  BY <1>10 DEF longer, more

\* Any other piece leaves the lines as they are.
LEMMA NoLineMore ==
  ASSUME NEW text \in Seq(Piece), NEW lines, NEW p \in Piece,
         ~ (p = NL /\ Len(text) > 0 /\ text[Len(text)] # NL),
         AreLinesOf(lines, text)
  PROVE  AreLinesOf(lines, Append(text, p))
<1>1. EndsOf(Append(text, p)) = EndsOf(text)
  BY EndsOfAppend
<1>2. \A i \in EndsOf(text) :
        IsLineEndingAt(lines[Cardinality(EndsOf(text) \cap (1..i))], Append(text, p), i)
  BY LineStays DEF AreLinesOf
<1>3. QED
  BY <1>1, <1>2 DEF AreLinesOf

\* The lines handed over, and what is held, after one piece more.
LEMMA TakePieceLines ==
  ASSUME NEW text \in Seq(Piece), NEW p \in Piece,
         NEW acc \in Accumulated, NEW before \in Seq(Line),
         AreLinesOf(before \o acc.lines, text), IsUnendedLineOf(acc.held, text)
  PROVE  /\ AreLinesOf(before \o TakePiece(acc, p).lines, Append(text, p))
         /\ IsUnendedLineOf(TakePiece(acc, p).held, Append(text, p))
<1> DEFINE longer == Append(text, p)
           lines == before \o acc.lines
<1>1. /\ Len(text) \in Nat /\ Len(longer) = Len(text) + 1
      /\ \A k \in 1..Len(text) : longer[k] = text[k]
      /\ longer[Len(text) + 1] = p
  BY AppendedPiece
<1>2. /\ acc.held \in Seq(Text) /\ acc.lines \in Seq(Line)
      /\ lines \in Seq(Line) /\ Len(acc.held) \in Nat
  BY ConcatProperties, LenProperties DEF Accumulated
<1>3. /\ Len(acc.held) <= Len(text)
      /\ \A i \in 1..Len(acc.held) :
           acc.held[i] = text[Len(text) - Len(acc.held) + i]
      /\ Len(acc.held) < Len(text) => text[Len(text) - Len(acc.held)] = NL
  BY DEF IsUnendedLineOf
<1>4. CASE p # NL
  <2> DEFINE line == Append(acc.held, p)
  <2>1. TakePiece(acc, p).lines = acc.lines /\ TakePiece(acc, p).held = line
    BY <1>4 DEF TakePiece
  <2>2. AreLinesOf(lines, longer)
    BY <1>4, NoLineMore
  <2>3. /\ Len(line) = Len(acc.held) + 1 /\ line[Len(acc.held) + 1] = p
        /\ \A i \in 1..Len(acc.held) : line[i] = acc.held[i]
    BY <1>2, <1>4, AppendProperties DEF Text
  <2> HIDE DEF line, longer
  <2>4. /\ Len(line) \in Nat /\ Len(longer) \in Nat /\ Len(line) <= Len(longer)
        /\ Len(longer) - Len(line) = Len(text) - Len(acc.held)
        /\ Len(line) < Len(longer) => Len(acc.held) < Len(text)
    BY <1>1, <1>2, <1>3, <2>3
  <2>5. ASSUME NEW i \in 1..Len(line)
        PROVE  line[i] = longer[Len(longer) - Len(line) + i]
    <3>1. CASE i = Len(acc.held) + 1
      <4>1. \A m, n \in Nat : m - n + (n + 1) = m + 1
        OBVIOUS
      <4>2. Len(text) - Len(acc.held) + (Len(acc.held) + 1) = Len(text) + 1
        BY <1>1, <1>2, <4>1
      <4>3. QED
        BY <1>1, <2>3, <2>4, <3>1, <4>2
    <3>2. CASE i \in 1..Len(acc.held)
      <4>1. /\ Len(longer) - Len(line) + i = Len(text) - Len(acc.held) + i
            /\ Len(text) - Len(acc.held) + i \in 1..Len(text)
        BY <1>1, <1>2, <1>3, <2>3, <3>2
      <4>2. QED
        BY <1>1, <1>3, <2>3, <3>2, <4>1
    <3>3. i = Len(acc.held) + 1 \/ i \in 1..Len(acc.held)
      <4>1. \A n \in Nat : \A k \in 1..n + 1 : k = n + 1 \/ k \in 1..n
        OBVIOUS
      <4>2. Len(acc.held) \in Nat /\ i \in 1..Len(acc.held) + 1
        BY ONLY <1>2, <2>3, <2>5
      <4>3. QED
        BY ONLY <4>1, <4>2
    <3>4. QED
      BY ONLY <3>1, <3>2, <3>3
  <2>6. Len(line) < Len(longer) => longer[Len(longer) - Len(line)] = NL
    <3>1. Len(acc.held) < Len(text) => Len(text) - Len(acc.held) \in 1..Len(text)
      BY <1>1, <1>2
    <3>2. QED
      BY <1>1, <1>3, <2>4, <3>1
  <2>7. IsUnendedLineOf(line, longer)
    BY <2>5, <2>6, <2>4 DEF IsUnendedLineOf
  <2>8. QED
    BY <2>1, <2>2, <2>7 DEF longer
<1>5. ASSUME p = NL
      PROVE  IsUnendedLineOf(<<>>, longer)
  <2>1. Len(<<>>) = 0 /\ Len(longer) - 0 = Len(text) + 1
    BY <1>1
  <2>2. QED
    BY <1>1, <1>5, <2>1 DEF IsUnendedLineOf
<1>6. CASE p = NL /\ acc.held = <<>>
  <2>1. TakePiece(acc, p) = acc
    BY <1>6 DEF TakePiece
  <2>2. Len(acc.held) = 0
    BY <1>6
  <2>3. ~ (Len(text) > 0 /\ text[Len(text)] # NL)
    BY <1>1, <1>3, <2>2
  <2>4. AreLinesOf(lines, longer)
    BY <2>3, NoLineMore
  <2>5. QED
    BY <1>5, <1>6, <2>1, <2>4
<1>7. CASE p = NL /\ acc.held # <<>>
  <2>1. /\ TakePiece(acc, p).held = <<>>
        /\ TakePiece(acc, p).lines = Append(acc.lines, acc.held)
    BY <1>7 DEF TakePiece
  <2>2. AreLinesOf(Append(lines, acc.held), longer)
    BY <1>2, <1>7, OneLineMore
  <2>3. before \o Append(acc.lines, acc.held) = Append(lines, acc.held)
    BY <1>2, ConcatAssociative, AppendIsConcat
  <2>4. QED
    BY <1>5, <1>7, <2>1, <2>2, <2>3
<1>8. QED
  BY <1>4, <1>6, <1>7

-----------------------------------------------------------------------------
(* Types.                                                                  *)

Places ==
  {"none", "new", "loop", "select", "process", "reading", "flush", "ended"}

LEMMA InitialTypes == LogInit => LogTypeOK
<1> SUFFICES ASSUME LogInit
             PROVE  LogTypeOK
  OBVIOUS
<1>1. <<>> \in Seq(Piece) /\ <<>> \in Seq(Text) /\ <<>> \in Seq(Line)
  BY EmptySeq
<1>2. MaxRuns \in Nat /\ Room \in Nat /\ MaxFailures \in Nat /\ Len(<<>>) = 0
  BY LogPumpAssumption
<1>3. /\ fd \in [Streams -> 0..MaxRuns] /\ pfd \in [Streams -> 0..MaxRuns]
      /\ buf \in [Streams -> [Runs -> Seq(Piece)]]
      /\ readEnd \in [Streams -> [Runs -> BOOLEAN]]
      /\ held \in [Runs -> [Streams -> Seq(Text)]]
      /\ written \in [Streams -> Seq(Piece)]
      /\ out \in [Streams -> Seq(Line)]
  BY <1>1, <1>2 DEF LogInit
<1>4. \A s \in Streams : \A g \in Runs : Len(buf[s][g]) <= Room
  BY <1>2 DEF LogInit
<1>5. /\ runs \in 0..MaxRuns /\ handle \in 0..MaxRuns /\ failures \in 0..MaxFailures
      /\ ctl \in {"idle", "stdout", "stderr", "spawning", "closing", "joining"}
      /\ continue \in BOOLEAN /\ failed \in BOOLEAN /\ alive \in BOOLEAN
      /\ caller \in 0..MaxRuns
  <2>1. /\ runs \in 0..MaxRuns /\ handle \in 0..MaxRuns /\ failures \in 0..MaxFailures
        /\ caller \in 0..MaxRuns
    BY <1>2 DEF LogInit
  <2>2. /\ ctl \in {"idle", "stdout", "stderr", "spawning", "closing", "joining"}
        /\ continue \in BOOLEAN /\ failed \in BOOLEAN /\ alive \in BOOLEAN
    BY Zenon DEF LogInit
  <2>3. QED
    BY <2>1, <2>2
<1>6. /\ pump \in [Runs -> Places]
      /\ reads \in [Runs -> [Streams -> 0..MaxRuns]]
      /\ open \in [Runs -> SUBSET Streams] /\ ready \in [Runs -> SUBSET Streams]
  BY <1>2 DEF LogInit, Places
<1>7. QED
  BY <1>3, <1>4, <1>5, <1>6 DEF LogTypeOK, Text, Line, Places

LEMMA CleanupTypes ==
  ASSUME LogTypeOK, NEW known, CleanupStreams(known)
  PROVE  readEnd' \in [Streams -> [Runs -> BOOLEAN]] /\ pfd' \in [Streams -> 0..MaxRuns]
BY LogPumpAssumption DEF LogTypeOK, CleanupStreams

\* What a read of n pieces leaves on the socket, takes, holds and hands over.
LEMMA ReadTypes ==
  ASSUME NEW pieces \in Seq(Piece), NEW n \in 0..Len(pieces),
         NEW partial \in Seq(Text)
  PROVE  /\ SubSeq(pieces, n + 1, Len(pieces)) \in Seq(Piece)
         /\ Len(SubSeq(pieces, n + 1, Len(pieces))) = Len(pieces) - n
         /\ \A i \in 1..Len(pieces) - n :
              SubSeq(pieces, n + 1, Len(pieces))[i] = pieces[n + i]
         /\ SubSeq(pieces, 1, n) \in Seq(Piece) /\ Len(SubSeq(pieces, 1, n)) = n
         /\ \A i \in 1..n : SubSeq(pieces, 1, n)[i] = pieces[i]
         /\ Cut(partial, SubSeq(pieces, 1, n)) \in Accumulated
<1>1. Len(pieces) \in Nat /\ n \in Nat /\ n <= Len(pieces)
  BY LenProperties
<1>2. /\ SubSeq(pieces, n + 1, Len(pieces)) \in Seq(Piece)
      /\ Len(SubSeq(pieces, n + 1, Len(pieces))) = Len(pieces) - n
      /\ \A i \in 1..Len(pieces) - n :
           SubSeq(pieces, n + 1, Len(pieces))[i] = pieces[n + i]
  BY <1>1
<1>3. /\ SubSeq(pieces, 1, n) \in Seq(Piece) /\ Len(SubSeq(pieces, 1, n)) = n
      /\ \A i \in 1..n : SubSeq(pieces, 1, n)[i] = pieces[i]
  BY <1>1
<1>4. Cut(partial, SubSeq(pieces, 1, n)) \in Accumulated
  <2> DEFINE read == SubSeq(pieces, 1, n)
  <2>1. read \in Seq(Piece) /\ Len(read) \in 0..Len(read)
    BY <1>1, <1>3
  <2> HIDE DEF read
  <2>2. Cutting(partial, read)[Len(read)] \in Accumulated
    BY <2>1, CuttingTypes
  <2>3. QED
    BY <2>2 DEF Cut, read
<1>5. QED
  BY <1>2, <1>3, <1>4

LEMMA TypesRun ==
  ASSUME LogTypeOK, CtlStep \/ Run \/ RunFails \/ Stop
  PROVE  LogTypeOK'
<1> USE LogPumpAssumption
<1>1. CASE Run
  BY <1>1 DEF Run, LogTypeOK, pumpVars
<1>2. ASSUME NEW s \in Streams, Redirect(s)
      PROVE  LogTypeOK'
  <2>1. fd' \in [Streams -> 0..MaxRuns] /\ pfd' \in [Streams -> 0..MaxRuns]
    BY <1>2 DEF Redirect, LogTypeOK
  <2>2. readEnd' \in [Streams -> [Runs -> BOOLEAN]]
    BY <1>2 DEF Redirect, LogTypeOK
  <2>3. QED
    BY <1>2, <2>1, <2>2 DEF Redirect, LogTypeOK, pumpVars
<1>3. CASE RunFails
  <2>1. readEnd' \in [Streams -> [Runs -> BOOLEAN]] /\ pfd' \in [Streams -> 0..MaxRuns]
    BY <1>3, CleanupTypes DEF RunFails
  <2>2. QED
    BY <1>3, <2>1 DEF RunFails, Refuse, LogTypeOK, pumpVars
<1>4. CASE Spawn
  BY <1>4 DEF Spawn, LogTypeOK
<1>5. CASE Stop
  BY <1>5 DEF Stop, LogTypeOK, pumpVars
<1>6. CASE CloseReadEnds
  <2>1. readEnd' \in [Streams -> [Runs -> BOOLEAN]] /\ pfd' \in [Streams -> 0..MaxRuns]
    BY <1>6, CleanupTypes DEF CloseReadEnds
  <2>2. QED
    BY <1>6, <2>1 DEF CloseReadEnds, LogTypeOK, pumpVars
<1>7. CASE Join \/ JoinFails
  BY <1>7 DEF Join, JoinFails, LogTypeOK, pumpVars
<1>8. QED
  BY <1>1, <1>2, <1>3, <1>4, <1>5, <1>6, <1>7 DEF CtlStep

LEMMA TypesWrite ==
  ASSUME LogTypeOK, NEW s \in Streams,
         BrokenPipe(s) \/ \E p \in Piece : Write(s, p)
  PROVE  LogTypeOK'
<1>1. CASE BrokenPipe(s)
  BY <1>1 DEF BrokenPipe, LogTypeOK, ctlVars, pumpVars
<1>2. ASSUME NEW p \in Piece, Write(s, p)
      PROVE  LogTypeOK'
  <2> DEFINE g == fd[s]
  <2>1. /\ g \in Runs /\ buf[s][g] \in Seq(Piece) /\ Len(buf[s][g]) \in Nat
        /\ Len(buf[s][g]) < Room /\ written[s] \in Seq(Piece)
    BY <1>2, LogPumpAssumption, LenProperties DEF Write, LogTypeOK, Runs
  <2>2. /\ Append(buf[s][g], p) \in Seq(Piece)
        /\ Len(Append(buf[s][g], p)) <= Room
        /\ Append(written[s], p) \in Seq(Piece)
    BY <2>1, AppendProperties, LogPumpAssumption
  <2>3. /\ buf' = [buf EXCEPT ![s][g] = Append(buf[s][g], p)]
        /\ written' = [written EXCEPT ![s] = Append(written[s], p)]
    BY <1>2 DEF Write
  <2>4. buf' \in [Streams -> [Runs -> Seq(Piece)]]
    BY <2>1, <2>2, <2>3 DEF LogTypeOK
  <2>5. \A t \in Streams : \A k \in Runs : Len(buf'[t][k]) <= Room
    BY <2>1, <2>2, <2>3 DEF LogTypeOK
  <2>6. written' \in [Streams -> Seq(Piece)]
    BY <2>2, <2>3 DEF LogTypeOK
  <2>7. QED
    BY <1>2, <2>4, <2>5, <2>6 DEF Write, LogTypeOK, ctlVars, pumpVars
<1>3. QED
  BY <1>1, <1>2

\* What a listener that is handed lines may have changed.
LEMMA ListenTypes ==
  ASSUME LogTypeOK, NEW g \in Runs, NEW lines, Listen(g, lines)
  PROVE  /\ pfd' \in [Streams -> 0..MaxRuns]
         /\ runs' \in 0..MaxRuns /\ handle' \in 0..MaxRuns /\ caller' \in 0..MaxRuns
         /\ continue' \in BOOLEAN /\ failed' \in BOOLEAN
         /\ ctl' \in {"idle", "stdout", "stderr", "spawning", "closing", "joining"}
<1>1. g \in 0..MaxRuns
  BY LogPumpAssumption DEF Runs
<1>2. /\ UNCHANGED <<pfd, runs, handle, failed>>
      /\ \/ UNCHANGED <<continue, ctl, caller>>
         \/ continue' = FALSE /\ ctl' = "closing" /\ caller' = g
  BY Zenon DEF Listen
<1>3. /\ pfd \in [Streams -> 0..MaxRuns]
      /\ runs \in 0..MaxRuns /\ handle \in 0..MaxRuns /\ caller \in 0..MaxRuns
      /\ continue \in BOOLEAN /\ failed \in BOOLEAN
      /\ ctl \in {"idle", "stdout", "stderr", "spawning", "closing", "joining"}
  BY Zenon DEF LogTypeOK
<1>4. CASE UNCHANGED <<continue, ctl, caller>>
  BY <1>2, <1>3, <1>4
<1>5. CASE continue' = FALSE /\ ctl' = "closing" /\ caller' = g
  BY <1>1, <1>2, <1>3, <1>5
<1>6. QED
  BY <1>2, <1>4, <1>5

\* What is held, handed over as a line, if there is any.
LEMMA FlushTypes ==
  ASSUME NEW partial \in Seq(Text)
  PROVE  FlushOf(partial) \in Seq(Line)
<1>1. partial # <<>> => partial \in Line
  BY DEF Line
<1>2. QED
  BY <1>1, EmptySeq DEF FlushOf

LEMMA TypesPump ==
  ASSUME LogTypeOK, NEW g \in Runs, PumpStep(g) \/ Interrupted(g)
  PROVE  LogTypeOK'
<1> USE LogPumpAssumption
<1>1. CASE Begin(g)
  BY <1>1 DEF Begin, At, PumpTo, LogTypeOK, ctlVars
<1>2. CASE Turn(g)
  <2>1. pump' \in [Runs -> Places]
    BY <1>2 DEF Turn, PumpTo, LogTypeOK, Places
  <2>2. QED
    BY <1>2, <2>1 DEF Turn, LogTypeOK, ctlVars, Places
<1>3. CASE SelectReady(g)
  <2>1. PICK odd \in SUBSET Unset(g) :
          ready' = [ready EXCEPT ![g] = {s \in open[g] : Readable(g, s)} \union odd]
    BY <1>3 DEF SelectReady
  <2>2. {s \in open[g] : Readable(g, s)} \union odd \in SUBSET Streams
    BY DEF LogTypeOK, Unset
  <2>3. ready' \in [Runs -> SUBSET Streams]
    BY <2>1, <2>2 DEF LogTypeOK
  <2>4. QED
    BY <1>3, <2>3 DEF SelectReady, At, PumpTo, LogTypeOK, ctlVars
<1>4. CASE SelectTimeout(g)
  BY <1>4 DEF SelectTimeout, At, PumpTo, LogTypeOK, ctlVars
<1>5. CASE SelectInterrupted(g)
  BY <1>5 DEF SelectInterrupted, Refuse, At, PumpTo, LogTypeOK, ctlVars
<1>6. CASE End(g)
  <2>1. \A s \in Streams : out[s] \o FlushOf(held[g][s]) \in Seq(Line)
    <3> SUFFICES ASSUME NEW s \in Streams
                 PROVE  out[s] \o FlushOf(held[g][s]) \in Seq(Line)
      OBVIOUS
    <3>1. out[s] \in Seq(Line) /\ held[g][s] \in Seq(Text)
      BY DEF LogTypeOK, Text, Line
    <3>2. FlushOf(held[g][s]) \in Seq(Line)
      BY <3>1, FlushTypes
    <3>3. QED
      BY <3>1, <3>2, ConcatProperties
  <2>2. out' \in [Streams -> Seq(Line)]
    BY <1>6, <2>1 DEF End
  <2>3. held' \in [Runs -> [Streams -> Seq(Text)]]
    BY <1>6, EmptySeq DEF End, LogTypeOK, Text
  <2>4. pump' \in [Runs -> Places]
    BY <1>6 DEF End, PumpTo, LogTypeOK, Places
  <2>5. /\ pfd' \in [Streams -> 0..MaxRuns]
        /\ runs' \in 0..MaxRuns /\ handle' \in 0..MaxRuns /\ caller' \in 0..MaxRuns
        /\ continue' \in BOOLEAN /\ failed' \in BOOLEAN
        /\ ctl' \in {"idle", "stdout", "stderr", "spawning", "closing", "joining"}
    BY <1>6, ListenTypes DEF End
  <2>6. QED
    BY <1>6, <2>2, <2>3, <2>4, <2>5 DEF End, LogTypeOK, Text, Line, Places
<1>7. ASSUME NEW s \in Streams, Processes(g, s)
      PROVE  ready' \in [Runs -> SUBSET Streams] /\ pump' \in [Runs -> Places]
  BY <1>7 DEF Processes, PumpTo, LogTypeOK, Places
<1>8. ASSUME NEW s \in Streams, ReadChunk(g, s)
      PROVE  LogTypeOK'
  <2> DEFINE k == reads[g][s]
             n == Least(Chunk, Len(buf[s][k]))
             cut == Cut(held[g][s], SubSeq(buf[s][k], 1, n))
  <2>1. /\ k \in Runs /\ buf[s][k] \in Seq(Piece) /\ Len(buf[s][k]) \in Nat
        /\ Len(buf[s][k]) <= Room /\ n \in 0..Len(buf[s][k])
        /\ held[g][s] \in Seq(Text) /\ out[s] \in Seq(Line)
    <3>1. k \in Runs
      BY <1>8 DEF ReadChunk, Failing, LogTypeOK, Runs
    <3>2. buf[s][k] \in Seq(Piece) /\ Len(buf[s][k]) <= Room
      BY <3>1 DEF LogTypeOK
    <3>3. Len(buf[s][k]) \in Nat
      BY <3>2, LenProperties
    <3>4. n \in 0..Len(buf[s][k])
      BY <3>3 DEF Least
    <3>5. held[g][s] \in Seq(Text) /\ out[s] \in Seq(Line)
      BY DEF LogTypeOK, Text, Line
    <3>6. QED
      BY <3>1, <3>2, <3>3, <3>4, <3>5
  <2>2. /\ buf' = [buf EXCEPT ![s][k] = SubSeq(buf[s][k], n + 1, Len(buf[s][k]))]
        /\ held' = [held EXCEPT ![g][s] = cut.held]
        /\ out' = [out EXCEPT ![s] = out[s] \o cut.lines]
    BY <1>8 DEF ReadChunk
  <2> HIDE DEF n
  <2>3. /\ SubSeq(buf[s][k], n + 1, Len(buf[s][k])) \in Seq(Piece)
        /\ Len(SubSeq(buf[s][k], n + 1, Len(buf[s][k]))) <= Room
        /\ cut \in Accumulated
    <3>1. /\ SubSeq(buf[s][k], n + 1, Len(buf[s][k])) \in Seq(Piece)
          /\ Len(SubSeq(buf[s][k], n + 1, Len(buf[s][k]))) = Len(buf[s][k]) - n
          /\ cut \in Accumulated
      BY <2>1, ReadTypes
    <3>2. QED
      BY <2>1, <3>1
  <2> HIDE DEF k, cut
  <2>4. cut.held \in Seq(Text) /\ out[s] \o cut.lines \in Seq(Line)
    BY <2>1, <2>3, ConcatProperties DEF Accumulated
  <2>5. buf' \in [Streams -> [Runs -> Seq(Piece)]]
    BY <2>1, <2>2, <2>3 DEF LogTypeOK
  <2>6. \A t \in Streams : \A j \in Runs : Len(buf'[t][j]) <= Room
    BY <2>1, <2>2, <2>3 DEF LogTypeOK
  <2>7. held' \in [Runs -> [Streams -> Seq(Text)]] /\ out' \in [Streams -> Seq(Line)]
    BY <2>2, <2>4 DEF LogTypeOK, Text, Line
  <2>8. /\ ready' \in [Runs -> SUBSET Streams] /\ pump' \in [Runs -> Places]
        /\ Listen(g, cut.lines)
        /\ UNCHANGED <<fd, readEnd, reads, open, written, alive, failures>>
    <3>1. Processes(g, s) /\ UNCHANGED <<fd, readEnd, reads, open, written, alive, failures>>
      BY <1>8 DEF ReadChunk
    <3>2. Listen(g, cut.lines)
      BY <1>8 DEF ReadChunk, n, k, cut
    <3>3. QED
      BY <1>7, <3>1, <3>2
  <2>9. /\ pfd' \in [Streams -> 0..MaxRuns]
        /\ runs' \in 0..MaxRuns /\ handle' \in 0..MaxRuns /\ caller' \in 0..MaxRuns
        /\ continue' \in BOOLEAN /\ failed' \in BOOLEAN
        /\ ctl' \in {"idle", "stdout", "stderr", "spawning", "closing", "joining"}
    BY <2>8, ListenTypes
  <2>10. QED
    BY <2>5, <2>6, <2>7, <2>8, <2>9 DEF LogTypeOK, Text, Line, Places
<1>9. ASSUME NEW s \in Streams, ReadEnd(g, s)
      PROVE  LogTypeOK'
  <2>1. out[s] \in Seq(Line) /\ held[g][s] \in Seq(Text)
    BY DEF LogTypeOK, Text, Line
  <2>2. FlushOf(held[g][s]) \in Seq(Line)
    BY <2>1, FlushTypes
  <2>3. out[s] \o FlushOf(held[g][s]) \in Seq(Line) /\ <<>> \in Seq(Text)
    BY <2>1, <2>2, ConcatProperties, EmptySeq
  <2>4. /\ out' = [out EXCEPT ![s] = out[s] \o FlushOf(held[g][s])]
        /\ held' = [held EXCEPT ![g][s] = <<>>]
        /\ open' = [open EXCEPT ![g] = open[g] \ {s}]
    BY <1>9 DEF ReadEnd
  <2>5. /\ out' \in [Streams -> Seq(Line)]
        /\ held' \in [Runs -> [Streams -> Seq(Text)]]
        /\ open' \in [Runs -> SUBSET Streams]
    BY <2>3, <2>4 DEF LogTypeOK, Text, Line
  <2>6. /\ ready' \in [Runs -> SUBSET Streams] /\ pump' \in [Runs -> Places]
        /\ Listen(g, FlushOf(held[g][s]))
        /\ UNCHANGED <<fd, buf, readEnd, reads, written, alive, failures>>
    BY <1>7, <1>9 DEF ReadEnd
  <2>7. /\ pfd' \in [Streams -> 0..MaxRuns]
        /\ runs' \in 0..MaxRuns /\ handle' \in 0..MaxRuns /\ caller' \in 0..MaxRuns
        /\ continue' \in BOOLEAN /\ failed' \in BOOLEAN
        /\ ctl' \in {"idle", "stdout", "stderr", "spawning", "closing", "joining"}
    BY <2>6, ListenTypes
  <2>8. QED
    BY <2>5, <2>6, <2>7 DEF LogTypeOK, Text, Line, Places
<1>10. ASSUME NEW s \in Streams, ReadBlocks(g, s)
       PROVE  LogTypeOK'
  BY <1>10 DEF ReadBlocks, PumpTo, LogTypeOK, ctlVars
<1>11. ASSUME NEW s \in Streams, GiveUp(g, s), failures' \in 0..MaxFailures
       PROVE  LogTypeOK'
  <2>1. open' \in [Runs -> SUBSET Streams]
    BY <1>11 DEF GiveUp, LogTypeOK
  <2>2. QED
    BY <1>7, <1>11, <2>1 DEF GiveUp, LogTypeOK, ctlVars, Places
<1>12. ASSUME NEW s \in Streams, ReadFails(g, s) \/ ReadInterrupted(g, s)
       PROVE  LogTypeOK'
  <2>1. GiveUp(g, s) /\ failures' \in 0..MaxFailures
    BY <1>12 DEF ReadFails, ReadInterrupted, Refuse, LogTypeOK
  <2>2. QED
    BY <1>11, <2>1
<1>13. QED
  BY <1>1, <1>2, <1>3, <1>4, <1>5, <1>6, <1>8, <1>9, <1>10, <1>12 DEF PumpStep, Interrupted

\* The actions a step is one of.
LEMMA LogStep ==
  ASSUME LogNext
  PROVE  \/ CtlStep \/ Run \/ RunFails \/ Stop
         \/ \E s \in Streams : BrokenPipe(s) \/ \E p \in Piece : Write(s, p)
         \/ \E g \in Runs : PumpStep(g) \/ Interrupted(g)
BY DEF LogNext

\* Type correctness: the variables of the log pump keep their types, sockets
\* hold no more than there is room for, what is held has no newline in it, and
\* no line handed over has one or is empty.
THEOREM LogTypes == LogSpec => []LogTypeOK
<1>1. LogInit => LogTypeOK
  BY InitialTypes
<1>2. LogTypeOK /\ [LogNext]_logVars => LogTypeOK'
  <2> SUFFICES ASSUME LogTypeOK, [LogNext]_logVars
               PROVE  LogTypeOK'
    OBVIOUS
  <2>1. CASE LogNext
    BY <2>1, LogStep, TypesRun, TypesWrite, TypesPump
  <2>2. CASE UNCHANGED logVars
    BY <2>2 DEF logVars, ctlVars, pumpVars, LogTypeOK
  <2>3. QED
    BY <2>1, <2>2
<1>3. QED
  BY <1>1, <1>2, PTL DEF LogSpec

-----------------------------------------------------------------------------
(* Broken pipes.                                                           *)

LEMMA PipeInit == LogInit => PipeInv
BY Zenon DEF LogInit, PipeInv, EndTakesStop

LEMMA PipeRun ==
  ASSUME LogTypeOK, PipeInv, CtlStep \/ Run \/ RunFails \/ Stop
  PROVE  PipeInv'
<1>1. CASE Run
  BY <1>1 DEF Run, PipeInv, EndTakesStop, LogTypeOK
<1>2. ASSUME NEW s \in Streams, Redirect(s)
      PROVE  PipeInv'
  <2>1. /\ ctl = s /\ runs > 0 /\ runs \in Runs
        /\ ctl' \in {"stderr", "spawning"} /\ runs' = runs
    <3>1. /\ ctl = s /\ ctl' \in {"stderr", "spawning"} /\ runs' = runs
      BY <1>2 DEF Redirect
    <3>2. runs > 0
      BY <3>1 DEF PipeInv, Streams
    <3>3. runs \in Runs
      BY <3>2, LogPumpAssumption DEF LogTypeOK, Runs
    <3>4. QED
      BY <3>1, <3>2, <3>3
  <2>2. /\ fd' = [fd EXCEPT ![s] = runs]
        /\ readEnd' = [readEnd EXCEPT ![s][runs] = TRUE]
        /\ UNCHANGED <<continue, failures, alive>>
    BY <1>2 DEF Redirect
  <2>3. ASSUME continue, failures = 0, NEW t \in Streams, fd'[t] # 0
        PROVE  readEnd'[t][fd'[t]]
    <3>1. CASE t = s
      BY <2>1, <2>2, <3>1 DEF LogTypeOK
    <3>2. CASE t # s
      BY <2>2, <2>3, <3>2 DEF LogTypeOK, PipeInv
    <3>3. QED
      BY <3>1, <3>2
  <2>4. QED
    BY <2>1, <2>2, <2>3 DEF PipeInv, EndTakesStop
<1>3. CASE RunFails
  BY <1>3 DEF RunFails, Refuse, PipeInv, EndTakesStop, LogTypeOK
<1>4. CASE Spawn
  BY <1>4 DEF Spawn, PipeInv, EndTakesStop, LogTypeOK
<1>5. CASE Stop
  BY <1>5 DEF Stop, PipeInv, EndTakesStop, LogTypeOK
<1>6. CASE CloseReadEnds
  BY <1>6 DEF CloseReadEnds, PipeInv, EndTakesStop, LogTypeOK
<1>7. CASE Join \/ JoinFails
  BY <1>7 DEF Join, JoinFails, PipeInv, EndTakesStop, LogTypeOK
<1>8. QED
  BY <1>1, <1>2, <1>3, <1>4, <1>5, <1>6, <1>7 DEF CtlStep

LEMMA PipeWrite ==
  ASSUME LogTypeOK, PipeInv, NEW s \in Streams,
         BrokenPipe(s) \/ \E p \in Piece : Write(s, p)
  PROVE  PipeInv'
<1>1. CASE BrokenPipe(s)
  <2>1. ~continue \/ failures # 0
    BY <1>1 DEF BrokenPipe, Exists, PipeInv
  <2>2. ~continue \/ failures > 0
    BY <2>1, LogPumpAssumption DEF LogTypeOK
  <2>3. QED
    BY <1>1, <2>2 DEF BrokenPipe, PipeInv, EndTakesStop, ctlVars
<1>2. CASE \E p \in Piece : Write(s, p)
  BY <1>2 DEF Write, PipeInv, EndTakesStop, ctlVars
<1>3. QED
  BY <1>1, <1>2

\* What a step of a pump changes of what the streams and the stops depend on.
LEMMA PumpChanges ==
  ASSUME LogTypeOK, NEW g \in Runs, PumpStep(g) \/ Interrupted(g)
  PROVE  /\ UNCHANGED <<fd, readEnd, pfd, runs, handle, failed, alive, written>>
         /\ \/ UNCHANGED <<continue, ctl, caller>>
            \/ ctl = "idle" /\ continue' = FALSE /\ ctl' = "closing"
         /\ failures' = failures \/ failures' = failures + 1
<1>1. CASE Begin(g)
  BY <1>1 DEF Begin, ctlVars
<1>2. CASE Turn(g)
  BY <1>2 DEF Turn, ctlVars
<1>3. CASE SelectReady(g)
  BY <1>3 DEF SelectReady, ctlVars
<1>4. CASE SelectTimeout(g)
  BY <1>4 DEF SelectTimeout, ctlVars
<1>5. CASE SelectInterrupted(g)
  BY <1>5 DEF SelectInterrupted, Refuse, ctlVars
<1>6. CASE End(g)
  BY <1>6 DEF End, Listen
<1>7. ASSUME NEW s \in Streams, ReadChunk(g, s) \/ ReadEnd(g, s)
      PROVE  /\ UNCHANGED <<fd, readEnd, pfd, runs, handle, failed, alive, written>>
             /\ \/ UNCHANGED <<continue, ctl, caller>>
                \/ ctl = "idle" /\ continue' = FALSE /\ ctl' = "closing"
             /\ failures' = failures
  BY <1>7 DEF ReadChunk, ReadEnd, Listen
<1>8. ASSUME NEW s \in Streams,
             ReadBlocks(g, s) \/ ReadFails(g, s) \/ ReadInterrupted(g, s)
      PROVE  /\ UNCHANGED <<fd, readEnd, pfd, runs, handle, failed, alive, written>>
             /\ UNCHANGED <<continue, ctl, caller>>
             /\ failures' = failures \/ failures' = failures + 1
  BY <1>8 DEF ReadBlocks, ReadFails, ReadInterrupted, Refuse, GiveUp, ctlVars
<1>9. QED
  BY <1>1, <1>2, <1>3, <1>4, <1>5, <1>6, <1>7, <1>8 DEF PumpStep, Interrupted

LEMMA PipePump ==
  ASSUME LogTypeOK, PipeInv, NEW g \in Runs, PumpStep(g) \/ Interrupted(g)
  PROVE  PipeInv'
<1>1. /\ UNCHANGED <<fd, readEnd, runs, alive>>
      /\ \/ UNCHANGED <<continue, ctl>>
         \/ continue' = FALSE /\ ctl' = "closing"
      /\ failures' = failures \/ failures' = failures + 1
  BY PumpChanges
<1>2. failures \in Nat
  BY LogPumpAssumption DEF LogTypeOK
<1>3. CASE UNCHANGED <<continue, ctl>>
  BY <1>1, <1>2, <1>3 DEF PipeInv, EndTakesStop
<1>4. CASE continue' = FALSE /\ ctl' = "closing"
  BY <1>1, <1>4 DEF PipeInv, EndTakesStop
<1>5. QED
  BY <1>1, <1>3, <1>4

\* As long as no stop and no failure has come, the streams lead to sockets with
\* an open read end, and only a stop closes read ends without a failure.
LEMMA StreamsRead == LogSpec => []PipeInv
<1>1. LogInit => PipeInv
  BY PipeInit
<1>2. LogTypeOK /\ PipeInv /\ [LogNext]_logVars => PipeInv'
  <2> SUFFICES ASSUME LogTypeOK, PipeInv, [LogNext]_logVars
               PROVE  PipeInv'
    OBVIOUS
  <2>1. CASE LogNext
    BY <2>1, LogStep, PipeRun, PipeWrite, PipePump
  <2>2. CASE UNCHANGED logVars
    BY <2>2 DEF logVars, ctlVars, PipeInv, EndTakesStop
  <2>3. QED
    BY <2>1, <2>2
<1>3. QED
  BY <1>1, <1>2, LogTypes, PTL DEF LogSpec

-----------------------------------------------------------------------------
(* Where the streams lead.                                                 *)

\* A stream keeps its ties when only read ends are closed, among them the one
\* that it leads to if it is the one stream_pfd knows.
LEMMA TiesCleanup ==
  ASSUME LogTypeOK, NEW known, CleanupStreams(known), fd' = fd
  PROVE  /\ \A s \in Streams : Broken(s) => Broken(s)'
         /\ \A s \in Streams : fd[s] # 0 /\ known[s] = fd[s] => Broken(s)'
<1>1. \A s \in Streams : fd[s] # 0 => fd[s] \in Runs
  BY LogPumpAssumption DEF LogTypeOK, Runs
<1>2. \A s \in Streams : \A g \in Runs : readEnd'[s][g] = (readEnd[s][g] /\ g # known[s])
  BY DEF CleanupStreams
<1>3. QED
  BY <1>1, <1>2 DEF Broken

LEMMA TiesInit == LogInit => TiesInv
BY DEF LogInit, TiesInv, Tied, Broken, Streams

LEMMA TiesRun ==
  ASSUME LogTypeOK, PipeInv, TiesInv, CtlStep \/ Run \/ RunFails \/ Stop
  PROVE  TiesInv'
<1>1. ASSUME UNCHANGED <<fd, readEnd, pfd, failed>>,
             ctl' \in {"idle", "stdout", "closing", "joining"},
             ctl \in {"idle", "stdout", "closing", "joining"}
      PROVE  TiesInv'
  BY <1>1 DEF TiesInv, Tied, Broken
<1>2. CASE Run \/ Stop \/ Join \/ JoinFails
  BY <1>1, <1>2 DEF Run, Stop, Join, JoinFails
<1>3. ASSUME NEW s \in Streams, Redirect(s)
      PROVE  TiesInv'
  <2>1. /\ ctl = s /\ runs # 0
        /\ fd' = [fd EXCEPT ![s] = runs] /\ pfd' = [pfd EXCEPT ![s] = runs]
        /\ ctl' = IF s = "stdout" THEN "stderr" ELSE "spawning"
    BY <1>3, LogPumpAssumption DEF Redirect, PipeInv, LogTypeOK, Streams
  <2>2. fd'[s] # 0 /\ pfd'[s] = fd'[s]
    BY <2>1 DEF LogTypeOK
  <2>3. s = "stderr" => fd'["stdout"] = fd["stdout"] /\ pfd'["stdout"] = pfd["stdout"]
    BY <2>1 DEF LogTypeOK, Streams
  <2>4. QED
    BY <2>1, <2>2, <2>3 DEF TiesInv, Streams
<1>4. CASE RunFails
  <2>1. PICK known \in {pfd, [pfd EXCEPT ![ctl] = runs]} :
          CleanupStreams(known) /\ (known = pfd \/ ctl \in Streams)
    BY <1>4 DEF RunFails
  <2>2. /\ ctl' = "idle" /\ failed' = TRUE /\ fd' = fd
        /\ ctl \in {"stdout", "stderr", "spawning"}
    BY <1>4 DEF RunFails
  <2>3. /\ \A s \in Streams : Broken(s) => Broken(s)'
        /\ \A s \in Streams : fd[s] # 0 /\ known[s] = fd[s] => Broken(s)'
    BY <2>1, <2>2, TiesCleanup
  <2>4. \A s \in Streams : s # ctl => known[s] = pfd[s]
    BY <2>1 DEF LogTypeOK
  <2>5. CASE ctl = "stdout"
    <3>1. /\ \A s \in Streams : Tied(s) \/ \E t \in Streams \ {s} : Broken(t)
          /\ fd["stdout"] # 0 /\ fd["stderr"] = 0 => Broken("stdout")
      BY <2>5 DEF TiesInv
    <3>2. Tied("stderr") => Tied("stderr")' /\ (fd["stderr"] # 0 => Broken("stderr")')
      BY <2>2, <2>3, <2>4, <2>5 DEF Tied, Streams
    <3>3. Broken("stdout")' => Tied("stdout")'
      BY DEF Tied
    <3>4. Broken("stdout") => Broken("stdout")'
      BY <2>3 DEF Streams
    <3>5. Broken("stderr") => Broken("stderr")'
      BY <2>3 DEF Streams
    <3>6. Tied("stderr") \/ Broken("stdout")
      BY <3>1 DEF Streams
    <3>7. fd["stdout"] = 0 => Tied("stdout")'
      BY <2>2 DEF Tied
    <3>8. Tied("stdout")' \/ Broken("stderr")'
      BY <3>1, <3>2, <3>3, <3>4, <3>5, <3>6, <3>7 DEF Broken
    <3>9. Tied("stderr")' \/ Broken("stdout")'
      BY <3>2, <3>4, <3>6
    <3>10. \A s \in Streams : (Tied(s) \/ \E t \in Streams \ {s} : Broken(t))'
      BY <3>8, <3>9 DEF Streams
    <3>11. (fd["stdout"] # 0 /\ fd["stderr"] = 0 => Broken("stdout"))'
      BY <2>2, <3>1, <3>4
    <3>12. QED
      BY <2>2, <3>10, <3>11 DEF TiesInv
  <2>6. CASE ctl \in {"stderr", "spawning"}
    <3>1. fd["stdout"] # 0 /\ known["stdout"] = fd["stdout"]
      BY <2>4, <2>6 DEF TiesInv, Streams
    <3>2. Broken("stdout")'
      BY <2>3, <3>1 DEF Streams
    <3>3. \A s \in Streams : (Tied(s) \/ \E t \in Streams \ {s} : Broken(t))'
      BY <3>2 DEF Tied, Streams
    <3>4. QED
      BY <2>2, <3>2, <3>3 DEF TiesInv
  <2>7. QED
    BY <2>2, <2>5, <2>6
<1>5. CASE Spawn
  <2>1. /\ ctl = "spawning" /\ ctl' = "idle" /\ UNCHANGED <<fd, pfd, readEnd>>
    BY <1>5 DEF Spawn
  <2>2. /\ \A s \in Streams : fd[s] # 0 /\ pfd[s] = fd[s]
    BY <2>1 DEF TiesInv, Streams
  <2>3. (\A s \in Streams : Tied(s))' /\ fd'["stderr"] # 0
    BY <2>1, <2>2 DEF Tied, Streams
  <2>4. QED
    BY <2>1, <2>3 DEF TiesInv
<1>6. CASE CloseReadEnds
  <2>1. CleanupStreams(pfd) /\ ctl = "closing" /\ ctl' = "joining" /\ UNCHANGED <<fd, failed>>
    BY <1>6 DEF CloseReadEnds
  <2>2. /\ \A s \in Streams : Broken(s) => Broken(s)'
        /\ \A s \in Streams : fd[s] # 0 /\ pfd[s] = fd[s] => Broken(s)'
    BY <2>1, TiesCleanup
  <2>3. /\ \A s \in Streams : Tied(s) \/ (failed /\ \E t \in Streams \ {s} : Broken(t))
        /\ fd["stdout"] # 0 /\ fd["stderr"] = 0 => Broken("stdout")
    BY <2>1 DEF TiesInv
  <2>4. \A s \in Streams : Tied(s) => Tied(s)'
    BY <2>1, <2>2 DEF Tied
  <2>5. \A s \in Streams : (Tied(s) \/ (failed /\ \E t \in Streams \ {s} : Broken(t)))'
    BY <2>1, <2>2, <2>3, <2>4
  <2>6. (fd["stdout"] # 0 /\ fd["stderr"] = 0 => Broken("stdout"))'
    BY <2>1, <2>2, <2>3 DEF Streams
  <2>7. QED
    BY <2>1, <2>5, <2>6 DEF TiesInv
<1>7. QED
  BY <1>2, <1>3, <1>4, <1>5, <1>6 DEF CtlStep

LEMMA TiesStep ==
  ASSUME LogTypeOK, PipeInv, TiesInv, LogNext
  PROVE  TiesInv'
<1>1. CASE CtlStep \/ Run \/ RunFails \/ Stop
  BY <1>1, TiesRun
<1>2. ASSUME NEW s \in Streams, BrokenPipe(s) \/ \E p \in Piece : Write(s, p)
      PROVE  TiesInv'
  <2>1. UNCHANGED <<fd, readEnd, pfd, ctl, failed>>
    BY <1>2 DEF BrokenPipe, Write, ctlVars
  <2>2. QED
    BY <2>1 DEF TiesInv, Tied, Broken
<1>3. ASSUME NEW g \in Runs, PumpStep(g) \/ Interrupted(g)
      PROVE  TiesInv'
  <2>1. UNCHANGED <<fd, readEnd, pfd, failed>>
    BY <1>3, PumpChanges
  <2>2. ctl' = ctl \/ (ctl = "idle" /\ ctl' = "closing")
    BY <1>3, PumpChanges
  <2>3. QED
    BY <2>1, <2>2 DEF TiesInv, Tied, Broken
<1>4. QED
  BY <1>1, <1>2, <1>3, LogStep

\* A write ends the process only once a run has failed or the pump has been told
\* to stop; and once the streams have been cleaned up, after any history of runs,
\* failures and stops, no stream that was redirected leads to the normal output
\* again: it is broken, or an earlier run's pump has it and the other is broken.
THEOREM BrokenPipeTakesStop == LogSpec => []OutputNeverNormalAgain
<1>1. LogInit => TiesInv
  BY TiesInit
<1>2. LogTypeOK /\ PipeInv /\ TiesInv /\ [LogNext]_logVars => TiesInv'
  <2> SUFFICES ASSUME LogTypeOK, PipeInv, TiesInv, [LogNext]_logVars
               PROVE  TiesInv'
    OBVIOUS
  <2>1. CASE LogNext
    BY <2>1, TiesStep
  <2>2. CASE UNCHANGED logVars
    BY <2>2 DEF logVars, ctlVars, TiesInv, Tied, Broken
  <2>3. QED
    BY <2>1, <2>2
<1>3. PipeInv /\ TiesInv => OutputNeverNormalAgain
  <2> SUFFICES ASSUME PipeInv, TiesInv
               PROVE  OutputNeverNormalAgain
    OBVIOUS
  <2>1. ASSUME ctl = "idle", pfd = [s \in Streams |-> 0],
               NEW s \in Streams, fd[s] # 0
        PROVE  Broken(s) \/ (failed /\ \E t \in Streams \ {s} : Broken(t))
    <3>1. Tied(s) \/ (failed /\ \E t \in Streams \ {s} : Broken(t))
      BY <2>1 DEF TiesInv
    <3>2. pfd[s] # fd[s]
      BY <2>1
    <3>3. QED
      BY <2>1, <3>1, <3>2 DEF Tied
  <2>2. QED
    BY <2>1 DEF OutputNeverNormalAgain, PipeInv, EndTakesStop
<1>4. QED
  BY <1>1, <1>2, <1>3, LogTypes, StreamsRead, PTL DEF LogSpec

-----------------------------------------------------------------------------
(* Lines.                                                                  *)

\* A prefix with the piece after it is the prefix that is longer by one.
LEMMA PrefixGrows ==
  ASSUME NEW text \in Seq(Piece), NEW m \in Nat, m < Len(text)
  PROVE  /\ SubSeq(text, 1, m) \in Seq(Piece) /\ text[m + 1] \in Piece
         /\ SubSeq(text, 1, m + 1) = Append(SubSeq(text, 1, m), text[m + 1])
<1>1. Len(text) \in Nat /\ m + 1 \in 1..Len(text)
  BY LenProperties
<1>2. text[m + 1] \in Piece
  BY <1>1, ElementOfSeq
<1>3. /\ SubSeq(text, 1, m) \in Seq(Piece) /\ Len(SubSeq(text, 1, m)) = m
      /\ \A i \in 1..m : SubSeq(text, 1, m)[i] = text[i]
  BY <1>1
<1>4. /\ SubSeq(text, 1, m + 1) \in Seq(Piece) /\ Len(SubSeq(text, 1, m + 1)) = m + 1
      /\ \A i \in 1..m + 1 : SubSeq(text, 1, m + 1)[i] = text[i]
  BY <1>1
<1> DEFINE short == SubSeq(text, 1, m)
           long == SubSeq(text, 1, m + 1)
           grown == Append(short, text[m + 1])
<1>5. /\ grown \in Seq(Piece) /\ Len(grown) = m + 1
      /\ \A i \in 1..m : grown[i] = short[i]
      /\ grown[m + 1] = text[m + 1]
  BY <1>2, <1>3, AppendedPiece
<1> HIDE DEF short, long, grown
<1>6. \A i \in 1..m + 1 : grown[i] = long[i]
  <2> SUFFICES ASSUME NEW i \in 1..m + 1
               PROVE  grown[i] = long[i]
    OBVIOUS
  <2>1. CASE i = m + 1
    BY <1>4, <1>5, <2>1 DEF long
  <2>2. CASE i \in 1..m
    BY <1>3, <1>4, <1>5, <2>2 DEF short, long
  <2>3. QED
    BY <2>1, <2>2
<1>7. long = grown
  BY <1>4, <1>5, <1>6, SeqEqual DEF long
<1>8. QED
  BY <1>2, <1>3, <1>7 DEF short, long, grown

\* What a read makes of lines and held text that are right so far.
LEMMA ReadLines ==
  ASSUME NEW text \in Seq(Piece), NEW before \in Seq(Line),
         NEW partial \in Seq(Text), NEW pieces \in Seq(Piece), NEW m \in Nat,
         m + Len(pieces) <= Len(text),
         \A i \in 1..Len(pieces) : pieces[i] = text[m + i],
         AreLinesOf(before, SubSeq(text, 1, m)),
         IsUnendedLineOf(partial, SubSeq(text, 1, m))
  PROVE  LET cut == Cut(partial, pieces)
             read == SubSeq(text, 1, m + Len(pieces))
         IN AreLinesOf(before \o cut.lines, read) /\ IsUnendedLineOf(cut.held, read)
<1> DEFINE cut == Cutting(partial, pieces)
           Right(i) ==
             /\ AreLinesOf(before \o cut[i].lines, SubSeq(text, 1, m + i))
             /\ IsUnendedLineOf(cut[i].held, SubSeq(text, 1, m + i))
           Done == {i \in Nat : i <= Len(pieces) => Right(i)}
<1>1. Len(pieces) \in Nat /\ Len(text) \in Nat
  BY LenProperties
<1>2. /\ cut[0] = Unread(partial)
      /\ \A i \in Nat : i < Len(pieces) => cut[i + 1] = TakePiece(cut[i], pieces[i + 1])
  BY CuttingStep
<1>3. \A i \in 0..Len(pieces) : cut[i] \in Accumulated
  BY CuttingTypes
<1> HIDE DEF cut
<1>4. 0 \in Done
  <2>1. cut[0].lines = <<>> /\ cut[0].held = partial /\ m + 0 = m
    BY <1>2 DEF Unread
  <2>2. before \o <<>> = before
    BY ConcatEmptySeq
  <2>3. QED
    BY <2>1, <2>2
<1>5. ASSUME NEW i \in Nat, i \in Done
      PROVE  i + 1 \in Done
  <2> SUFFICES ASSUME i + 1 <= Len(pieces)
               PROVE  Right(i + 1)
    OBVIOUS
  <2>1. /\ i < Len(pieces) /\ i <= Len(pieces) /\ i \in 0..Len(pieces)
        /\ i + 1 \in 1..Len(pieces)
        /\ m + i \in Nat /\ m + i < Len(text) /\ m + (i + 1) = (m + i) + 1
    BY <1>1
  <2>2. Right(i) /\ cut[i] \in Accumulated
    BY <1>3, <1>5, <2>1
  <2> DEFINE read == SubSeq(text, 1, m + i)
             p == text[(m + i) + 1]
  <2>3. read \in Seq(Piece) /\ p \in Piece /\ SubSeq(text, 1, m + (i + 1)) = Append(read, p)
    BY <2>1, PrefixGrows
  <2>4. cut[i + 1] = TakePiece(cut[i], p)
    BY <1>2, <2>1
  <2> HIDE DEF read, p
  <2>5. AreLinesOf(before \o cut[i].lines, read) /\ IsUnendedLineOf(cut[i].held, read)
    BY <2>2 DEF read
  <2>6. /\ AreLinesOf(before \o TakePiece(cut[i], p).lines, Append(read, p))
        /\ IsUnendedLineOf(TakePiece(cut[i], p).held, Append(read, p))
    BY <2>2, <2>3, <2>5, TakePieceLines
  <2>7. QED
    BY <2>3, <2>4, <2>6
<1> HIDE DEF Done
<1>6. \A i \in Nat : i \in Done
  BY <1>4, <1>5, SetOfNaturalsInduction
<1>7. Right(Len(pieces))
  BY <1>1, <1>6 DEF Done
<1>8. QED
  BY <1>7 DEF Cut, cut

\* A piece written is put at the end of the text and of the socket.
LEMMA WrittenSuffix ==
  ASSUME NEW text \in Seq(Piece), NEW queue \in Seq(Piece), NEW p \in Piece,
         Len(queue) <= Len(text),
         \A i \in 1..Len(queue) : queue[i] = text[Len(text) - Len(queue) + i]
  PROVE  LET more == Append(text, p)
             longer == Append(queue, p)
         IN /\ Len(longer) <= Len(more)
            /\ Len(more) - Len(longer) = Len(text) - Len(queue)
            /\ \A i \in 1..Len(longer) : longer[i] = more[Len(more) - Len(longer) + i]
            /\ SubSeq(more, 1, Len(more) - Len(longer)) =
                 SubSeq(text, 1, Len(text) - Len(queue))
<1> DEFINE more == Append(text, p)
           longer == Append(queue, p)
<1>1. /\ more \in Seq(Piece) /\ Len(text) \in Nat /\ Len(more) = Len(text) + 1
      /\ \A i \in 1..Len(text) : more[i] = text[i]
      /\ more[Len(text) + 1] = p
  BY AppendedPiece
<1>2. /\ Len(queue) \in Nat /\ Len(longer) = Len(queue) + 1
      /\ \A i \in 1..Len(queue) : longer[i] = queue[i]
      /\ longer[Len(queue) + 1] = p
  BY AppendedPiece
<1> HIDE DEF more, longer
<1>3. Len(longer) <= Len(more) /\ Len(more) - Len(longer) = Len(text) - Len(queue)
  BY <1>1, <1>2
<1>4. ASSUME NEW i \in 1..Len(longer)
      PROVE  longer[i] = more[Len(text) - Len(queue) + i]
  <2>1. CASE i \in 1..Len(queue)
    <3>1. Len(text) - Len(queue) + i \in 1..Len(text)
      BY <1>1, <1>2, <2>1
    <3>2. QED
      BY <1>1, <1>2, <2>1, <3>1
  <2>2. CASE i = Len(queue) + 1
    <3>1. \A a, b \in Nat : a - b + (b + 1) = a + 1
      OBVIOUS
    <3>2. Len(text) - Len(queue) + i = Len(text) + 1
      BY <1>1, <1>2, <2>2, <3>1
    <3>3. QED
      BY <1>1, <1>2, <2>2, <3>2
  <2>3. QED
    BY <1>2, <2>1, <2>2
<1>5. SubSeq(more, 1, Len(text) - Len(queue)) = SubSeq(text, 1, Len(text) - Len(queue))
  <2> DEFINE m == Len(text) - Len(queue)
  <2>1. m \in Nat /\ m <= Len(text)
    BY <1>1, <1>2
  <2> HIDE DEF m
  <2>2. \A i \in 1..m : more[i] = text[i]
    BY <1>1, <2>1
  <2>3. SubSeq(more, 1, m) = SubSeq(text, 1, m)
    BY <1>1, <2>1, <2>2
  <2>4. QED
    BY <2>3 DEF m
<1>6. QED
  BY <1>3, <1>4, <1>5 DEF more, longer

FirstRun == runs <= 1 /\ continue

LEMMA FirstRunInit == LogInit => FirstRunInv
<1> SUFFICES ASSUME LogInit
             PROVE  FirstRunInv
  OBVIOUS
<1>1. MaxRuns \in Nat /\ 1 \in Runs
  BY LogPumpAssumption DEF Runs
<1>2. FirstPump
  BY <1>1 DEF LogInit, FirstPump
<1>3. ASSUME NEW s \in Streams
      PROVE  ReadToTheLetter(s)
  <2>1. buf[s][1] = <<>> /\ written[s] = <<>> /\ out[s] = <<>> /\ held[1][s] = <<>>
    BY <1>1 DEF LogInit
  <2>2. /\ Len(written[s]) = 0 /\ Len(buf[s][1]) = 0 /\ Len(out[s]) = 0
        /\ Len(held[1][s]) = 0
    BY <2>1
  <2>3. Taken(s) = <<>>
    BY <2>1, <2>2 DEF Taken
  <2>4. EndsOf(<<>>) = {}
    BY DEF EndsOf
  <2>5. AreLinesOf(out[s], Taken(s))
    BY <2>2, <2>3, <2>4, FS_EmptySet DEF AreLinesOf
  <2>6. IsUnendedLineOf(held[1][s], Taken(s))
    BY <2>2, <2>3 DEF IsUnendedLineOf
  <2>7. QED
    BY <2>2, <2>5, <2>6 DEF ReadToTheLetter
<1>4. QED
  BY <1>2, <1>3 DEF FirstRunInv

\* Nothing is read or written meanwhile.
LEMMA TextUnchanged ==
  ASSUME \A s \in Streams : ReadToTheLetter(s), UNCHANGED <<buf, written, out, held>>
  PROVE  (\A s \in Streams : ReadToTheLetter(s))'
BY DEF ReadToTheLetter, Taken

LEMMA FirstRunRun ==
  ASSUME LogTypeOK, PipeInv, FirstRunInv, CtlStep \/ Run \/ RunFails \/ Stop
  PROVE  FirstRunInv'
<1> SUFFICES ASSUME FirstRun'
             PROVE  FirstPump' /\ (\A s \in Streams : ReadToTheLetter(s))'
  BY DEF FirstRunInv, FirstRun
<1>1. 1 \in Runs /\ runs \in Nat
  BY LogPumpAssumption DEF Runs, LogTypeOK
<1>2. UNCHANGED <<buf, written, out, held>> /\ FirstRun
  <2>1. UNCHANGED <<buf, written, out, held>>
    BY DEF CtlStep, Run, RunFails, Stop, Redirect, Spawn, CloseReadEnds, Join,
           JoinFails, pumpVars
  <2>2. runs' = runs \/ runs' = runs + 1
    BY DEF CtlStep, Run, RunFails, Stop, Redirect, Spawn, CloseReadEnds, Join,
           JoinFails
  <2>3. continue' => continue
    BY DEF CtlStep, Run, RunFails, Stop, Redirect, Spawn, CloseReadEnds, Join,
           JoinFails
  <2>4. QED
    BY <1>1, <2>1, <2>2, <2>3 DEF FirstRun
<1>3. FirstPump /\ \A s \in Streams : ReadToTheLetter(s)
  BY <1>2 DEF FirstRunInv, FirstRun
<1>4. CASE Run
  <2>1. runs = 0 /\ pump[1] = "none" /\ runs' = 1 /\ ctl' = "stdout"
    BY <1>1, <1>3, <1>4 DEF Run, FirstPump, FirstRun
  <2>2. UNCHANGED <<fd, buf, readEnd, pfd, pump, reads, open, ready>>
    BY <1>4 DEF Run, pumpVars
  <2>3. FirstPump'
    BY <1>3, <2>1, <2>2 DEF FirstPump, LogTypeOK
  <2>4. QED
    BY <1>2, <1>3, <2>3, TextUnchanged
<1>5. ASSUME NEW s \in Streams, Redirect(s)
      PROVE  FirstPump'
  <2>1. ctl = s /\ runs = 1 /\ pump[1] = "none" /\ runs' = 1
    BY <1>1, <1>2, <1>3, <1>5 DEF Redirect, FirstPump, PipeInv, FirstRun, Streams
  <2>2. /\ fd' = [fd EXCEPT ![s] = 1] /\ pfd' = [pfd EXCEPT ![s] = 1]
        /\ readEnd' = [readEnd EXCEPT ![s][1] = TRUE]
        /\ ctl' = IF s = "stdout" THEN "stderr" ELSE "spawning"
        /\ UNCHANGED <<pump, reads, open, ready, buf>>
    BY <1>5, <2>1 DEF Redirect, pumpVars
  <2>3. Redirected(s)'
    BY <1>1, <2>2 DEF Redirected, LogTypeOK
  <2>4. ASSUME NEW t \in Streams, t # s
        PROVE  fd'[t] = fd[t] /\ (Redirected(t) => Redirected(t)')
    BY <2>2, <2>4 DEF Redirected, LogTypeOK
  <2>5. ctl' \in {"stderr", "spawning"} => Redirected("stdout")'
    BY <1>3, <2>1, <2>2, <2>3, <2>4 DEF FirstPump, Streams
  <2>6. ctl' = "spawning" => Redirected("stderr")'
    BY <2>2, <2>3 DEF Streams
  <2>7. \A t \in Streams : fd'[t] <= runs'
    <3>1. fd'[s] = 1
      BY <2>3 DEF Redirected
    <3>2. QED
      BY <1>3, <2>1, <2>4, <3>1 DEF FirstPump
  <2>8. QED
    BY <1>3, <2>1, <2>2, <2>5, <2>6, <2>7 DEF FirstPump
<1>6. CASE RunFails
  <2>1. ctl' = "idle" /\ pump[1] = "none" /\ UNCHANGED <<fd, runs, pump>>
    BY <1>3, <1>6 DEF RunFails, FirstPump, pumpVars
  <2>2. FirstPump'
    BY <1>3, <2>1 DEF FirstPump
  <2>3. QED
    BY <1>2, <1>3, <2>2, TextUnchanged
<1>7. CASE Spawn
  <2>1. runs = 1 /\ ctl = "spawning" /\ Redirected("stdout") /\ Redirected("stderr")
    BY <1>1, <1>2, <1>3, <1>7 DEF Spawn, PipeInv, FirstRun, FirstPump
  <2>2. /\ pump' = [pump EXCEPT ![1] = "new"] /\ ctl' = "idle"
        /\ UNCHANGED <<fd, readEnd, pfd, runs>>
    BY <1>7, <2>1 DEF Spawn
  <2>3. pump'[1] = "new" /\ \A g \in Runs \ {1} : pump'[g] = "none"
    BY <1>1, <1>3, <2>2 DEF FirstPump, LogTypeOK
  <2>4. (\A s \in Streams : Redirected(s))'
    BY <2>1, <2>2 DEF Redirected, Streams
  <2>5. FirstPump'
    BY <1>3, <2>1, <2>2, <2>3, <2>4 DEF FirstPump
  <2>6. QED
    BY <1>2, <1>3, <2>5, TextUnchanged
<1>8. CASE Stop
  BY <1>8 DEF Stop, FirstRun
<1>9. CASE CloseReadEnds \/ Join \/ JoinFails
  BY <1>2, <1>9 DEF CloseReadEnds, Join, JoinFails, PipeInv, FirstRun
<1>10. QED
  BY <1>2, <1>3, <1>4, <1>5, <1>6, <1>7, <1>8, <1>9, TextUnchanged DEF CtlStep

LEMMA FirstRunWrite ==
  ASSUME LogTypeOK, FirstRunInv, NEW s \in Streams,
         BrokenPipe(s) \/ \E p \in Piece : Write(s, p)
  PROVE  FirstRunInv'
<1>1. CASE BrokenPipe(s)
  BY <1>1 DEF BrokenPipe, FirstRunInv, FirstPump, Redirected, ReadToTheLetter, Taken,
              ctlVars, pumpVars
<1>2. ASSUME NEW p \in Piece, Write(s, p)
      PROVE  FirstRunInv'
  <2> SUFFICES ASSUME FirstRun'
               PROVE  FirstPump' /\ (\A t \in Streams : ReadToTheLetter(t))'
    BY DEF FirstRunInv, FirstRun
  <2>1. 1 \in Runs /\ runs \in Nat
    BY LogPumpAssumption DEF Runs, LogTypeOK
  <2>2. UNCHANGED <<fd, readEnd, ctlVars, continue, pumpVars, out>> /\ FirstRun
    BY <1>2 DEF Write, FirstRun, ctlVars
  <2>3. FirstPump /\ \A t \in Streams : ReadToTheLetter(t)
    BY <2>2 DEF FirstRunInv, FirstRun
  <2>4. fd[s] = 1
    BY <1>2, <2>1, <2>2, <2>3 DEF Write, FirstPump, FirstRun, LogTypeOK
  <2>5. /\ buf' = [buf EXCEPT ![s][1] = Append(buf[s][1], p)]
        /\ written' = [written EXCEPT ![s] = Append(written[s], p)]
    BY <1>2, <2>4 DEF Write
  <2>6. /\ buf[s][1] \in Seq(Piece) /\ written[s] \in Seq(Piece)
        /\ buf'[s][1] = Append(buf[s][1], p) /\ written'[s] = Append(written[s], p)
    BY <2>1, <2>5 DEF LogTypeOK
  <2>7. \A t \in Streams : t # s => buf'[t] = buf[t] /\ written'[t] = written[t]
    BY <2>5 DEF LogTypeOK
  <2>8. buf'[s][1] # <<>>
    BY <2>6, AppendProperties
  <2>9. FirstPump'
    <3>1. \A t \in Streams : buf[t][1] # <<>> => buf'[t][1] # <<>>
      BY <2>7, <2>8
    <3>2. \A t \in ready[1] : t \in Streams
      BY <2>1 DEF LogTypeOK
    <3>3. QED
      BY <2>2, <2>3, <3>1, <3>2 DEF FirstPump, Redirected, ctlVars, pumpVars
  <2>10. ReadToTheLetter(s)'
    <3> DEFINE text == written[s]
               queue == buf[s][1]
               more == Append(text, p)
               longer == Append(queue, p)
    <3>1. /\ Len(queue) <= Len(text)
          /\ \A i \in 1..Len(queue) : queue[i] = text[Len(text) - Len(queue) + i]
      BY <2>3 DEF ReadToTheLetter
    <3>2. /\ Len(longer) <= Len(more)
          /\ \A i \in 1..Len(longer) : longer[i] = more[Len(more) - Len(longer) + i]
          /\ SubSeq(more, 1, Len(more) - Len(longer)) =
               SubSeq(text, 1, Len(text) - Len(queue))
      BY <2>6, <3>1, WrittenSuffix
    <3>3. Taken(s)' = Taken(s) /\ out'[s] = out[s] /\ held'[1][s] = held[1][s]
      BY <2>2, <2>6, <3>2 DEF Taken, pumpVars
    <3>4. AreLinesOf(out[s], Taken(s)) /\ IsUnendedLineOf(held[1][s], Taken(s))
      BY <2>3 DEF ReadToTheLetter
    <3>5. AreLinesOf(out[s], Taken(s))' /\ IsUnendedLineOf(held[1][s], Taken(s))'
      BY <3>3, <3>4
    <3>6. QED
      BY <2>6, <3>2, <3>5 DEF ReadToTheLetter
  <2>11. ASSUME NEW t \in Streams, t # s
         PROVE  ReadToTheLetter(t)'
    BY <2>2, <2>3, <2>7, <2>11 DEF ReadToTheLetter, Taken, pumpVars
  <2>12. QED
    BY <2>9, <2>10, <2>11
<1>3. QED
  BY <1>1, <1>2

LEMMA FirstRunRead ==
  ASSUME LogTypeOK, FirstPump, \A t \in Streams : ReadToTheLetter(t),
         NEW s \in Streams, ReadChunk(1, s), 1 \in Runs,
         UNCHANGED <<ctlVars, continue>>
  PROVE  FirstPump' /\ (\A t \in Streams : ReadToTheLetter(t))'
<1> DEFINE text == written[s]
           queue == buf[s][1]
           n == Least(Chunk, Len(queue))
           rest == SubSeq(queue, n + 1, Len(queue))
           read == SubSeq(queue, 1, n)
           cut == Cut(held[1][s], read)
           m == Len(text) - Len(queue)
<1>1. pump[1] = "process" /\ reads[1][s] = 1 /\ s \in ready[1]
  BY DEF ReadChunk, Processes, Next, At, FirstPump
<1>2. /\ buf' = [buf EXCEPT ![s][1] = rest]
      /\ held' = [held EXCEPT ![1][s] = cut.held]
      /\ out' = [out EXCEPT ![s] = out[s] \o cut.lines]
      /\ ready' = [ready EXCEPT ![1] = ready[1] \ {s}]
      /\ pump' = [pump EXCEPT ![1] = IF ready[1] = {s} THEN "loop" ELSE "process"]
      /\ UNCHANGED <<fd, readEnd, ctlVars, continue, reads, open, written>>
  BY <1>1 DEF ReadChunk, Processes, PumpTo
<1>3. /\ text \in Seq(Piece) /\ queue \in Seq(Piece) /\ held[1][s] \in Seq(Text)
      /\ out[s] \in Seq(Line)
      /\ Len(text) \in Nat /\ Len(queue) \in Nat
  BY LenProperties DEF LogTypeOK, Text, Line
<1>4. /\ Len(queue) <= Len(text)
      /\ \A i \in 1..Len(queue) : queue[i] = text[Len(text) - Len(queue) + i]
      /\ AreLinesOf(out[s], SubSeq(text, 1, m))
      /\ IsUnendedLineOf(held[1][s], SubSeq(text, 1, m))
  BY DEF ReadToTheLetter, Taken
<1>5. n \in 0..Len(queue) /\ n \in Nat /\ n <= Len(queue)
  BY <1>3, LogPumpAssumption DEF Least
<1> HIDE DEF n
<1>6. m \in Nat /\ m + n <= Len(text) /\ m + Len(queue) = Len(text)
  <2>1. Len(queue) <= Len(text)
    BY <1>4
  <2> HIDE DEF text, queue
  <2>2. QED
    BY <1>3, <1>5, <2>1
<1> HIDE DEF m
<1>7. /\ rest \in Seq(Piece) /\ Len(rest) = Len(queue) - n
      /\ \A i \in 1..Len(queue) - n : rest[i] = queue[n + i]
      /\ read \in Seq(Piece) /\ Len(read) = n
      /\ \A i \in 1..n : read[i] = queue[i]
      /\ cut \in Accumulated
  BY <1>3, <1>5, ReadTypes
<1> HIDE DEF text, queue, rest, read
<1>8. \A i \in 1..n : read[i] = text[m + i]
  <2>1. \A i \in 1..n : i \in 1..Len(queue)
    BY <1>3, <1>5
  <2>2. QED
    BY <1>4, <1>7, <2>1 DEF m
<1>9. /\ AreLinesOf(out[s] \o cut.lines, SubSeq(text, 1, m + n))
      /\ IsUnendedLineOf(cut.held, SubSeq(text, 1, m + n))
  BY <1>3, <1>4, <1>6, <1>7, <1>8, ReadLines
<1> HIDE DEF cut
<1>10. /\ buf'[s][1] = rest /\ held'[1][s] = cut.held /\ out'[s] = out[s] \o cut.lines
       /\ written'[s] = text
  BY <1>2 DEF LogTypeOK, text
<1>11. \A t \in Streams : t # s =>
         /\ buf'[t][1] = buf[t][1] /\ held'[1][t] = held[1][t]
         /\ out'[t] = out[t] /\ written'[t] = written[t]
  BY <1>2 DEF LogTypeOK
<1>12. ReadToTheLetter(s)'
  <2>1. Len(rest) <= Len(text) /\ Len(text) - Len(rest) = m + n
    <3>1. \A t, q, a, b \in Nat : a + q = t /\ b <= q => q - b <= t /\ t - (q - b) = a + b
      OBVIOUS
    <3>2. /\ Len(text) \in Nat /\ Len(queue) \in Nat /\ m \in Nat /\ n \in Nat
          /\ m + Len(queue) = Len(text) /\ n <= Len(queue) /\ Len(rest) = Len(queue) - n
      BY <1>3, <1>5, <1>6, <1>7
    <3>3. QED
      BY ONLY <3>1, <3>2
  <2>2. ASSUME NEW i \in 1..Len(rest)
        PROVE  rest[i] = text[Len(text) - Len(rest) + i]
    <3>1. i \in 1..Len(queue) - n /\ n + i \in 1..Len(queue)
      BY <1>3, <1>5, <1>7
    <3>2. rest[i] = queue[n + i]
      BY <1>7, <3>1
    <3>3. queue[n + i] = text[m + (n + i)]
      BY <1>4, <3>1 DEF m
    <3>4. m + (n + i) = Len(text) - Len(rest) + i
      BY <1>5, <1>6, <2>1
    <3>5. QED
      BY <3>2, <3>3, <3>4
  <2>3. Taken(s)' = SubSeq(text, 1, m + n)
    BY <1>10, <2>1 DEF Taken
  <2>4. QED
    BY <1>9, <1>10, <2>1, <2>2, <2>3 DEF ReadToTheLetter
<1>13. ASSUME NEW t \in Streams, t # s
       PROVE  ReadToTheLetter(t)'
  <2>1. /\ buf'[t][1] = buf[t][1] /\ held'[1][t] = held[1][t]
        /\ out'[t] = out[t] /\ written'[t] = written[t]
    BY <1>11, <1>13
  <2>2. Taken(t)' = Taken(t) /\ ReadToTheLetter(t)
    BY <2>1 DEF Taken
  <2>3. QED
    BY <2>1, <2>2 DEF ReadToTheLetter
<1>14. FirstPump'
  <2>1. /\ pump'[1] \in {"loop", "process"}
        /\ \A g \in Runs \ {1} : pump'[g] = pump[g]
        /\ ready'[1] = ready[1] \ {s}
    BY <1>2 DEF LogTypeOK
  <2>2. \A t \in ready'[1] : t \in Streams /\ t # s /\ t \in ready[1]
    BY <2>1 DEF LogTypeOK
  <2>3. \A t \in ready'[1] : buf'[t][1] # <<>>
    BY <1>1, <1>11, <2>2 DEF FirstPump
  <2>4. UNCHANGED <<fd, readEnd, pfd, runs, ctl, reads, open>>
    BY <1>2 DEF ctlVars
  <2>5. (\A t \in Streams : Redirected(t))'
    BY <1>1, <2>4 DEF FirstPump, Redirected
  <2>6. runs = 1 /\ open[1] = Streams /\ \A t \in Streams : reads[1][t] = 1 /\ fd[t] <= runs
    BY <1>1 DEF FirstPump
  <2>7. ctl \notin {"stdout", "stderr", "spawning"}
    BY <1>1 DEF FirstPump
  <2>8. \A g \in Runs \ {1} : pump'[g] = "none"
    BY <2>1 DEF FirstPump
  <2>9. QED
    BY <2>1, <2>3, <2>4, <2>5, <2>6, <2>7, <2>8 DEF FirstPump
<1>15. QED
  BY <1>12, <1>13, <1>14

LEMMA FirstRunPump ==
  ASSUME LogTypeOK, FirstRunInv, NEW g \in Runs, PumpStep(g) \/ Interrupted(g)
  PROVE  FirstRunInv'
<1> SUFFICES ASSUME FirstRun'
             PROVE  FirstPump' /\ (\A s \in Streams : ReadToTheLetter(s))'
  BY DEF FirstRunInv, FirstRun
<1>1. 1 \in Runs
  BY LogPumpAssumption DEF Runs
<1>2. UNCHANGED <<fd, readEnd, ctlVars, continue, written>>
  <2>1. continue' = TRUE
    BY DEF FirstRun
  <2>2. QED
    BY <2>1, PumpChanges DEF ctlVars
<1>3. FirstRun
  BY <1>2 DEF FirstRun, ctlVars
<1>4. FirstPump /\ \A s \in Streams : ReadToTheLetter(s)
  BY <1>3 DEF FirstRunInv, FirstRun
<1>5. pump[g] # "none"
  BY DEF PumpStep, Interrupted, Begin, Turn, SelectReady, SelectTimeout,
         SelectInterrupted, End, ReadChunk, ReadBlocks, ReadEnd, ReadFails,
         ReadInterrupted, GiveUp, Blocked, Processes, Next, At
<1>6. g = 1
  BY <1>4, <1>5 DEF FirstPump
<1>7. /\ runs = 1 /\ ctl \notin {"stdout", "stderr", "spawning"}
      /\ \A s \in Streams : Redirected(s) /\ fd[s] <= runs
      /\ (\A s \in Streams : Redirected(s) /\ fd[s] <= runs)'
  BY <1>2, <1>4, <1>5, <1>6 DEF FirstPump, Redirected, ctlVars
<1>8. pump[1] \in {"loop", "select", "process"} => \A s \in Streams : ~Closed(1, s)
  BY <1>1, <1>4, <1>7 DEF FirstPump, Closed, Redirected
<1>9. CASE Begin(1)
  <2>1. /\ reads' = [reads EXCEPT ![1] = pfd] /\ open' = [open EXCEPT ![1] = Streams]
        /\ pump' = [pump EXCEPT ![1] = "loop"] /\ UNCHANGED <<buf, held, out>>
    BY <1>9 DEF Begin, PumpTo
  <2>2. /\ reads'[1] = pfd /\ open'[1] = Streams /\ pump'[1] = "loop"
        /\ \A k \in Runs \ {1} : pump'[k] = pump[k]
    BY <1>1, <2>1 DEF LogTypeOK
  <2>3. \A s \in Streams : reads'[1][s] = 1
    BY <1>7, <2>2 DEF Redirected
  <2>4. FirstPump'
    BY <1>2, <1>4, <1>7, <2>2, <2>3 DEF FirstPump, ctlVars
  <2>5. QED
    BY <1>2, <1>4, <2>1, <2>4, TextUnchanged
<1>10. CASE Turn(1)
  <2>1. open[1] = Streams /\ \A s \in Streams : ~Closed(1, s) /\ reads[1][s] = 1
    BY <1>4, <1>8, <1>10 DEF Turn, At, FirstPump
  <2>2. continue
    BY <1>3 DEF FirstRun
  <2>3. pump' = [pump EXCEPT ![1] = "select"] /\ UNCHANGED <<buf, held, out, reads, open>>
    BY <1>10, <2>1, <2>2 DEF Turn, PumpTo, Streams
  <2>4. pump'[1] = "select" /\ \A k \in Runs \ {1} : pump'[k] = pump[k]
    BY <1>1, <2>3 DEF LogTypeOK
  <2>5. FirstPump'
    BY <1>2, <1>4, <1>7, <2>1, <2>3, <2>4 DEF FirstPump, ctlVars
  <2>6. QED
    BY <1>2, <1>4, <2>3, <2>5, TextUnchanged
<1>11. CASE SelectReady(1)
  <2>1. open[1] = Streams /\ \A s \in Streams : reads[1][s] = 1
    BY <1>4, <1>11 DEF SelectReady, At, FirstPump
  <2>2. /\ ready' = [ready EXCEPT ![1] = {s \in open[1] : Readable(1, s)}]
        /\ pump' = [pump EXCEPT ![1] = "process"]
        /\ UNCHANGED <<buf, held, out, reads, open>>
    <3>1. Unset(1) = {}
      BY <2>1 DEF Unset
    <3>2. PICK odd \in SUBSET Unset(1) :
            ready' = [ready EXCEPT ![1] = {s \in open[1] : Readable(1, s)} \union odd]
      BY <1>11 DEF SelectReady
    <3>3. {s \in open[1] : Readable(1, s)} \union odd = {s \in open[1] : Readable(1, s)}
      BY <3>1
    <3>4. QED
      BY <1>11, <3>2, <3>3 DEF SelectReady, PumpTo
  <2>3. \A s \in Streams : Readable(1, s) => buf[s][1] # <<>>
    BY <1>7, <2>1 DEF Readable, Redirected
  <2>4. \A s \in ready'[1] : buf'[s][1] # <<>>
    BY <1>1, <2>2, <2>1, <2>3 DEF LogTypeOK
  <2>5. pump'[1] = "process" /\ \A k \in Runs \ {1} : pump'[k] = pump[k]
    BY <1>1, <2>2 DEF LogTypeOK
  <2>6. FirstPump'
    BY <1>2, <1>4, <1>7, <2>2, <2>1, <2>4, <2>5 DEF FirstPump, ctlVars
  <2>7. QED
    BY <1>2, <1>4, <2>2, <2>6, TextUnchanged
<1>12. CASE SelectTimeout(1) \/ SelectInterrupted(1)
  <2>1. /\ pump' = [pump EXCEPT ![1] = "loop"] /\ pump[1] = "select"
        /\ UNCHANGED <<buf, held, out, reads, open>>
    BY <1>12 DEF SelectTimeout, SelectInterrupted, At, PumpTo
  <2>2. pump'[1] = "loop" /\ \A k \in Runs \ {1} : pump'[k] = pump[k]
    BY <1>1, <2>1 DEF LogTypeOK
  <2>3. open[1] = Streams /\ \A s \in Streams : reads[1][s] = 1
    BY <1>4, <2>1 DEF FirstPump
  <2>4. FirstPump'
    BY <1>2, <1>4, <1>7, <2>1, <2>2, <2>3 DEF FirstPump, ctlVars
  <2>5. QED
    BY <1>2, <1>4, <2>1, <2>4, TextUnchanged
<1>13. CASE End(1)
  BY <1>4, <1>13 DEF End, At, FirstPump
<1>14. ASSUME NEW s \in Streams, ReadChunk(1, s)
       PROVE  FirstPump' /\ (\A t \in Streams : ReadToTheLetter(t))'
  BY <1>1, <1>2, <1>4, <1>14, FirstRunRead
<1>15. ASSUME NEW s \in Streams,
              \/ ReadBlocks(1, s) \/ ReadEnd(1, s) \/ ReadFails(1, s)
              \/ ReadInterrupted(1, s)
       PROVE  FALSE
  <2>1. Next(1, s)
    BY <1>15 DEF ReadBlocks, ReadEnd, ReadFails, ReadInterrupted, Blocked, GiveUp, Processes
  <2>2. pump[1] = "process" /\ s \in ready[1]
    BY <1>4, <2>1 DEF Next, At, FirstPump
  <2>3. ~Closed(1, s) /\ reads[1][s] = 1 /\ buf[s][1] # <<>>
    BY <1>4, <1>8, <2>2 DEF FirstPump
  <2>4. ~Failing(1, s) /\ ~AtEnd(1, s) /\ ~Blocked(1, s)
    BY <2>2, <2>3 DEF Failing, AtEnd, Blocked, At
  <2>5. QED
    BY <1>15, <2>3, <2>4 DEF ReadBlocks, ReadEnd, ReadFails, ReadInterrupted
<1>16. QED
  BY <1>6, <1>9, <1>10, <1>11, <1>12, <1>13, <1>14, <1>15 DEF PumpStep, Interrupted

\* Until a stop or a second run, the lines handed over of a stream are those of
\* the text the pump has taken from its socket, in their order, however long
\* the text and however the reads cut it.
THEOREM LinesArriveWhole == LogSpec => []LinesFaithful
<1>1. LogInit => FirstRunInv
  BY FirstRunInit
<1>2. LogTypeOK /\ PipeInv /\ FirstRunInv /\ [LogNext]_logVars => FirstRunInv'
  <2> SUFFICES ASSUME LogTypeOK, PipeInv, FirstRunInv, [LogNext]_logVars
               PROVE  FirstRunInv'
    OBVIOUS
  <2>1. CASE LogNext
    BY <2>1, LogStep, FirstRunRun, FirstRunWrite, FirstRunPump
  <2>2. CASE UNCHANGED logVars
    BY <2>2 DEF logVars, ctlVars, pumpVars, FirstRunInv, FirstPump, Redirected,
                ReadToTheLetter, Taken
  <2>3. QED
    BY <2>1, <2>2
<1>3. FirstRunInv => LinesFaithful
  <2>1. runs = 1 => runs <= 1
    OBVIOUS
  <2>2. QED
    BY <2>1, Zenon DEF FirstRunInv, ReadToTheLetter, LinesFaithful
<1>4. QED
  BY <1>1, <1>2, <1>3, LogTypes, StreamsRead, PTL DEF LogSpec

-----------------------------------------------------------------------------
(* Places.                                                                 *)

LEMMA ApartSymmetric ==
  ASSUME NEW x, NEW y, Apart(x, y)
  PROVE  Apart(y, x)
BY DEF Apart

LEMMA NothingIsApart ==
  /\ Single(<<>>) /\ \A n : UpTo(<<>>, n)
  /\ \A y : Apart(<<>>, y) /\ Apart(y, <<>>)
BY DEF Single, Apart, UpTo

\* A piece more at the end.
LEMMA SingleAppend ==
  ASSUME NEW x \in Seq(Piece), NEW p \in Piece, Single(x), Apart(x, <<p>>)
  PROVE  Single(Append(x, p))
<1>1. /\ Append(x, p) \in Seq(Piece)
      /\ Len(x) \in Nat /\ Len(Append(x, p)) = Len(x) + 1
      /\ \A i \in 1..Len(x) : Append(x, p)[i] = x[i]
      /\ Append(x, p)[Len(x) + 1] = p
  BY AppendedPiece
<1>2. DOMAIN x = 1..Len(x) /\ DOMAIN Append(x, p) = 1..Len(x) + 1
  BY <1>1, LenProperties
<1>3. \A a \in 1..Len(x) : x[a] = p => p = NL
  <2>1. 1 \in DOMAIN <<p>> /\ <<p>>[1] = p
    OBVIOUS
  <2>2. QED
    BY <1>2, <2>1 DEF Apart
<1> DEFINE longer == Append(x, p)
<1> HIDE DEF longer
<1>4. \A a \in 1..Len(x) + 1 : a \in 1..Len(x) \/ a = Len(x) + 1
  BY <1>1
<1>5. \A a, b \in 1..Len(x) + 1 : longer[a] = longer[b] /\ longer[a] # NL => a = b
  BY <1>1, <1>2, <1>3, <1>4 DEF longer, Single
<1>6. QED
  BY <1>2, <1>5 DEF Single, longer

LEMMA ApartAppend ==
  ASSUME NEW x \in Seq(Piece), NEW p \in Piece, NEW y,
         Apart(x, y), Apart(<<p>>, y)
  PROVE  Apart(Append(x, p), y)
<1>1. /\ Append(x, p) \in Seq(Piece)
      /\ Len(x) \in Nat /\ Len(Append(x, p)) = Len(x) + 1
      /\ \A i \in 1..Len(x) : Append(x, p)[i] = x[i]
      /\ Append(x, p)[Len(x) + 1] = p
  BY AppendedPiece
<1>2. DOMAIN x = 1..Len(x) /\ DOMAIN Append(x, p) = 1..Len(x) + 1
  BY <1>1, LenProperties
<1>3. \A b \in DOMAIN y : p = y[b] => p = NL
  <2>1. 1 \in DOMAIN <<p>> /\ <<p>>[1] = p
    OBVIOUS
  <2>2. QED
    BY <2>1 DEF Apart
<1> DEFINE longer == Append(x, p)
<1> HIDE DEF longer
<1>4. \A a \in 1..Len(x) + 1 : a \in 1..Len(x) \/ a = Len(x) + 1
  BY <1>1
<1>5. \A a \in 1..Len(x) + 1 : \A b \in DOMAIN y : longer[a] = y[b] => longer[a] = NL
  BY <1>1, <1>2, <1>3, <1>4 DEF longer, Apart
<1>6. QED
  BY <1>2, <1>5 DEF Apart, longer

LEMMA UpToAppend ==
  ASSUME NEW x \in Seq(Piece), NEW p \in Piece, NEW n \in Nat, UpTo(x, n), p <= n
  PROVE  UpTo(Append(x, p), n)
<1>1. /\ Append(x, p) \in Seq(Piece)
      /\ Len(x) \in Nat /\ Len(Append(x, p)) = Len(x) + 1
      /\ \A i \in 1..Len(x) : Append(x, p)[i] = x[i]
      /\ Append(x, p)[Len(x) + 1] = p
  BY AppendedPiece
<1>2. DOMAIN x = 1..Len(x) /\ DOMAIN Append(x, p) = 1..Len(x) + 1
  BY <1>1, LenProperties
<1> DEFINE longer == Append(x, p)
<1> HIDE DEF longer
<1>3. \A a \in 1..Len(x) + 1 : a \in 1..Len(x) \/ a = Len(x) + 1
  BY <1>1
<1>4. \A a \in 1..Len(x) + 1 : longer[a] <= n
  BY <1>1, <1>2, <1>3 DEF longer, UpTo
<1>5. QED
  BY <1>2, <1>4 DEF UpTo, longer

\* A piece less at the front.
LEMMA WithoutFirst ==
  ASSUME NEW x \in Seq(Piece), x # <<>>
  PROVE  /\ Head(x) \in Piece /\ Tail(x) \in Seq(Piece)
         /\ Single(x) => Single(Tail(x)) /\ Apart(<<Head(x)>>, Tail(x))
         /\ \A y : Apart(x, y) => Apart(Tail(x), y) /\ Apart(<<Head(x)>>, y)
         /\ \A n : UpTo(x, n) => UpTo(Tail(x), n) /\ Head(x) <= n
<1> DEFINE rest == Tail(x)
<1>1. /\ Len(x) \in Nat /\ Len(x) >= 1 /\ DOMAIN x = 1..Len(x)
      /\ Head(x) = x[1] /\ Head(x) \in Piece
      /\ rest \in Seq(Piece) /\ Len(rest) = Len(x) - 1 /\ DOMAIN rest = 1..Len(x) - 1
      /\ \A a \in 1..Len(x) - 1 : rest[a] = x[a + 1]
  BY HeadTailProperties, LenProperties, EmptySeq, ElementOfSeq
<1> HIDE DEF rest
<1>2. /\ \A a \in 1..Len(x) - 1 : a + 1 \in 1..Len(x) /\ a + 1 # 1
      /\ \A a, b \in 1..Len(x) - 1 : a + 1 = b + 1 => a = b
      /\ 1 \in 1..Len(x)
  BY <1>1
<1>3. DOMAIN <<Head(x)>> = {1} /\ <<Head(x)>>[1] = x[1]
  BY <1>1
<1>4. Single(x) => Single(rest) /\ Apart(<<Head(x)>>, rest)
  <2> SUFFICES ASSUME Single(x)
               PROVE  Single(rest) /\ Apart(<<Head(x)>>, rest)
    OBVIOUS
  <2>1. \A a, b \in 1..Len(x) : x[a] = x[b] /\ x[a] # NL => a = b
    BY <1>1 DEF Single
  <2>2. Single(rest)
    BY <1>1, <1>2, <2>1 DEF Single
  <2>3. \A a \in 1..Len(x) - 1 : x[1] = rest[a] => x[1] = NL
    BY <1>1, <1>2, <2>1
  <2>4. QED
    BY <1>1, <1>3, <2>2, <2>3 DEF Apart
<1>5. \A y : Apart(x, y) => Apart(rest, y) /\ Apart(<<Head(x)>>, y)
  BY <1>1, <1>2, <1>3 DEF Apart
<1>6. \A n : UpTo(x, n) => UpTo(rest, n) /\ Head(x) <= n
  BY <1>1, <1>2 DEF UpTo
<1>7. QED
  BY <1>1, <1>4, <1>5, <1>6 DEF rest

Boards(lines, holds, queues) ==
  /\ lines \in Seq(Line)
  /\ holds \in [Runs -> Seq(Text)] /\ queues \in [Runs -> Seq(Piece)]

\* A piece leaves a socket for the end of what a pump holds.
LEMMA HoldPiece ==
  ASSUME NEW lines, NEW holds, NEW queues, NEW n \in Nat,
         Boards(lines, holds, queues), InOnePlace(lines, holds, queues, n),
         NEW g \in Runs, NEW k \in Runs, queues[k] # <<>>
  PROVE  InOnePlace(lines, [holds EXCEPT ![g] = Append(holds[g], Head(queues[k]))],
                    [queues EXCEPT ![k] = Tail(queues[k])], n)
<1> DEFINE p == Head(queues[k])
           rest == Tail(queues[k])
           longer == Append(holds[g], p)
           holds1 == [holds EXCEPT ![g] = longer]
           queues1 == [queues EXCEPT ![k] = rest]
<1>1. holds[g] \in Seq(Piece) /\ queues[k] \in Seq(Piece)
  BY DEF Boards, Text
<1>2. /\ p \in Piece /\ rest \in Seq(Piece)
      /\ Single(rest) /\ Apart(<<p>>, rest) /\ UpTo(rest, n) /\ p <= n
      /\ \A y : Apart(queues[k], y) => Apart(rest, y) /\ Apart(<<p>>, y)
  BY <1>1, WithoutFirst DEF InOnePlace
<1> HIDE DEF p, rest
<1>3. /\ Single(holds[g]) /\ UpTo(holds[g], n)
      /\ Apart(queues[k], holds[g]) /\ Apart(<<p>>, holds[g]) /\ Apart(holds[g], <<p>>)
  BY <1>2, ApartSymmetric DEF InOnePlace
<1>4. Single(longer) /\ UpTo(longer, n)
  BY <1>1, <1>2, <1>3, SingleAppend, UpToAppend
<1>5. \A y : Apart(holds[g], y) /\ Apart(<<p>>, y) => Apart(longer, y) /\ Apart(y, longer)
  BY <1>1, <1>2, ApartAppend, ApartSymmetric
<1> HIDE DEF longer
<1>6. /\ holds1[g] = longer /\ \A j \in Runs : j # g => holds1[j] = holds[j]
      /\ queues1[k] = rest /\ \A j \in Runs : j # k => queues1[j] = queues[j]
  BY DEF Boards
<1> HIDE DEF holds1, queues1
<1>7. \A j \in Runs : Single(holds1[j]) /\ UpTo(holds1[j], n)
  BY <1>4, <1>6 DEF InOnePlace
<1>8. \A j \in Runs : Single(queues1[j]) /\ UpTo(queues1[j], n)
  BY <1>2, <1>6 DEF InOnePlace
<1>9. \A i, j \in Runs : i # j => Apart(queues1[i], queues1[j])
  <2>1. \A j \in Runs : j # k => Apart(rest, queues[j]) /\ Apart(queues[j], rest)
    BY <1>2, ApartSymmetric DEF InOnePlace
  <2>2. QED
    BY <1>6, <2>1 DEF InOnePlace
<1>10. \A i, j \in Runs : i # j => Apart(holds1[i], holds1[j])
  <2>1. \A j \in Runs : j # g => Apart(holds[g], holds[j]) /\ Apart(<<p>>, holds[j])
    BY <1>2, ApartSymmetric DEF InOnePlace
  <2>2. QED
    BY <1>5, <1>6, <2>1 DEF InOnePlace
<1>11. \A i \in DOMAIN lines : \A j \in Runs :
         Apart(lines[i], holds1[j]) /\ Apart(lines[i], queues1[j])
  <2> SUFFICES ASSUME NEW i \in DOMAIN lines
               PROVE  \A j \in Runs :
                        Apart(lines[i], holds1[j]) /\ Apart(lines[i], queues1[j])
    OBVIOUS
  <2>1. \A j \in Runs : Apart(lines[i], holds[j]) /\ Apart(lines[i], queues[j])
    BY DEF InOnePlace
  <2>2. /\ Apart(rest, lines[i]) /\ Apart(lines[i], rest)
        /\ Apart(<<p>>, lines[i]) /\ Apart(holds[g], lines[i])
    BY <1>2, <2>1, ApartSymmetric
  <2>3. QED
    BY <1>5, <1>6, <2>1, <2>2
<1>12. \A i, j \in Runs : Apart(holds1[i], queues1[j])
  <2>1. \A j \in Runs : Apart(holds[j], rest)
    BY <1>2, ApartSymmetric DEF InOnePlace
  <2>2. \A j \in Runs : j # k => Apart(<<p>>, queues[j])
    BY <1>2 DEF InOnePlace
  <2>3. Apart(longer, rest)
    BY <1>2, <1>5, <2>1
  <2>4. \A j \in Runs : j # k => Apart(longer, queues[j])
    BY <1>5, <2>2 DEF InOnePlace
  <2>5. QED
    BY <1>6, <2>1, <2>3, <2>4 DEF InOnePlace
<1>13. InOnePlace(lines, holds1, queues1, n)
  BY <1>7, <1>8, <1>9, <1>10, <1>11, <1>12 DEF InOnePlace
<1>14. QED
  BY <1>13 DEF holds1, queues1, longer, p, rest

\* A piece leaves a socket for good.
LEMMA DropPiece ==
  ASSUME NEW lines, NEW holds, NEW queues, NEW n \in Nat,
         Boards(lines, holds, queues), InOnePlace(lines, holds, queues, n),
         NEW k \in Runs, queues[k] # <<>>
  PROVE  InOnePlace(lines, holds, [queues EXCEPT ![k] = Tail(queues[k])], n)
<1> DEFINE rest == Tail(queues[k])
           queues1 == [queues EXCEPT ![k] = rest]
<1>1. /\ Single(rest) /\ UpTo(rest, n) /\ \A y : Apart(queues[k], y) => Apart(rest, y)
  BY WithoutFirst DEF InOnePlace, Boards
<1> HIDE DEF rest
<1>2. queues1[k] = rest /\ \A j \in Runs : j # k => queues1[j] = queues[j]
  BY DEF Boards
<1> HIDE DEF queues1
<1>3. \A j \in Runs : Single(queues1[j]) /\ UpTo(queues1[j], n)
  BY <1>1, <1>2 DEF InOnePlace
<1>4. \A i, j \in Runs : i # j => Apart(queues1[i], queues1[j])
  <2>1. \A j \in Runs : j # k => Apart(rest, queues[j]) /\ Apart(queues[j], rest)
    BY <1>1, ApartSymmetric DEF InOnePlace
  <2>2. QED
    BY <1>2, <2>1 DEF InOnePlace
<1>5. \A y : Apart(y, queues[k]) => Apart(y, rest)
  BY <1>1, ApartSymmetric
<1>6. /\ \A i \in DOMAIN lines : \A j \in Runs : Apart(lines[i], queues1[j])
      /\ \A i, j \in Runs : Apart(holds[i], queues1[j])
  BY <1>2, <1>5 DEF InOnePlace
<1>7. InOnePlace(lines, holds, queues1, n)
  BY <1>3, <1>4, <1>6 DEF InOnePlace
<1>8. QED
  BY <1>7 DEF queues1, rest

\* What a pump holds becomes a line.
LEMMA HandOver ==
  ASSUME NEW lines, NEW holds, NEW queues, NEW n \in Nat,
         Boards(lines, holds, queues), InOnePlace(lines, holds, queues, n),
         NEW g \in Runs
  PROVE  InOnePlace(Append(lines, holds[g]), [holds EXCEPT ![g] = <<>>], queues, n)
<1> DEFINE last == Len(lines) + 1
           lines1 == Append(lines, holds[g])
           holds1 == [holds EXCEPT ![g] = <<>>]
<1>1. /\ Len(lines) \in Nat /\ DOMAIN lines = 1..Len(lines)
      /\ DOMAIN lines1 = 1..last /\ lines1[last] = holds[g]
      /\ \A i \in 1..Len(lines) : lines1[i] = lines[i]
  BY AppendProperties, LenProperties DEF Boards
<1>2. \A i \in 1..last : i \in 1..Len(lines) \/ i = last
  BY <1>1
<1>3. holds1[g] = <<>> /\ \A j \in Runs : j # g => holds1[j] = holds[j]
  BY DEF Boards
<1> HIDE DEF last, lines1, holds1
<1>4. \A i \in DOMAIN lines1 : Single(lines1[i]) /\ UpTo(lines1[i], n)
  BY <1>1, <1>2 DEF InOnePlace
<1>5. \A j \in Runs : Single(holds1[j]) /\ UpTo(holds1[j], n)
  BY <1>3, NothingIsApart DEF InOnePlace
<1>6. \A i, j \in DOMAIN lines1 : i # j => Apart(lines1[i], lines1[j])
  <2>1. \A i \in 1..Len(lines) : Apart(lines[i], holds[g]) /\ Apart(holds[g], lines[i])
    BY <1>1, ApartSymmetric DEF InOnePlace
  <2>2. QED
    BY <1>1, <1>2, <2>1 DEF InOnePlace
<1>7. \A i, j \in Runs : i # j => Apart(holds1[i], holds1[j])
  BY <1>3, NothingIsApart DEF InOnePlace
<1>8. \A i \in DOMAIN lines1 : \A j \in Runs :
        Apart(lines1[i], holds1[j]) /\ Apart(lines1[i], queues[j])
  <2>1. \A j \in Runs : Apart(holds[g], holds1[j]) /\ Apart(holds[g], queues[j])
    BY <1>3, NothingIsApart DEF InOnePlace
  <2>2. \A i \in 1..Len(lines) : \A j \in Runs :
          Apart(lines[i], holds1[j]) /\ Apart(lines[i], queues[j])
    BY <1>1, <1>3, NothingIsApart DEF InOnePlace
  <2>3. QED
    BY <1>1, <1>2, <2>1, <2>2
<1>9. \A i, j \in Runs : Apart(holds1[i], queues[j])
  BY <1>3, NothingIsApart DEF InOnePlace
<1>10. InOnePlace(lines1, holds1, queues, n)
  BY <1>4, <1>5, <1>6, <1>7, <1>8, <1>9 DEF InOnePlace
<1>11. QED
  BY <1>10 DEF lines1, holds1

\* A piece is written: a newline, or a text nobody has written before.
LEMMA PutPiece ==
  ASSUME NEW lines, NEW holds, NEW queues, NEW n \in Nat, n + 1 \in Piece,
         Boards(lines, holds, queues), InOnePlace(lines, holds, queues, n),
         NEW k \in Runs, NEW p \in {NL, n + 1}
  PROVE  InOnePlace(lines, holds, [queues EXCEPT ![k] = Append(queues[k], p)], n + 1)
<1> DEFINE longer == Append(queues[k], p)
           queues1 == [queues EXCEPT ![k] = longer]
<1>1. queues[k] \in Seq(Piece) /\ p \in Piece /\ p \in Nat /\ p <= n + 1
  BY LogPumpAssumption DEF Boards, Piece, NL
<1>2. /\ \A j \in Runs : holds[j] \in Seq(Piece) /\ queues[j] \in Seq(Piece)
      /\ \A i \in DOMAIN lines : lines[i] \in Seq(Piece)
  BY ElementOfSeq, LenProperties DEF Boards, Text, Line
<1>3. ASSUME NEW y \in Seq(Piece), UpTo(y, n)
      PROVE  UpTo(y, n + 1) /\ Apart(<<p>>, y) /\ Apart(y, <<p>>)
  <2>1. \A b \in DOMAIN y : y[b] \in Nat /\ y[b] <= n
    <3>1. \A b \in DOMAIN y : y[b] \in Piece
      BY ElementOfSeq, LenProperties
    <3>2. QED
      BY <1>3, <3>1, LogPumpAssumption DEF UpTo, Piece
  <2>2. \A b \in DOMAIN y : y[b] <= n + 1 /\ (p = y[b] => p = NL)
    BY <2>1
  <2>3. DOMAIN <<p>> = {1} /\ <<p>>[1] = p
    OBVIOUS
  <2>4. Apart(<<p>>, y)
    BY <2>2, <2>3 DEF Apart
  <2>5. QED
    BY <2>2, <2>4, ApartSymmetric DEF UpTo
<1>4. Single(longer) /\ UpTo(longer, n + 1)
  BY <1>1, <1>3, SingleAppend, UpToAppend DEF InOnePlace
<1>5. ASSUME NEW y \in Seq(Piece), UpTo(y, n), Apart(queues[k], y)
      PROVE  Apart(longer, y) /\ Apart(y, longer)
  BY <1>1, <1>3, <1>5, ApartAppend, ApartSymmetric
<1> HIDE DEF longer
<1>6. queues1[k] = longer /\ \A j \in Runs : j # k => queues1[j] = queues[j]
  BY DEF Boards
<1> HIDE DEF queues1
<1>7. \A i \in DOMAIN lines : Single(lines[i]) /\ UpTo(lines[i], n + 1)
  BY <1>2, <1>3 DEF InOnePlace
<1>8. \A j \in Runs : Single(holds[j]) /\ UpTo(holds[j], n + 1)
  BY <1>2, <1>3 DEF InOnePlace
<1>9. \A j \in Runs : Single(queues1[j]) /\ UpTo(queues1[j], n + 1)
  BY <1>2, <1>3, <1>4, <1>6 DEF InOnePlace
<1>10. \A i, j \in Runs : i # j => Apart(queues1[i], queues1[j])
  <2>1. \A j \in Runs : j # k => Apart(longer, queues[j]) /\ Apart(queues[j], longer)
    BY <1>2, <1>5 DEF InOnePlace
  <2>2. QED
    BY <1>6, <2>1 DEF InOnePlace
<1>11. \A i \in DOMAIN lines : \A j \in Runs : Apart(lines[i], queues1[j])
  <2>1. \A i \in DOMAIN lines : Apart(lines[i], longer)
    BY <1>2, <1>5, ApartSymmetric DEF InOnePlace
  <2>2. QED
    BY <1>6, <2>1 DEF InOnePlace
<1>12. \A i, j \in Runs : Apart(holds[i], queues1[j])
  <2>1. \A i \in Runs : Apart(holds[i], longer)
    BY <1>2, <1>5, ApartSymmetric DEF InOnePlace
  <2>2. QED
    BY <1>6, <2>1 DEF InOnePlace
<1>13. InOnePlace(lines, holds, queues1, n + 1)
  BY <1>7, <1>8, <1>9, <1>10, <1>11, <1>12 DEF InOnePlace
<1>14. QED
  BY <1>13 DEF queues1, longer

\* One piece of a read.
LEMMA TakePiecePlaces ==
  ASSUME NEW before \in Seq(Line), NEW acc \in Accumulated,
         NEW holds, NEW queues, NEW n \in Nat, NEW g \in Runs, NEW k \in Runs,
         Boards(before \o acc.lines, holds, queues), holds[g] = acc.held,
         InOnePlace(before \o acc.lines, holds, queues, n), queues[k] # <<>>
  PROVE  LET next == TakePiece(acc, Head(queues[k]))
         IN InOnePlace(before \o next.lines, [holds EXCEPT ![g] = next.held],
                       [queues EXCEPT ![k] = Tail(queues[k])], n)
<1> DEFINE p == Head(queues[k])
           lines == before \o acc.lines
           rest == [queues EXCEPT ![k] = Tail(queues[k])]
<1>1. acc.held \in Seq(Text) /\ acc.lines \in Seq(Line)
  BY DEF Accumulated
<1>2. InOnePlace(lines, holds, rest, n)
  BY DropPiece
<1>3. Boards(lines, holds, rest)
  BY WithoutFirst DEF Boards
<1>4. CASE p # NL
  <2>1. TakePiece(acc, p).lines = acc.lines /\ TakePiece(acc, p).held = Append(holds[g], p)
    BY <1>4 DEF TakePiece
  <2>2. InOnePlace(lines, [holds EXCEPT ![g] = Append(holds[g], p)], rest, n)
    BY HoldPiece
  <2>3. QED
    BY <2>1, <2>2
<1>5. CASE p = NL /\ acc.held = <<>>
  <2>1. TakePiece(acc, p) = acc
    BY <1>5 DEF TakePiece
  <2>2. [holds EXCEPT ![g] = acc.held] = holds
    BY DEF Boards
  <2>3. QED
    BY <1>2, <2>1, <2>2
<1>6. CASE p = NL /\ acc.held # <<>>
  <2>1. /\ TakePiece(acc, p).held = <<>>
        /\ TakePiece(acc, p).lines = Append(acc.lines, acc.held)
    BY <1>6 DEF TakePiece
  <2>2. InOnePlace(Append(lines, holds[g]), [holds EXCEPT ![g] = <<>>], rest, n)
    BY <1>2, <1>3, HandOver
  <2>3. before \o Append(acc.lines, acc.held) = Append(lines, acc.held)
    BY <1>1, ConcatAssociative, AppendIsConcat
  <2>4. QED
    BY <2>1, <2>2, <2>3
<1>7. QED
  BY <1>4, <1>5, <1>6

\* What is left of a queue after i pieces, and after one more.
LEMMA RestOfQueue ==
  ASSUME NEW queue \in Seq(Piece), NEW i \in Nat, i + 1 <= Len(queue)
  PROVE  LET rest == SubSeq(queue, i + 1, Len(queue))
         IN /\ rest \in Seq(Piece) /\ rest # <<>> /\ Head(rest) = queue[i + 1]
            /\ Tail(rest) = SubSeq(queue, (i + 1) + 1, Len(queue))
<1> DEFINE rest == SubSeq(queue, i + 1, Len(queue))
           next == SubSeq(queue, (i + 1) + 1, Len(queue))
<1>1. Len(queue) \in Nat
  BY LenProperties
<1>2. /\ rest \in Seq(Piece) /\ Len(rest) = Len(queue) - i
      /\ \A j \in 1..Len(queue) - i : rest[j] = queue[i + j]
  BY <1>1
<1>3. /\ next \in Seq(Piece) /\ Len(next) = Len(queue) - (i + 1)
      /\ \A j \in 1..Len(queue) - (i + 1) : next[j] = queue[(i + 1) + j]
  BY <1>1
<1> HIDE DEF rest, next
<1>4. Len(rest) # 0 /\ 1 \in 1..Len(queue) - i
  BY <1>1, <1>2
<1>5. rest # <<>> /\ Head(rest) = queue[i + 1]
  BY <1>2, <1>4, EmptySeq, HeadTailProperties
<1>6. /\ Tail(rest) \in Seq(Piece) /\ Len(Tail(rest)) = Len(rest) - 1
      /\ \A j \in 1..Len(Tail(rest)) : Tail(rest)[j] = rest[j + 1]
  BY <1>2, <1>5, HeadTailProperties
<1>7. Len(Tail(rest)) = Len(next)
  BY <1>1, <1>2, <1>3, <1>6
<1>8. ASSUME NEW j \in 1..Len(next)
      PROVE  Tail(rest)[j] = next[j]
  <2>1. /\ j + 1 \in 1..Len(queue) - i /\ i + (j + 1) = (i + 1) + j
        /\ j \in 1..Len(queue) - (i + 1)
    BY <1>1, <1>3
  <2>2. QED
    BY <1>2, <1>3, <1>6, <1>7, <2>1
<1>9. Tail(rest) = next
  BY <1>3, <1>6, <1>7, <1>8, SeqEqual
<1>10. QED
  BY <1>2, <1>5, <1>9 DEF rest, next

\* A read of the first n pieces of a socket.
LEMMA ReadPlaces ==
  ASSUME NEW before \in Seq(Line), NEW holds, NEW queues, NEW m \in Nat,
         NEW g \in Runs, NEW k \in Runs, NEW n \in 0..Len(queues[k]),
         Boards(before, holds, queues), InOnePlace(before, holds, queues, m)
  PROVE  LET cut == Cut(holds[g], SubSeq(queues[k], 1, n))
         IN InOnePlace(before \o cut.lines, [holds EXCEPT ![g] = cut.held],
              [queues EXCEPT ![k] = SubSeq(queues[k], n + 1, Len(queues[k]))], m)
<1> DEFINE queue == queues[k]
           pieces == SubSeq(queue, 1, n)
           cut == Cutting(holds[g], pieces)
           rest(i) == SubSeq(queue, i + 1, Len(queue))
           Right(i) == InOnePlace(before \o cut[i].lines,
                                  [holds EXCEPT ![g] = cut[i].held],
                                  [queues EXCEPT ![k] = rest(i)], m)
           Done == {i \in Nat : i <= n => Right(i)}
<1>1. /\ queue \in Seq(Piece) /\ Len(queue) \in Nat /\ holds[g] \in Seq(Text)
      /\ holds \in [Runs -> Seq(Text)] /\ queues \in [Runs -> Seq(Piece)]
  BY LenProperties DEF Boards
<1>2. n \in Nat /\ n <= Len(queue)
  BY <1>1
<1> HIDE DEF queue
<1>3. /\ pieces \in Seq(Piece) /\ Len(pieces) = n
      /\ \A i \in 1..n : pieces[i] = queue[i]
  BY <1>1, <1>2
<1> HIDE DEF pieces
<1>4. /\ cut[0] = Unread(holds[g])
      /\ \A i \in Nat : i < n => cut[i + 1] = TakePiece(cut[i], pieces[i + 1])
  BY <1>1, <1>3, CuttingStep
<1>5. \A i \in 0..n : cut[i] \in Accumulated
  BY <1>1, <1>3, CuttingTypes
<1> HIDE DEF cut
<1>6. 0 \in Done
  <2>1. cut[0].lines = <<>> /\ cut[0].held = holds[g] /\ before \o <<>> = before
    BY <1>4, ConcatEmptySeq DEF Unread
  <2>2. rest(0) = queue
    BY <1>1
  <2>3. [queues EXCEPT ![k] = queue] = queues /\ [holds EXCEPT ![g] = holds[g]] = holds
    BY <1>1 DEF queue
  <2>4. QED
    BY <2>1, <2>2, <2>3
<1>7. ASSUME NEW i \in Nat, i \in Done
      PROVE  i + 1 \in Done
  <2> SUFFICES ASSUME i + 1 <= n
               PROVE  Right(i + 1)
    OBVIOUS
  <2> DEFINE holds1 == [holds EXCEPT ![g] = cut[i].held]
             queues1 == [queues EXCEPT ![k] = rest(i)]
             next == TakePiece(cut[i], Head(queues1[k]))
  <2>1. i < n /\ i <= n /\ i \in 0..n /\ i + 1 \in 1..n /\ i + 1 <= Len(queue)
    BY <1>1, <1>2
  <2>2. Right(i) /\ cut[i] \in Accumulated
    BY <1>5, <1>7, <2>1
  <2>3. rest(i) \in Seq(Piece) /\ rest(i) # <<>> /\ Head(rest(i)) = queue[i + 1]
    BY <1>1, <2>1, RestOfQueue
  <2>4. Tail(rest(i)) = rest(i + 1)
    BY <1>1, <2>1, RestOfQueue
  <2>5. cut[i].held \in Seq(Text) /\ cut[i].lines \in Seq(Line)
    BY <2>2 DEF Accumulated
  <2> HIDE DEF rest
  <2>6. /\ queues1[k] = rest(i) /\ holds1[g] = cut[i].held
        /\ Boards(before \o cut[i].lines, holds1, queues1)
    BY <1>1, <2>3, <2>5, ConcatProperties DEF Boards
  <2>7. cut[i + 1] = next
    BY <1>3, <1>4, <2>1, <2>3, <2>6
  <2>8. /\ [holds1 EXCEPT ![g] = next.held] = [holds EXCEPT ![g] = next.held]
        /\ [queues1 EXCEPT ![k] = Tail(queues1[k])] = [queues EXCEPT ![k] = rest(i + 1)]
    BY <1>1, <2>4, <2>6
  <2> HIDE DEF holds1, queues1
  <2>9. InOnePlace(before \o next.lines, [holds1 EXCEPT ![g] = next.held],
                   [queues1 EXCEPT ![k] = Tail(queues1[k])], m)
    <3>1. InOnePlace(before \o cut[i].lines, holds1, queues1, m) /\ queues1[k] # <<>>
      BY <2>2, <2>3, <2>6 DEF holds1, queues1
    <3>2. QED
      BY <2>2, <2>6, <3>1, TakePiecePlaces
  <2>10. QED
    BY <2>7, <2>8, <2>9
<1> HIDE DEF Done
<1>8. \A i \in Nat : i \in Done
  BY <1>6, <1>7, SetOfNaturalsInduction
<1>9. Right(n)
  BY <1>2, <1>8 DEF Done
<1>10. QED
  BY <1>3, <1>9 DEF Cut, cut, pieces, queue

PlacesOf(s) == InOnePlace(out[s], HeldOf(s), buf[s], Len(written[s]))

LEMMA PlacesTyped ==
  ASSUME LogTypeOK, NEW s \in Streams
  PROVE  /\ Boards(out[s], HeldOf(s), buf[s]) /\ Len(written[s]) \in Nat
         /\ \A g \in Runs : HeldOf(s)[g] = held[g][s]
BY LenProperties DEF LogTypeOK, Boards, HeldOf, Text, Line

LEMMA PlacesUnchanged ==
  ASSUME NEW s \in Streams, PlacesOf(s), out'[s] = out[s], buf'[s] = buf[s],
         written'[s] = written[s], \A g \in Runs : held'[g][s] = held[g][s]
  PROVE  PlacesOf(s)'
<1>1. HeldOf(s)' = HeldOf(s)
  BY DEF HeldOf
<1>2. QED
  BY <1>1 DEF PlacesOf, InOnePlace

LEMMA PlacesInit == LogInit => PlacesInv
<1> SUFFICES ASSUME LogInit, NEW s \in Streams
             PROVE  PlacesOf(s)
  BY DEF PlacesInv, PlacesOf
<1>1. /\ out[s] = <<>> /\ DOMAIN out[s] = {}
      /\ \A g \in Runs : HeldOf(s)[g] = <<>> /\ buf[s][g] = <<>>
  BY DEF LogInit, HeldOf
<1>2. QED
  BY <1>1, NothingIsApart DEF PlacesOf, InOnePlace

LEMMA PlacesWrite ==
  ASSUME LogTypeOK, PlacesInv, NEW s \in Streams, NEW p \in Piece, Write(s, p)
  PROVE  PlacesInv'
<1> DEFINE g == fd[s]
           n == Len(written[s])
<1>1. /\ Calls < MaxCalls /\ p \in {NL, n + 1} /\ g # 0
      /\ buf' = [buf EXCEPT ![s][g] = Append(buf[s][g], p)]
      /\ written' = [written EXCEPT ![s] = Append(written[s], p)]
      /\ UNCHANGED <<held, out>>
  BY DEF Write, pumpVars
<1>2. g \in Runs /\ written[s] \in Seq(Piece) /\ n \in Nat
  BY <1>1, LogPumpAssumption, LenProperties DEF LogTypeOK, Runs
<1>3. n + 1 \in Piece
  <2>1. \A t \in Streams : Len(written[t]) \in Nat
    BY LenProperties DEF LogTypeOK
  <2>2. /\ Len(written.stdout) \in Nat /\ Len(written.stderr) \in Nat /\ runs \in Nat
        /\ n = Len(written.stdout) \/ n = Len(written.stderr)
    BY <2>1 DEF Streams, LogTypeOK
  <2>3. n < MaxCalls
    BY <1>1, <2>2, LogPumpAssumption DEF Calls
  <2>4. QED
    BY <1>2, <2>3, LogPumpAssumption DEF Piece
<1>4. PlacesOf(s)'
  <2>1. /\ Boards(out[s], HeldOf(s), buf[s])
        /\ InOnePlace(out[s], HeldOf(s), buf[s], n)
    BY PlacesTyped DEF PlacesInv
  <2> HIDE DEF g
  <2>2. InOnePlace(out[s], HeldOf(s), [buf[s] EXCEPT ![g] = Append(buf[s][g], p)], n + 1)
    BY <1>1, <1>2, <1>3, <2>1, PutPiece
  <2>3. /\ buf'[s] = [buf[s] EXCEPT ![g] = Append(buf[s][g], p)]
        /\ written'[s] = Append(written[s], p)
    BY <1>1 DEF LogTypeOK, g
  <2>4. Len(written'[s]) = n + 1
    BY <1>2, <2>3, AppendProperties
  <2>5. out'[s] = out[s] /\ HeldOf(s)' = HeldOf(s)
    BY <1>1 DEF HeldOf
  <2> HIDE DEF n
  <2>6. QED
    BY <2>2, <2>3, <2>4, <2>5 DEF PlacesOf
<1>5. ASSUME NEW t \in Streams, t # s
      PROVE  PlacesOf(t)'
  <2>1. /\ buf'[t] = buf[t] /\ written'[t] = written[t] /\ out'[t] = out[t]
        /\ \A j \in Runs : held'[j][t] = held[j][t]
    BY <1>1, <1>5 DEF LogTypeOK
  <2>2. QED
    BY <2>1, PlacesUnchanged DEF PlacesInv, PlacesOf
<1>6. QED
  BY <1>4, <1>5 DEF PlacesInv, PlacesOf

LEMMA PlacesRead ==
  ASSUME LogTypeOK, PlacesInv, NEW g \in Runs, NEW s \in Streams, ReadChunk(g, s)
  PROVE  PlacesInv'
<1> DEFINE k == reads[g][s]
           n == Least(Chunk, Len(buf[s][k]))
           rest == SubSeq(buf[s][k], n + 1, Len(buf[s][k]))
           cut == Cut(held[g][s], SubSeq(buf[s][k], 1, n))
<1>1. /\ ~Failing(g, s)
      /\ buf' = [buf EXCEPT ![s][k] = rest]
      /\ held' = [held EXCEPT ![g][s] = cut.held]
      /\ out' = [out EXCEPT ![s] = out[s] \o cut.lines]
      /\ UNCHANGED written
  BY DEF ReadChunk
<1>2. k \in Runs /\ Len(buf[s][k]) \in Nat
  <2>1. k \in Runs
    BY <1>1, LogPumpAssumption DEF Failing, LogTypeOK, Runs
  <2>2. QED
    BY <2>1, LenProperties DEF LogTypeOK
<1>3. n \in 0..Len(buf[s][k])
  BY <1>2, LogPumpAssumption DEF Least
<1>4. PlacesOf(s)'
  <2>1. /\ Boards(out[s], HeldOf(s), buf[s]) /\ Len(written[s]) \in Nat
        /\ InOnePlace(out[s], HeldOf(s), buf[s], Len(written[s]))
        /\ HeldOf(s)[g] = held[g][s] /\ out[s] \in Seq(Line)
    BY PlacesTyped DEF PlacesInv, Boards
  <2> HIDE DEF k, n
  <2>2. InOnePlace(out[s] \o cut.lines, [HeldOf(s) EXCEPT ![g] = cut.held],
                   [buf[s] EXCEPT ![k] = rest], Len(written[s]))
    BY <1>2, <1>3, <2>1, ReadPlaces
  <2> HIDE DEF rest, cut
  <2>3. /\ buf'[s] = [buf[s] EXCEPT ![k] = rest] /\ out'[s] = out[s] \o cut.lines
        /\ written'[s] = written[s]
    BY <1>1 DEF LogTypeOK
  <2>4. HeldOf(s)' = [HeldOf(s) EXCEPT ![g] = cut.held]
    BY <1>1 DEF LogTypeOK, HeldOf
  <2>5. QED
    BY <2>2, <2>3, <2>4 DEF PlacesOf
<1>5. ASSUME NEW t \in Streams, t # s
      PROVE  PlacesOf(t)'
  <2> HIDE DEF k, rest, cut
  <2>1. /\ buf'[t] = buf[t] /\ written'[t] = written[t] /\ out'[t] = out[t]
        /\ \A j \in Runs : held'[j][t] = held[j][t]
    BY <1>1, <1>5 DEF LogTypeOK
  <2>2. QED
    BY <2>1, PlacesUnchanged DEF PlacesInv, PlacesOf
<1>6. QED
  BY <1>4, <1>5 DEF PlacesInv, PlacesOf

\* What is held of a stream is handed over, if there is any.
LEMMA PlacesFlush ==
  ASSUME LogTypeOK, PlacesInv, NEW g \in Runs, NEW s \in Streams,
         out'[s] = out[s] \o FlushOf(held[g][s]), buf'[s] = buf[s],
         written'[s] = written[s], held'[g][s] = <<>>,
         \A j \in Runs : j # g => held'[j][s] = held[j][s]
  PROVE  PlacesOf(s)'
<1>1. /\ Boards(out[s], HeldOf(s), buf[s]) /\ Len(written[s]) \in Nat
      /\ InOnePlace(out[s], HeldOf(s), buf[s], Len(written[s]))
      /\ HeldOf(s)[g] = held[g][s]
      /\ out[s] \in Seq(Line) /\ held[g][s] \in Seq(Text)
  BY PlacesTyped DEF PlacesInv, Boards, LogTypeOK, Text
<1>2. HeldOf(s)' = [HeldOf(s) EXCEPT ![g] = <<>>]
  BY DEF HeldOf
<1>3. CASE held[g][s] = <<>>
  <2>1. out'[s] = out[s]
    BY <1>1, <1>3, ConcatEmptySeq DEF FlushOf
  <2>2. \A j \in Runs : held'[j][s] = held[j][s]
    BY <1>3
  <2>3. QED
    BY <2>1, <2>2, PlacesUnchanged DEF PlacesInv, PlacesOf
<1>4. CASE held[g][s] # <<>>
  <2>1. out'[s] = Append(out[s], held[g][s])
    BY <1>1, <1>4, AppendIsConcat DEF FlushOf
  <2>2. InOnePlace(Append(out[s], HeldOf(s)[g]), [HeldOf(s) EXCEPT ![g] = <<>>],
                   buf[s], Len(written[s]))
    BY <1>1, HandOver
  <2>3. QED
    BY <1>1, <1>2, <2>1, <2>2 DEF PlacesOf
<1>5. QED
  BY <1>3, <1>4

LEMMA PlacesPump ==
  ASSUME LogTypeOK, PlacesInv, NEW g \in Runs, PumpStep(g) \/ Interrupted(g)
  PROVE  PlacesInv'
<1>1. ASSUME UNCHANGED <<buf, held, out, written>>
      PROVE  PlacesInv'
  BY <1>1 DEF PlacesInv, HeldOf
<1>2. CASE \/ Begin(g) \/ Turn(g) \/ SelectReady(g) \/ SelectTimeout(g)
           \/ SelectInterrupted(g)
  BY <1>1, <1>2 DEF Begin, Turn, SelectReady, SelectTimeout, SelectInterrupted
<1>3. ASSUME NEW s \in Streams, ReadChunk(g, s)
      PROVE  PlacesInv'
  BY <1>3, PlacesRead
<1>4. ASSUME NEW s \in Streams, ReadEnd(g, s)
      PROVE  PlacesInv'
  <2>1. /\ out' = [out EXCEPT ![s] = out[s] \o FlushOf(held[g][s])]
        /\ held' = [held EXCEPT ![g][s] = <<>>] /\ UNCHANGED <<buf, written>>
    BY <1>4 DEF ReadEnd
  <2>2. /\ out'[s] = out[s] \o FlushOf(held[g][s]) /\ held'[g][s] = <<>>
        /\ \A j \in Runs : j # g => held'[j][s] = held[j][s]
    BY <2>1 DEF LogTypeOK
  <2>3. PlacesOf(s)'
    BY <2>1, <2>2, PlacesFlush
  <2>4. ASSUME NEW t \in Streams, t # s
        PROVE  PlacesOf(t)'
    <3>1. out'[t] = out[t] /\ \A j \in Runs : held'[j][t] = held[j][t]
      BY <2>1, <2>4 DEF LogTypeOK
    <3>2. QED
      BY <2>1, <3>1, PlacesUnchanged DEF PlacesInv, PlacesOf
  <2>5. QED
    BY <2>3, <2>4 DEF PlacesInv, PlacesOf
<1>5. ASSUME NEW s \in Streams,
             ReadBlocks(g, s) \/ ReadFails(g, s) \/ ReadInterrupted(g, s)
      PROVE  PlacesInv'
  BY <1>1, <1>5 DEF ReadBlocks, ReadFails, ReadInterrupted, GiveUp
<1>6. CASE End(g)
  <2>1. /\ out' = [s \in Streams |-> out[s] \o FlushOf(held[g][s])]
        /\ held' = [held EXCEPT ![g] = [s \in Streams |-> <<>>]]
        /\ UNCHANGED <<buf, written>>
    BY <1>6 DEF End
  <2>2. ASSUME NEW s \in Streams
        PROVE  PlacesOf(s)'
    <3>1. /\ out'[s] = out[s] \o FlushOf(held[g][s]) /\ held'[g][s] = <<>>
          /\ \A j \in Runs : j # g => held'[j][s] = held[j][s]
      BY <2>1 DEF LogTypeOK
    <3>2. QED
      BY <2>1, <3>1, PlacesFlush
  <2>3. QED
    BY <2>2 DEF PlacesInv, PlacesOf
<1>7. QED
  BY <1>2, <1>3, <1>4, <1>5, <1>6 DEF PumpStep, Interrupted

\* No piece of text is handed over twice, with any number of runs, stops, pumps
\* on the same socket, failures and interruptions.
THEOREM NothingHandedOverTwice == LogSpec => []NothingTwice
<1>1. LogInit => PlacesInv
  BY PlacesInit
<1>2. LogTypeOK /\ PlacesInv /\ [LogNext]_logVars => PlacesInv'
  <2> SUFFICES ASSUME LogTypeOK, PlacesInv, [LogNext]_logVars
               PROVE  PlacesInv'
    OBVIOUS
  <2>1. ASSUME UNCHANGED <<buf, held, out, written>>
        PROVE  PlacesInv'
    BY <2>1 DEF PlacesInv, HeldOf
  <2>2. CASE CtlStep \/ Run \/ RunFails \/ Stop
    BY <2>1, <2>2 DEF CtlStep, Run, RunFails, Stop, Redirect, Spawn, CloseReadEnds,
                      Join, JoinFails, pumpVars
  <2>3. ASSUME NEW s \in Streams, BrokenPipe(s)
        PROVE  PlacesInv'
    BY <2>1, <2>3 DEF BrokenPipe, pumpVars
  <2>4. ASSUME NEW s \in Streams, NEW p \in Piece, Write(s, p)
        PROVE  PlacesInv'
    BY <2>4, PlacesWrite
  <2>5. ASSUME NEW g \in Runs, PumpStep(g) \/ Interrupted(g)
        PROVE  PlacesInv'
    BY <2>5, PlacesPump
  <2>6. CASE UNCHANGED logVars
    BY <2>1, <2>6 DEF logVars, pumpVars
  <2>7. QED
    BY <2>2, <2>3, <2>4, <2>5, <2>6, LogStep
<1>3. LogTypeOK /\ PlacesInv => NothingTwice
  <2> SUFFICES ASSUME LogTypeOK, PlacesInv, NEW s \in Streams,
                      NEW i \in DOMAIN out[s], NEW j \in DOMAIN out[s],
                      NEW a \in DOMAIN out[s][i], NEW b \in DOMAIN out[s][j],
                      out[s][i][a] = out[s][j][b]
               PROVE  i = j /\ a = b
    BY DEF NothingTwice
  <2>1. out[s][i] \in Seq(Text)
    BY ElementOfSeq, LenProperties DEF LogTypeOK, Text
  <2>2. out[s][i][a] # NL
    BY <2>1, ElementOfSeq, LenProperties DEF Text
  <2>3. i = j
    BY <2>2 DEF PlacesInv, InOnePlace, Apart
  <2>4. QED
    BY <2>2, <2>3 DEF PlacesInv, InOnePlace, Single
<1>4. QED
  BY <1>1, <1>2, <1>3, LogTypes, PTL DEF LogSpec

=============================================================================
