------------------------- MODULE ScriptContentProofs -------------------------
(***************************************************************************)
(* Proofs about the text of a script, for texts of any length, any limit   *)
(* of the loop, and each way to Ruby.                                      *)
(*                                                                         *)
(* What the encodings make of a text is computed one character at a time.  *)
(* The lemmas about them are proved by induction on the text, for which    *)
(* TextInduction states induction with a set for the predicate.            *)
(***************************************************************************)
EXTENDS ScriptContent, SequenceTheorems, WellFoundedInduction, TLAPS

-----------------------------------------------------------------------------
(* The inductive invariant.                                                *)

\* What ruby-script.c keeps of a text.
Made(s, t) == Strndup(Bytes(s, t), Size(s, t))

SizeShown(s) == IF s = "jvm" THEN JniSize ELSE Utf8Size

\* At each stage, what there is is what the way has made of the text.
ContentInv ==
  /\ source \in Sources /\ text \in Texts /\ stage \in Stages
  /\ source = "embedded" => stage \in {"text", "made", "received"}
  /\ script = IF stage \in {"text", "rejected"} THEN <<>> ELSE Made(source, text)
  /\ announced = IF source = "embedded" \/ stage \in {"text", "rejected", "made"}
                 THEN 0 ELSE Len(Made(source, text))
  /\ wire = IF stage \in {"sent", "refused"} THEN Made(source, text) ELSE <<>>
  /\ stage = "refused" => announced \notin 1..MaxLength
  /\ received = IF stage \in {"received", "echoed", "printed"}
                THEN Made(source, text) ELSE <<>>
  /\ shown = IF stage = "echoed"
             THEN Decode(CString(Made(source, text)), SizeShown(source))
             ELSE IF stage = "printed"
             THEN Decode(CString(Utf8(text)), SizeShown(source))
             ELSE <<>>

-----------------------------------------------------------------------------
(* Induction.                                                              *)

\* A set of naturals that is not empty has a least element.
LEMMA LeastNatural ==
  ASSUME NEW T, T \subseteq Nat, T # {}
  PROVE  \E n \in T : \A m \in T : n <= m
<1> DEFINE Less == {pair \in Nat \X Nat : pair[1] < pair[2]}
<1>1. IsWellFoundedOn(Less, Nat)
  BY NatLessThanWellFounded DEF OpToRel
<1>2. \A m, n \in Nat : <<m, n>> \in Less <=> m < n
  OBVIOUS
<1> HIDE DEF Less
<1>3. PICK n \in T : \A m \in T : ~ (<<m, n>> \in Less)
  BY <1>1, WFMin
<1>4. \A m \in T : ~ (m < n)
  BY <1>2, <1>3
<1>5. n \in Nat /\ \A m \in T : m \in Nat
  OBVIOUS
<1>6. QED
  BY <1>4, <1>5

\* A set with the empty sequence, and with each sequence in it one element
\* longer, has them all.
LEMMA SequenceInduction ==
  ASSUME NEW S, NEW P, <<>> \in P,
         \A t \in Seq(S) : \A c \in S : t \in P => Append(t, c) \in P
  PROVE  Seq(S) \subseteq P
<1>1. SUFFICES ASSUME NEW u \in Seq(S), u \notin P
               PROVE  FALSE
  OBVIOUS
<1> DEFINE Lengths == {Len(t) : t \in {v \in Seq(S) : v \notin P}}
<1>2. Lengths \subseteq Nat /\ Lengths # {}
  BY <1>1, LenProperties
<1>3. PICK n \in Lengths : \A m \in Lengths : n <= m
  BY <1>2, LeastNatural
<1>4. PICK t \in Seq(S) : t \notin P /\ Len(t) = n
  BY <1>3
<1>5. PICK v \in Seq(S), c \in S : t = Append(v, c)
  BY <1>4, SequenceEmptyOrAppend
<1>6. Len(v) \in Nat /\ n = Len(v) + 1
  BY <1>4, <1>5, AppendProperties, LenProperties
<1>7. v \notin P
  BY <1>4, <1>5
<1>8. Len(v) \in Lengths
  BY <1>7
<1>9. n <= Len(v)
  BY <1>3, <1>8
<1>10. QED
  BY <1>6, <1>9

-----------------------------------------------------------------------------
(* FlattenSeq goes through the sequences one by one.                        *)

\* What FlattenSeq computes is a function of the number of sequences, and
\* Flattens(f, seqs) says that f is it.
Flattens(f, seqs) ==
  f = [i \in 1..Len(seqs) |-> IF i = 1 THEN seqs[1] ELSE f[i - 1] \o seqs[i]]

LEMMA FlattensStep ==
  ASSUME NEW f, NEW seqs, Len(seqs) \in Nat, Flattens(f, seqs)
  PROVE  /\ Len(seqs) > 0 => f[1] = seqs[1]
         /\ \A i \in 1..Len(seqs) - 1 : f[i + 1] = f[i] \o seqs[i + 1]
<1>1. \A i \in 1..Len(seqs) : f[i] = IF i = 1 THEN seqs[1] ELSE f[i - 1] \o seqs[i]
  BY DEF Flattens
<1>2. ASSUME NEW i \in 1..Len(seqs) - 1
      PROVE  f[i + 1] = f[i] \o seqs[i + 1]
  <2>1. i + 1 \in 1..Len(seqs) /\ i + 1 # 1 /\ (i + 1) - 1 = i
    OBVIOUS
  <2>2. QED
    BY <1>1, <2>1
<1>3. Len(seqs) > 0 => 1 \in 1..Len(seqs)
  OBVIOUS
<1>4. Len(seqs) > 0 => f[1] = seqs[1]
  BY <1>1, <1>3
<1>5. QED
  BY <1>2, <1>4

\* One sequence more, and the function has one more value.
LEMMA FlattensOneMore ==
  ASSUME NEW S, NEW seqs \in Seq(S), NEW s \in S, NEW f, Flattens(f, seqs)
  PROVE  Flattens([i \in 1..Len(seqs) + 1 |->
                     IF i <= Len(seqs) THEN f[i]
                     ELSE IF i = 1 THEN s ELSE f[Len(seqs)] \o s],
                  Append(seqs, s))
<1> DEFINE longer == Append(seqs, s)
           n == Len(seqs)
           g == [i \in 1..n + 1 |-> IF i <= n THEN f[i]
                                    ELSE IF i = 1 THEN s ELSE f[n] \o s]
<1>1. /\ n \in Nat /\ Len(longer) = n + 1
      /\ \A i \in 1..n : longer[i] = seqs[i]
      /\ longer[n + 1] = s
  BY LenProperties, AppendProperties
<1>2. \A i \in 1..n : f[i] = IF i = 1 THEN seqs[1] ELSE f[i - 1] \o seqs[i]
  BY DEF Flattens
<1> HIDE DEF longer, n
<1>3. ASSUME NEW i \in 1..n + 1
      PROVE  g[i] = IF i = 1 THEN longer[1] ELSE g[i - 1] \o longer[i]
  <2>1. CASE i <= n
    <3>1. i \in 1..n /\ g[i] = f[i] /\ (i # 1 => g[i - 1] = f[i - 1])
      BY <1>1, <2>1
    <3>2. QED
      BY <1>1, <1>2, <3>1
  <2>2. CASE i = n + 1
    <3>1. g[i] = IF i = 1 THEN s ELSE f[n] \o s
      BY <1>1, <2>2
    <3>2. i # 1 => i - 1 = n /\ g[i - 1] = f[n]
      BY <1>1, <2>2
    <3>3. QED
      BY <1>1, <2>2, <3>1, <3>2
  <2>3. QED
    BY <1>1, <2>1, <2>2
<1>4. g = [i \in 1..n + 1 |-> IF i = 1 THEN longer[1] ELSE g[i - 1] \o longer[i]]
  <2> HIDE DEF g
  <2>1. DOMAIN g = 1..n + 1 /\ g = [i \in DOMAIN g |-> g[i]]
    BY DEF g
  <2>2. QED
    BY <1>3, <2>1
<1>5. Flattens(g, longer)
  <2> HIDE DEF g
  <2>1. QED
    BY <1>1, <1>4 DEF Flattens
<1>6. QED
  BY <1>5 DEF g, n, longer

LEMMA FlattensExists ==
  ASSUME NEW S, NEW seqs \in Seq(S)
  PROVE  \E f : Flattens(f, seqs)
<1> DEFINE P == {t \in Seq(S) : \E f : Flattens(f, t)}
<1>1. <<>> \in P
  <2>1. <<>> \in Seq(S) /\ Len(<<>>) = 0
    BY EmptySeq
  <2>2. Flattens([i \in 1..0 |-> <<>>], <<>>)
    BY <2>1 DEF Flattens
  <2>3. QED
    BY <2>1, <2>2
<1>2. ASSUME NEW t \in Seq(S), NEW c \in S, t \in P
      PROVE  Append(t, c) \in P
  <2>1. \E f : Flattens(f, Append(t, c))
    BY <1>2, FlattensOneMore
  <2>2. QED
    BY <2>1, AppendProperties
<1> HIDE DEF P
<1>3. Seq(S) \subseteq P
  BY <1>1, <1>2, SequenceInduction
<1>4. QED
  BY <1>3 DEF P

LEMMA FlattensUnique ==
  ASSUME NEW seqs, Len(seqs) \in Nat, NEW f, NEW g, Flattens(f, seqs), Flattens(g, seqs)
  PROVE  f = g
<1> DEFINE T == {i \in 1..Len(seqs) : f[i] # g[i]}
<1>1. /\ DOMAIN f = 1..Len(seqs) /\ f = [i \in DOMAIN f |-> f[i]]
      /\ DOMAIN g = 1..Len(seqs) /\ g = [i \in DOMAIN g |-> g[i]]
  BY DEF Flattens
<1>2. T = {}
  <2>1. SUFFICES ASSUME T # {} PROVE FALSE
    OBVIOUS
  <2>2. PICK n \in T : \A m \in T : n <= m
    <3>1. T \subseteq Nat
      OBVIOUS
    <3> HIDE DEF T
    <3>2. QED
      BY <2>1, <3>1, LeastNatural
  <2>3. n \in 1..Len(seqs) /\ f[n] # g[n]
    OBVIOUS
  <2> HIDE DEF T
  <2>4. n # 1
    <3>1. Len(seqs) > 0 => f[1] = seqs[1] /\ g[1] = seqs[1]
      BY FlattensStep
    <3>2. Len(seqs) > 0
      BY <2>3
    <3>3. QED
      BY <2>3, <3>1, <3>2
  <2>5. n - 1 \in 1..Len(seqs) - 1 /\ (n - 1) + 1 = n /\ n - 1 \in 1..Len(seqs)
    BY <2>3, <2>4
  <2>6. n - 1 \notin T
    <3>1. n \in Nat /\ ~ (n <= n - 1)
      BY <2>3
    <3>2. QED
      BY <2>2, <3>1
  <2>7. f[n - 1] = g[n - 1]
    BY <2>5, <2>6 DEF T
  <2>8. \A i \in 1..Len(seqs) - 1 :
          f[i + 1] = f[i] \o seqs[i + 1] /\ g[i + 1] = g[i] \o seqs[i + 1]
    BY FlattensStep
  <2>9. f[(n - 1) + 1] = g[(n - 1) + 1]
    BY <2>5, <2>7, <2>8
  <2>10. QED
    BY <2>3, <2>5, <2>9
<1>3. \A i \in 1..Len(seqs) : f[i] = g[i]
  BY <1>2
<1>4. QED
  BY <1>1, <1>3

LEMMA FlattenIs ==
  ASSUME NEW S, NEW seqs \in Seq(S), NEW f, Flattens(f, seqs)
  PROVE  FlattenSeq(seqs) = IF seqs = <<>> THEN <<>> ELSE f[Len(seqs)]
<1>1. Len(seqs) \in Nat /\ (Len(seqs) = 0 <=> seqs = <<>>)
  BY EmptySeq, LenProperties
<1> DEFINE F == CHOOSE g : g = [i \in 1..Len(seqs) |->
                                  IF i = 1 THEN seqs[i] ELSE g[i - 1] \o seqs[i]]
<1>2. FlattenSeq(seqs) = IF Len(seqs) = 0 THEN seqs ELSE F[Len(seqs)]
  BY DEF FlattenSeq
<1>3. \A g : Flattens(g, seqs) <=>
               g = [i \in 1..Len(seqs) |->
                      IF i = 1 THEN seqs[i] ELSE g[i - 1] \o seqs[i]]
  BY DEF Flattens
<1>4. Flattens(F, seqs)
  BY <1>3
<1> HIDE DEF F
<1>5. F = f
  BY <1>1, <1>4, FlattensUnique
<1>6. QED
  BY <1>1, <1>2, <1>5

\* One sequence more is put at the end.
LEMMA FlattenAppend ==
  ASSUME NEW B, NEW seqs \in Seq(Seq(B)), NEW s \in Seq(B), FlattenSeq(seqs) \in Seq(B)
  PROVE  /\ FlattenSeq(<<>>) = <<>>
         /\ FlattenSeq(Append(seqs, s)) = FlattenSeq(seqs) \o s
<1>1. FlattenSeq(<<>>) = <<>>
  BY EmptySeq DEF FlattenSeq
<1>2. PICK f : Flattens(f, seqs)
  BY FlattensExists
<1> DEFINE n == Len(seqs)
           g == [i \in 1..n + 1 |-> IF i <= n THEN f[i]
                                    ELSE IF i = 1 THEN s ELSE f[n] \o s]
<1>3. Flattens(g, Append(seqs, s))
  BY <1>2, FlattensOneMore
<1>4. /\ Append(seqs, s) \in Seq(Seq(B)) /\ Append(seqs, s) # <<>>
      /\ Len(Append(seqs, s)) = n + 1 /\ n \in Nat /\ (n = 0 <=> seqs = <<>>)
  BY AppendProperties, LenProperties, EmptySeq
<1>5. g[n + 1] = IF n + 1 = 1 THEN s ELSE f[n] \o s
  BY <1>4
<1> HIDE DEF g, n
<1>6. FlattenSeq(Append(seqs, s)) = g[n + 1]
  BY <1>3, <1>4, FlattenIs
<1>7. CASE seqs = <<>>
  BY <1>1, <1>4, <1>5, <1>6, <1>7, ConcatEmptySeq
<1>8. CASE seqs # <<>>
  <2>1. FlattenSeq(seqs) = f[n]
    BY <1>2, <1>8, FlattenIs DEF n
  <2>2. QED
    BY <1>1, <1>4, <1>5, <1>6, <1>8, <2>1
<1>9. QED
  BY <1>1, <1>7, <1>8


-----------------------------------------------------------------------------
(* The encodings, one character at a time.                                  *)

Byte == (Characters \union {"other data"}) \X {"utf8", "jni"} \X Nat

Sizes == [Characters -> 1..6]

EncodingOf(c, size) == IF size[c] = Utf8Size[c] THEN "utf8" ELSE "jni"

\* The bytes of a character.
Code(c, size) == [k \in 1..size[c] |-> <<c, EncodingOf(c, size), k>>]

Codes(t, size) == [i \in DOMAIN t |-> Code(t[i], size)]

LEMMA SizesKnown ==
  /\ Utf8Size \in Sizes /\ JniSize \in Sizes /\ Units \in Sizes
  /\ Utf8Size["nul"] = 1 /\ JniSize["nul"] = 2
  /\ Utf8Size["emoji"] = 4 /\ JniSize["emoji"] = 6
  /\ \A c \in Characters \ {"nul", "emoji"} : JniSize[c] = Utf8Size[c]
  /\ \A c \in Characters : Units[c] <= Utf8Size[c]
  /\ \A c \in Characters : Units[c] = Utf8Size[c] <=> c \notin {"latin", "cjk", "emoji"}
<1>1. /\ Utf8Size["space"] = 1 /\ Utf8Size["ascii"] = 1 /\ Utf8Size["nul"] = 1
      /\ Utf8Size["latin"] = 2 /\ Utf8Size["cjk"] = 3 /\ Utf8Size["emoji"] = 4
      /\ Utf8Size = [c \in {"space", "ascii", "nul", "latin", "cjk", "emoji"} |-> Utf8Size[c]]
  BY DEF Utf8Size
<1>2. Utf8Size \in Sizes
  BY <1>1 DEF Sizes, Characters
<1>3. JniSize = [c \in Characters |->
                   IF c = "emoji" THEN 6 ELSE IF c = "nul" THEN 2 ELSE Utf8Size[c]]
  BY <1>1 DEF JniSize, Characters
<1>4. JniSize \in Sizes
  <2>1. \A c \in Characters : Utf8Size[c] \in 1..6
    BY <1>2 DEF Sizes
  <2>2. QED
    BY <1>3, <2>1 DEF Sizes
<1>5. Units \in Sizes
  BY DEF Units, Sizes
<1>6. /\ JniSize["nul"] = 2 /\ JniSize["emoji"] = 6
      /\ \A c \in Characters \ {"nul", "emoji"} : JniSize[c] = Utf8Size[c]
  BY <1>3 DEF Characters
<1>7. \A c \in Characters : Units[c] = IF c = "emoji" THEN 2 ELSE 1
  BY DEF Units
<1>8. ASSUME NEW c \in Characters
      PROVE  /\ Units[c] <= Utf8Size[c]
             /\ Units[c] = Utf8Size[c] <=> c \notin {"latin", "cjk", "emoji"}
  BY <1>1, <1>7 DEF Characters
<1>9. QED
  BY <1>1, <1>2, <1>4, <1>5, <1>6, <1>8

LEMMA CodeType ==
  ASSUME NEW c \in Characters, NEW size \in Sizes
  PROVE  /\ Code(c, size) \in Seq(Byte) /\ Len(Code(c, size)) = size[c]
         /\ size[c] \in 1..6
         /\ \A k \in 1..size[c] : Code(c, size)[k] = <<c, EncodingOf(c, size), k>>
<1>1. size[c] \in 1..6
  BY DEF Sizes
<1>2. \A k \in 1..size[c] : <<c, EncodingOf(c, size), k>> \in Byte
  <2>1. EncodingOf(c, size) \in {"utf8", "jni"}
    BY DEF EncodingOf
  <2>2. \A k \in 1..size[c] : k \in Nat
    BY <1>1
  <2>3. QED
    BY <2>1, <2>2 DEF Byte
<1>3. Code(c, size) \in [1..size[c] -> Byte]
  BY <1>2 DEF Code
<1>4. size[c] \in Nat
  BY <1>1
<1>5. Code(c, size) \in Seq(Byte) /\ Len(Code(c, size)) = size[c]
  BY <1>3, <1>4
<1>6. QED
  BY <1>1, <1>5 DEF Code

LEMMA CodesAppend ==
  ASSUME NEW t \in Seq(Characters), NEW c \in Characters, NEW size \in Sizes
  PROVE  /\ Codes(t, size) \in Seq(Seq(Byte))
         /\ Codes(Append(t, c), size) = Append(Codes(t, size), Code(c, size))
         /\ Codes(<<>>, size) = <<>>
<1>1. /\ Len(t) \in Nat /\ DOMAIN t = 1..Len(t)
      /\ \A i \in 1..Len(t) : t[i] \in Characters
  BY LenProperties, ElementOfSeq
<1>2. \A d \in Characters : Code(d, size) \in Seq(Byte)
  BY CodeType
<1>3. \A u \in Seq(Characters) :
        /\ Codes(u, size) \in Seq(Seq(Byte)) /\ Len(Codes(u, size)) = Len(u)
        /\ \A i \in 1..Len(u) : Codes(u, size)[i] = Code(u[i], size)
  <2> SUFFICES ASSUME NEW u \in Seq(Characters)
               PROVE  /\ Codes(u, size) \in Seq(Seq(Byte)) /\ Len(Codes(u, size)) = Len(u)
                      /\ \A i \in 1..Len(u) : Codes(u, size)[i] = Code(u[i], size)
    OBVIOUS
  <2>1. /\ Len(u) \in Nat /\ DOMAIN u = 1..Len(u)
        /\ \A i \in 1..Len(u) : u[i] \in Characters
    BY LenProperties, ElementOfSeq
  <2>2. Codes(u, size) \in [1..Len(u) -> Seq(Byte)]
    BY <1>2, <2>1 DEF Codes
  <2>3. QED
    BY <2>1, <2>2 DEF Codes
<1>4. /\ Append(t, c) \in Seq(Characters) /\ Len(Append(t, c)) = Len(t) + 1
      /\ \A i \in 1..Len(t) : Append(t, c)[i] = t[i]
      /\ Append(t, c)[Len(t) + 1] = c
  BY AppendProperties
<1> DEFINE long == Codes(Append(t, c), size)
           more == Append(Codes(t, size), Code(c, size))
<1>5. /\ long \in Seq(Seq(Byte)) /\ Len(long) = Len(t) + 1
      /\ \A i \in 1..Len(t) + 1 : long[i] = Code(Append(t, c)[i], size)
  BY <1>3, <1>4
<1>6. /\ more \in Seq(Seq(Byte)) /\ Len(more) = Len(t) + 1
      /\ \A i \in 1..Len(t) : more[i] = Code(t[i], size)
      /\ more[Len(t) + 1] = Code(c, size)
  BY <1>2, <1>3, AppendProperties
<1> HIDE DEF long, more
<1>7. \A i \in 1..Len(t) + 1 : i \in 1..Len(t) \/ i = Len(t) + 1
  BY <1>1
<1>8. \A i \in 1..Len(long) : long[i] = more[i]
  BY <1>4, <1>5, <1>6, <1>7
<1>9. long = more
  BY <1>5, <1>6, <1>8, SeqEqual
<1>10. Codes(<<>>, size) = <<>>
  <2>1. <<>> \in Seq(Characters) /\ Len(<<>>) = 0
    BY EmptySeq
  <2>2. QED
    BY <1>3, <2>1, EmptySeq
<1>11. QED
  BY <1>3, <1>9, <1>10 DEF long, more

LEMMA EncodeTyped ==
  ASSUME NEW size \in Sizes
  PROVE  /\ \A t \in Seq(Characters) : Encode(t, size) \in Seq(Byte)
         /\ Encode(<<>>, size) = <<>>
         /\ \A t \in Seq(Characters) : \A c \in Characters :
              Encode(Append(t, c), size) = Encode(t, size) \o Code(c, size)
<1>1. \A t : Encode(t, size) = FlattenSeq(Codes(t, size))
  BY DEF Encode, Codes, Code, EncodingOf
<1> DEFINE P == {t \in Seq(Characters) : Encode(t, size) \in Seq(Byte)}
<1>2. Encode(<<>>, size) = <<>>
  <2>1. Codes(<<>>, size) = <<>>
    BY EmptySeq, CodesAppend DEF Characters
  <2>2. FlattenSeq(<<>>) = <<>>
    BY EmptySeq DEF FlattenSeq
  <2>3. QED
    BY <1>1, <2>1, <2>2
<1>3. ASSUME NEW t \in Seq(Characters), NEW c \in Characters, Encode(t, size) \in Seq(Byte)
      PROVE  /\ Encode(Append(t, c), size) = Encode(t, size) \o Code(c, size)
             /\ Encode(Append(t, c), size) \in Seq(Byte)
  <2>1. Code(c, size) \in Seq(Byte)
    BY CodeType
  <2>2. Codes(t, size) \in Seq(Seq(Byte))
    BY CodesAppend
  <2>3. FlattenSeq(Codes(t, size)) \in Seq(Byte)
    BY <1>1, <1>3
  <2>4. FlattenSeq(Append(Codes(t, size), Code(c, size)))
          = FlattenSeq(Codes(t, size)) \o Code(c, size)
    BY <2>1, <2>2, <2>3, FlattenAppend
  <2>5. Encode(Append(t, c), size) = Encode(t, size) \o Code(c, size)
    BY <1>1, <2>4, CodesAppend
  <2>6. QED
    BY <1>3, <2>1, <2>5, ConcatProperties
<1>4. <<>> \in P
  BY <1>2, EmptySeq
<1>5. \A t \in Seq(Characters) : \A c \in Characters : t \in P => Append(t, c) \in P
  BY <1>3, AppendProperties
<1>6. Seq(Characters) \subseteq P
  <2> HIDE DEF P
  <2>1. QED
    BY <1>4, <1>5, SequenceInduction
<1>7. QED
  BY <1>2, <1>3, <1>6


-----------------------------------------------------------------------------
(* What the encodings of a text have in common, and what tells them apart.  *)

\* The character and the bytes with which a text ends.
LEMMA EncodeAppend ==
  ASSUME NEW size \in Sizes, NEW t \in Seq(Characters), NEW c \in Characters
  PROVE  /\ Encode(t, size) \in Seq(Byte) /\ Len(Encode(t, size)) \in Nat
         /\ Encode(Append(t, c), size) \in Seq(Byte)
         /\ size[c] \in 1..6
         /\ Len(Encode(Append(t, c), size)) = Len(Encode(t, size)) + size[c]
         /\ \A i \in 1..Len(Encode(t, size)) :
              Encode(Append(t, c), size)[i] = Encode(t, size)[i]
         /\ \A k \in 1..size[c] :
              Encode(Append(t, c), size)[Len(Encode(t, size)) + k]
                = <<c, EncodingOf(c, size), k>>
<1> DEFINE a == Encode(t, size)
           b == Code(c, size)
<1>1. a \in Seq(Byte) /\ b \in Seq(Byte) /\ Len(a) \in Nat
  BY EncodeTyped, CodeType, LenProperties
<1>2. Encode(Append(t, c), size) = a \o b
  BY EncodeTyped
<1>3. /\ Len(b) = size[c] /\ size[c] \in 1..6
      /\ \A k \in 1..size[c] : b[k] = <<c, EncodingOf(c, size), k>>
  BY CodeType
<1> HIDE DEF a, b
<1>4. /\ a \o b \in Seq(Byte) /\ Len(a \o b) = Len(a) + Len(b)
      /\ \A i \in 1..Len(a) + Len(b) : (a \o b)[i] = IF i <= Len(a) THEN a[i] ELSE b[i - Len(a)]
  BY <1>1, ConcatProperties
<1>5. \A i \in 1..Len(a) : (a \o b)[i] = a[i]
  BY <1>1, <1>3, <1>4
<1>6. \A k \in 1..Len(b) : (a \o b)[Len(a) + k] = b[k]
  <2> SUFFICES ASSUME NEW k \in 1..Len(b) PROVE (a \o b)[Len(a) + k] = b[k]
    OBVIOUS
  <2>1. Len(a) + k \in 1..Len(a) + Len(b) /\ ~ (Len(a) + k <= Len(a)) /\ (Len(a) + k) - Len(a) = k
    BY <1>1, <1>3
  <2>2. QED
    BY <1>4, <2>1
<1>7. QED
  BY <1>1, <1>2, <1>3, <1>4, <1>5, <1>6 DEF a

\* An encoding has the bytes of the characters of the text, and no others.
LEMMA BytesOfText ==
  ASSUME NEW size \in Sizes, NEW t \in Seq(Characters)
  PROVE  /\ \A i \in 1..Len(Encode(t, size)) :
              \E j \in 1..Len(t) : \E k \in 1..size[t[j]] :
                Encode(t, size)[i] = <<t[j], EncodingOf(t[j], size), k>>
         /\ \A j \in 1..Len(t) : \A k \in 1..size[t[j]] :
              \E i \in 1..Len(Encode(t, size)) :
                Encode(t, size)[i] = <<t[j], EncodingOf(t[j], size), k>>
<1> DEFINE Only(u) == \A i \in 1..Len(Encode(u, size)) :
                        \E j \in 1..Len(u) : \E k \in 1..size[u[j]] :
                          Encode(u, size)[i] = <<u[j], EncodingOf(u[j], size), k>>
           All(u) == \A j \in 1..Len(u) : \A k \in 1..size[u[j]] :
                       \E i \in 1..Len(Encode(u, size)) :
                         Encode(u, size)[i] = <<u[j], EncodingOf(u[j], size), k>>
           P == {u \in Seq(Characters) : Only(u) /\ All(u)}
<1>1. <<>> \in P
  BY EncodeTyped, EmptySeq
<1>2. ASSUME NEW u \in Seq(Characters), NEW c \in Characters, u \in P
      PROVE  Append(u, c) \in P
  <2> DEFINE v == Append(u, c)
             m == Len(Encode(u, size))
  <2>1. /\ v \in Seq(Characters) /\ Len(v) = Len(u) + 1 /\ Len(u) \in Nat
        /\ \A j \in 1..Len(u) : v[j] = u[j]
        /\ v[Len(u) + 1] = c
    BY AppendProperties, LenProperties
  <2>2. /\ m \in Nat /\ size[c] \in 1..6 /\ Len(Encode(v, size)) = m + size[c]
        /\ \A i \in 1..m : Encode(v, size)[i] = Encode(u, size)[i]
        /\ \A k \in 1..size[c] : Encode(v, size)[m + k] = <<c, EncodingOf(c, size), k>>
    BY EncodeAppend
  <2>3. Only(u) /\ All(u)
    BY <1>2
  <2> HIDE DEF v
  <2>4. Only(v)
    <3> SUFFICES ASSUME NEW i \in 1..Len(Encode(v, size))
                 PROVE  \E j \in 1..Len(v) : \E k \in 1..size[v[j]] :
                          Encode(v, size)[i] = <<v[j], EncodingOf(v[j], size), k>>
      OBVIOUS
    <3>1. CASE i <= m
      <4>1. i \in 1..m
        BY <2>2, <3>1
      <4>2. PICK j \in 1..Len(u) : \E k \in 1..size[u[j]] :
              Encode(u, size)[i] = <<u[j], EncodingOf(u[j], size), k>>
        BY <2>3, <4>1
      <4>3. j \in 1..Len(v) /\ v[j] = u[j]
        BY <2>1
      <4>4. QED
        BY <2>2, <4>1, <4>2, <4>3
    <3>2. CASE i > m
      <4>1. i - m \in 1..size[c] /\ m + (i - m) = i
        BY <2>2, <3>2
      <4>2. Encode(v, size)[i] = <<c, EncodingOf(c, size), i - m>>
        BY <2>2, <4>1
      <4>3. Len(u) + 1 \in 1..Len(v)
        BY <2>1
      <4>4. QED
        BY <2>1, <4>1, <4>2, <4>3
    <3>3. QED
      BY <2>2, <3>1, <3>2
  <2>5. All(v)
    <3> SUFFICES ASSUME NEW j \in 1..Len(v), NEW k \in 1..size[v[j]]
                 PROVE  \E i \in 1..Len(Encode(v, size)) :
                          Encode(v, size)[i] = <<v[j], EncodingOf(v[j], size), k>>
      OBVIOUS
    <3>1. CASE j <= Len(u)
      <4>1. j \in 1..Len(u) /\ v[j] = u[j]
        BY <2>1, <3>1
      <4>2. PICK i \in 1..m : Encode(u, size)[i] = <<u[j], EncodingOf(u[j], size), k>>
        BY <2>3, <4>1
      <4>3. i \in 1..Len(Encode(v, size))
        BY <2>2
      <4>4. QED
        BY <2>2, <4>1, <4>2, <4>3
    <3>2. CASE j > Len(u)
      <4>1. j = Len(u) + 1 /\ v[j] = c
        BY <2>1, <3>2
      <4>2. m + k \in 1..Len(Encode(v, size))
        BY <2>2, <4>1
      <4>3. QED
        BY <2>2, <4>1, <4>2
    <3>3. QED
      BY <2>1, <3>1, <3>2
  <2>6. QED
    BY <2>1, <2>4, <2>5 DEF v
<1> HIDE DEF P
<1>3. Seq(Characters) \subseteq P
  BY <1>1, <1>2, SequenceInduction
<1>4. QED
  BY <1>3 DEF P

\* No character is without a byte, and none has more than six.
LEMMA EncodedLength ==
  ASSUME NEW size \in Sizes, NEW t \in Seq(Characters)
  PROVE  /\ Len(Encode(t, size)) \in Nat
         /\ Len(t) <= Len(Encode(t, size)) /\ Len(Encode(t, size)) <= 6 * Len(t)
<1> DEFINE P == {u \in Seq(Characters) :
                   Len(u) <= Len(Encode(u, size)) /\ Len(Encode(u, size)) <= 6 * Len(u)}
<1>1. <<>> \in P
  BY EncodeTyped, EmptySeq
<1>2. ASSUME NEW u \in Seq(Characters), NEW c \in Characters, u \in P
      PROVE  Append(u, c) \in P
  <2>1. /\ Append(u, c) \in Seq(Characters) /\ Len(u) \in Nat
        /\ Len(Append(u, c)) = Len(u) + 1
    BY AppendProperties, LenProperties
  <2>2. /\ Len(Encode(u, size)) \in Nat /\ size[c] \in 1..6
        /\ Len(Encode(Append(u, c), size)) = Len(Encode(u, size)) + size[c]
    BY EncodeAppend
  <2>3. Len(u) <= Len(Encode(u, size)) /\ Len(Encode(u, size)) <= 6 * Len(u)
    BY <1>2
  <2>4. /\ Len(u) + 1 <= Len(Encode(u, size)) + size[c]
        /\ Len(Encode(u, size)) + size[c] <= 6 * (Len(u) + 1)
    BY <2>1, <2>2, <2>3
  <2>5. QED
    BY <2>1, <2>2, <2>4
<1> HIDE DEF P
<1>3. Seq(Characters) \subseteq P
  BY <1>1, <1>2, SequenceInduction
<1>4. Len(Encode(t, size)) \in Nat
  BY EncodeTyped, LenProperties
<1>5. QED
  BY <1>3, <1>4 DEF P

\* A text in the encoding of its first character begins with it.
LEMMA FirstByte ==
  ASSUME NEW size \in Sizes, NEW t \in Seq(Characters), t # <<>>
  PROVE  Encode(t, size)[1] = <<t[1], EncodingOf(t[1], size), 1>>
<1> DEFINE Begins(u) == Encode(u, size)[1] = <<u[1], EncodingOf(u[1], size), 1>>
           P == {u \in Seq(Characters) : u # <<>> => Begins(u)}
<1>1. <<>> \in P
  BY EmptySeq
<1>2. ASSUME NEW u \in Seq(Characters), NEW c \in Characters, u \in P
      PROVE  Append(u, c) \in P
  <2>1. /\ Append(u, c) \in Seq(Characters) /\ Len(u) \in Nat
        /\ \A j \in 1..Len(u) : Append(u, c)[j] = u[j]
        /\ Append(u, c)[Len(u) + 1] = c
    BY AppendProperties, LenProperties
  <2>2. /\ Len(Encode(u, size)) \in Nat /\ size[c] \in 1..6
        /\ \A i \in 1..Len(Encode(u, size)) :
             Encode(Append(u, c), size)[i] = Encode(u, size)[i]
        /\ \A k \in 1..size[c] : Encode(Append(u, c), size)[Len(Encode(u, size)) + k]
                                   = <<c, EncodingOf(c, size), k>>
    BY EncodeAppend
  <2>3. Begins(Append(u, c))
    <3>1. CASE u = <<>>
      <4>1. Len(u) + 1 = 1 /\ Len(Encode(u, size)) + 1 = 1 /\ 1 \in 1..size[c]
        BY <2>2, <3>1, EmptySeq, EncodeTyped
      <4>2. QED
        BY <2>1, <2>2, <4>1
    <3>2. CASE u # <<>>
      <4>1. Len(u) > 0 /\ Len(Encode(u, size)) > 0
        BY <2>1, <2>2, <3>2, EmptySeq, EncodedLength
      <4>2. 1 \in 1..Len(u) /\ 1 \in 1..Len(Encode(u, size))
        BY <2>1, <2>2, <4>1
      <4>3. Begins(u)
        BY <1>2, <3>2
      <4>4. QED
        BY <2>1, <2>2, <4>2, <4>3
    <3>3. QED
      BY <3>1, <3>2
  <2>4. QED
    BY <2>1, <2>3
<1> HIDE DEF P
<1>3. Seq(Characters) \subseteq P
  BY <1>1, <1>2, SequenceInduction
<1>4. QED
  BY <1>3 DEF P

\* Two texts have the same bytes in an encoding only when they are the same.
LEMMA EncodeInjective ==
  ASSUME NEW size \in Sizes, NEW t \in Seq(Characters), NEW u \in Seq(Characters),
         Encode(t, size) = Encode(u, size)
  PROVE  t = u
<1> DEFINE P == {v \in Seq(Characters) : \A w \in Seq(Characters) :
                   Encode(v, size) = Encode(w, size) => v = w}
<1>1. <<>> \in P
  <2>1. ASSUME NEW w \in Seq(Characters), Encode(<<>>, size) = Encode(w, size)
        PROVE  w = <<>>
    <3>1. Len(w) \in Nat /\ Len(w) <= 0
      BY <2>1, EncodeTyped, EmptySeq, EncodedLength, LenProperties
    <3>2. QED
      BY <3>1, EmptySeq
  <2>2. QED
    BY <2>1, EmptySeq
<1>2. ASSUME NEW v \in Seq(Characters), NEW c \in Characters, v \in P
      PROVE  Append(v, c) \in P
  <2>1. SUFFICES ASSUME NEW w \in Seq(Characters),
                        Encode(Append(v, c), size) = Encode(w, size)
                 PROVE  Append(v, c) = w
    BY AppendProperties
  <2> DEFINE m == Len(Encode(v, size))
  <2>2. /\ Encode(v, size) \in Seq(Byte) /\ m \in Nat /\ size[c] \in 1..6
        /\ Len(Encode(w, size)) = m + size[c]
        /\ \A i \in 1..m : Encode(w, size)[i] = Encode(v, size)[i]
        /\ \A k \in 1..size[c] : Encode(w, size)[m + k] = <<c, EncodingOf(c, size), k>>
    BY <2>1, EncodeAppend
  <2>3. w # <<>>
    BY <2>2, EncodeTyped, EmptySeq
  <2>4. PICK x \in Seq(Characters), d \in Characters : w = Append(x, d)
    BY <2>3, SequenceEmptyOrAppend
  <2> DEFINE n == Len(Encode(x, size))
  <2>5. /\ Encode(x, size) \in Seq(Byte) /\ n \in Nat /\ size[d] \in 1..6
        /\ Len(Encode(w, size)) = n + size[d]
        /\ \A i \in 1..n : Encode(w, size)[i] = Encode(x, size)[i]
        /\ \A k \in 1..size[d] : Encode(w, size)[n + k] = <<d, EncodingOf(d, size), k>>
    BY <2>4, EncodeAppend
  <2> HIDE DEF m, n
  <2>6. c = d
    <3>1. size[c] \in 1..size[c] /\ size[d] \in 1..size[d]
      <4>1. \A z \in 1..6 : z \in 1..z
        OBVIOUS
      <4>2. size[c] \in 1..6 /\ size[d] \in 1..6
        BY <2>2, <2>5
      <4>3. QED
        BY ONLY <4>1, <4>2
    <3>2. Encode(w, size)[m + size[c]] = <<c, EncodingOf(c, size), size[c]>>
      BY <2>2, <3>1
    <3>3. Encode(w, size)[n + size[d]] = <<d, EncodingOf(d, size), size[d]>>
      BY <2>5, <3>1
    <3>4. m + size[c] = n + size[d]
      BY <2>2, <2>5
    <3>5. QED
      BY <3>2, <3>3, <3>4
  <2>7. m = n
    <3>1. m \in Nat /\ n \in Nat /\ size[c] \in Nat /\ m + size[c] = n + size[c]
      BY <2>2, <2>5, <2>6
    <3>2. QED
      BY ONLY <3>1
  <2>8. Encode(v, size) = Encode(x, size)
    BY <2>2, <2>5, <2>7, SeqEqual DEF m, n
  <2>9. v = x
    BY <1>2, <2>8
  <2>10. QED
    BY <2>4, <2>6, <2>9
<1> HIDE DEF P
<1>3. Seq(Characters) \subseteq P
  BY <1>1, <1>2, SequenceInduction
<1>4. QED
  BY <1>3 DEF P


-----------------------------------------------------------------------------
(* What a C string is of some bytes.                                        *)

NoNul(bytes) == \A i \in 1..Len(bytes) : bytes[i] # Nul

\* strlen stops at the first NUL, or at the end.
LEMMA CStringCut ==
  ASSUME NEW B, NEW bytes \in Seq(B)
  PROVE  /\ CString(bytes) \in Seq(B)
         /\ Len(CString(bytes)) \in 0..Len(bytes)
         /\ \A i \in 1..Len(CString(bytes)) : CString(bytes)[i] = bytes[i]
         /\ NoNul(CString(bytes))
         /\ Len(CString(bytes)) < Len(bytes) => bytes[Len(CString(bytes)) + 1] = Nul
<1> DEFINE ends == {i \in DOMAIN bytes : bytes[i] = Nul} \union {Len(bytes) + 1}
           m == Min(ends)
<1>1. Len(bytes) \in Nat /\ DOMAIN bytes = 1..Len(bytes) /\ \A i \in 1..Len(bytes) : bytes[i] \in B
  BY LenProperties, ElementOfSeq
<1>2. ends \subseteq 1..Len(bytes) + 1 /\ ends # {} /\ ends \subseteq Nat
  BY <1>1
<1>3. m \in ends /\ \A e \in ends : m <= e
  <2>1. \E n \in ends : \A e \in ends : n <= e
    BY <1>2, LeastNatural
  <2> HIDE DEF ends
  <2>2. QED
    BY <2>1 DEF Min
<1>4. CString(bytes) = SubSeq(bytes, 1, m - 1)
  BY DEF CString
<1>5. \A i \in 1..Len(bytes) : bytes[i] = Nul => m <= i
  BY <1>1, <1>3
<1>6. m \in 1..Len(bytes) + 1 /\ (m <= Len(bytes) => bytes[m] = Nul)
  BY <1>1, <1>2, <1>3
<1> HIDE DEF m, ends
<1>7. 1 \in Int /\ m - 1 \in Int /\ \A i \in 1..m - 1 : bytes[i] \in B
  BY <1>1, <1>6
<1>8. /\ SubSeq(bytes, 1, m - 1) \in Seq(B)
      /\ Len(SubSeq(bytes, 1, m - 1)) = m - 1
      /\ \A i \in 1..m - 1 : SubSeq(bytes, 1, m - 1)[i] = bytes[i]
  <2>1. /\ SubSeq(bytes, 1, m - 1) \in Seq(B)
        /\ Len(SubSeq(bytes, 1, m - 1)) = IF 1 <= m - 1 THEN (m - 1) - 1 + 1 ELSE 0
        /\ \A i \in 1..(m - 1) - 1 + 1 : SubSeq(bytes, 1, m - 1)[i] = bytes[1 + i - 1]
    BY <1>7, SubSeqProperties
  <2>2. \A i \in 1..m - 1 : i \in 1..(m - 1) - 1 + 1 /\ 1 + i - 1 = i
    BY <1>7
  <2>3. (IF 1 <= m - 1 THEN (m - 1) - 1 + 1 ELSE 0) = m - 1
    BY <1>1, <1>6
  <2>4. QED
    BY <2>1, <2>2, <2>3
<1>9. \A i \in 1..m - 1 : bytes[i] # Nul
  BY <1>1, <1>5, <1>6
<1>10. m - 1 \in 0..Len(bytes) /\ (m - 1 < Len(bytes) => bytes[(m - 1) + 1] = Nul)
  <2>1. (m - 1) + 1 = m /\ (m - 1 < Len(bytes) => m <= Len(bytes)) /\ m - 1 \in 0..Len(bytes)
    BY <1>1, <1>6
  <2>2. QED
    BY <1>6, <2>1
<1>11. QED
  BY <1>4, <1>8, <1>9, <1>10 DEF NoNul

LEMMA CStringWhole ==
  ASSUME NEW B, NEW bytes \in Seq(B)
  PROVE  CString(bytes) = bytes <=> NoNul(bytes)
<1>1. /\ CString(bytes) \in Seq(B)
      /\ Len(CString(bytes)) \in 0..Len(bytes)
      /\ \A i \in 1..Len(CString(bytes)) : CString(bytes)[i] = bytes[i]
      /\ NoNul(CString(bytes))
      /\ Len(CString(bytes)) < Len(bytes) => bytes[Len(CString(bytes)) + 1] = Nul
  BY CStringCut
<1>2. ASSUME NoNul(bytes) PROVE CString(bytes) = bytes
  <2>1. Len(bytes) \in Nat
    BY LenProperties
  <2>2. ~ (Len(CString(bytes)) < Len(bytes))
    <3>1. Len(CString(bytes)) < Len(bytes) => Len(CString(bytes)) + 1 \in 1..Len(bytes)
      BY <1>1, <2>1
    <3>2. QED
      BY <1>1, <1>2, <3>1 DEF NoNul
  <2>3. Len(CString(bytes)) = Len(bytes)
    BY <1>1, <2>1, <2>2
  <2>4. QED
    BY <1>1, <2>3, SeqEqual
<1>3. QED
  BY <1>1, <1>2

\* What comes before a NUL is cut once.
LEMMA CStringTwice ==
  ASSUME NEW B, NEW bytes \in Seq(B)
  PROVE  CString(CString(bytes)) = CString(bytes)
BY CStringCut, CStringWhole

\* The first n of some bytes.
LEMMA FirstBytes ==
  ASSUME NEW B, NEW bytes \in Seq(B), NEW n \in 0..Len(bytes)
  PROVE  /\ SubSeq(bytes, 1, n) \in Seq(B) /\ Len(SubSeq(bytes, 1, n)) = n
         /\ \A i \in 1..n : SubSeq(bytes, 1, n)[i] = bytes[i]
<1>1. /\ Len(bytes) \in Nat /\ 1 \in Int /\ n \in Int
      /\ \A i \in 1..Len(bytes) : bytes[i] \in B
  BY LenProperties, ElementOfSeq
<1>2. \A i \in 1..n : bytes[i] \in B
  BY <1>1
<1>3. /\ SubSeq(bytes, 1, n) \in Seq(B)
      /\ Len(SubSeq(bytes, 1, n)) = IF 1 <= n THEN n - 1 + 1 ELSE 0
      /\ \A i \in 1..n - 1 + 1 : SubSeq(bytes, 1, n)[i] = bytes[1 + i - 1]
  BY <1>1, <1>2, SubSeqProperties
<1>4. \A i \in 1..n : i \in 1..n - 1 + 1 /\ 1 + i - 1 = i
  BY <1>1
<1>5. (IF 1 <= n THEN n - 1 + 1 ELSE 0) = n
  BY <1>1
<1>6. QED
  BY <1>3, <1>4, <1>5

\* strndup copies no more than it is told to, and what there is.
LEMMA StrndupIs ==
  ASSUME NEW B, NEW bytes \in Seq(B), NEW n \in Nat
  PROVE  /\ n <= Len(bytes) => Strndup(bytes, n) = CString(SubSeq(bytes, 1, n))
         /\ n > Len(bytes) => Strndup(bytes, n) = CString(bytes)
<1>1. Len(bytes) \in Nat
  BY LenProperties
<1> DEFINE m == Min({n, Len(bytes)})
<1>2. m = IF n <= Len(bytes) THEN n ELSE Len(bytes)
  <2> DEFINE k == IF n <= Len(bytes) THEN n ELSE Len(bytes)
  <2>1. k \in {n, Len(bytes)} /\ \A y \in {n, Len(bytes)} : k <= y
    BY <1>1
  <2>2. \A x \in {n, Len(bytes)} : (\A y \in {n, Len(bytes)} : x <= y) => x = k
    BY <1>1
  <2> HIDE DEF k
  <2>3. Min({n, Len(bytes)}) = k
    BY <2>1, <2>2 DEF Min
  <2>4. QED
    BY <2>3 DEF k
<1>3. Strndup(bytes, n) = CString(SubSeq(bytes, 1, m))
  BY DEF Strndup
<1> HIDE DEF m
<1>4. SubSeq(bytes, 1, Len(bytes)) = bytes
  BY SubSeqFull
<1>5. ASSUME n <= Len(bytes) PROVE Strndup(bytes, n) = CString(SubSeq(bytes, 1, n))
  BY <1>2, <1>3, <1>5
<1>6. ASSUME n > Len(bytes) PROVE Strndup(bytes, n) = CString(bytes)
  <2>1. ~ (n <= Len(bytes))
    BY <1>1, <1>6
  <2>2. QED
    BY <1>2, <1>3, <1>4, <2>1
<1>7. QED
  BY <1>5, <1>6

-----------------------------------------------------------------------------
(* What each way makes of a text.                                           *)

LEMMA HasIs ==
  ASSUME NEW t \in Seq(Characters), NEW characters
  PROVE  Has(t, characters) <=> \E j \in 1..Len(t) : t[j] \in characters
BY LenProperties DEF Has

\* In UTF-8 a NUL is a NUL, and no other byte is one.
LEMMA Utf8Nul ==
  ASSUME NEW t \in Seq(Characters)
  PROVE  NoNul(Utf8(t)) <=> ~Has(t, {"nul"})
<1>1. Utf8(t) = Encode(t, Utf8Size) /\ Utf8Size \in Sizes
  BY SizesKnown DEF Utf8
<1>2. \A c : EncodingOf(c, Utf8Size) = "utf8"
  BY DEF EncodingOf
<1>3. ASSUME NEW i \in 1..Len(Utf8(t)), Utf8(t)[i] = Nul
      PROVE  \E j \in 1..Len(t) : t[j] = "nul"
  <2>1. PICK j \in 1..Len(t) : \E k \in 1..Utf8Size[t[j]] :
               Utf8(t)[i] = <<t[j], EncodingOf(t[j], Utf8Size), k>>
    BY <1>1, BytesOfText
  <2>2. t[j] = "nul"
    BY <1>3, <2>1 DEF Nul
  <2>3. QED
    BY <2>2
<1>4. ASSUME NEW j \in 1..Len(t), t[j] = "nul"
      PROVE  \E i \in 1..Len(Utf8(t)) : Utf8(t)[i] = Nul
  <2>1. 1 \in 1..Utf8Size[t[j]]
    BY <1>4, SizesKnown
  <2>2. PICK i \in 1..Len(Utf8(t)) : Utf8(t)[i] = <<t[j], EncodingOf(t[j], Utf8Size), 1>>
    BY <1>1, <2>1, BytesOfText
  <2>3. Utf8(t)[i] = Nul
    BY <1>2, <1>4, <2>2 DEF Nul
  <2>4. QED
    BY <2>3
<1>5. QED
  BY <1>3, <1>4, HasIs DEF NoNul

\* JNI's encoding has no NUL.
LEMMA JniNoNul ==
  ASSUME NEW t \in Seq(Characters)
  PROVE  NoNul(Encode(t, JniSize))
<1>1. SUFFICES ASSUME NEW i \in 1..Len(Encode(t, JniSize)), Encode(t, JniSize)[i] = Nul
               PROVE  FALSE
  BY DEF NoNul
<1>2. PICK j \in 1..Len(t) : \E k \in 1..JniSize[t[j]] :
             Encode(t, JniSize)[i] = <<t[j], EncodingOf(t[j], JniSize), k>>
  BY SizesKnown, BytesOfText
<1>3. t[j] = "nul" /\ EncodingOf(t[j], JniSize) = "utf8"
  BY <1>1, <1>2 DEF Nul
<1>4. QED
  BY <1>3, SizesKnown DEF EncodingOf

\* JNI's encoding is UTF-8 exactly when there is neither NUL nor emoji; even
\* where it is cut, UTF-8 is not JNI's encoding of a text that has one.
LEMMA JniIsUtf8 ==
  ASSUME NEW t \in Seq(Characters)
  PROVE  /\ ~Has(t, {"nul", "emoji"}) => Encode(t, JniSize) = Utf8(t)
         /\ Has(t, {"nul", "emoji"}) =>
              \E i \in 1..Len(Encode(t, JniSize)) : Encode(t, JniSize)[i][2] = "jni"
         /\ \A i \in 1..Len(Utf8(t)) : Utf8(t)[i][2] = "utf8"
<1>1. Utf8(t) = Encode(t, Utf8Size) /\ Utf8Size \in Sizes /\ JniSize \in Sizes
  BY SizesKnown DEF Utf8
<1>2. ASSUME ~Has(t, {"nul", "emoji"}) PROVE Encode(t, JniSize) = Utf8(t)
  <2>1. \A i \in DOMAIN t : JniSize[t[i]] = Utf8Size[t[i]]
    <3>1. \A i \in DOMAIN t : t[i] \in Characters
      BY LenProperties, ElementOfSeq
    <3>2. \A i \in DOMAIN t : t[i] \notin {"nul", "emoji"}
      BY <1>2 DEF Has
    <3>3. QED
      BY <3>1, <3>2, SizesKnown
  <2>2. Codes(t, JniSize) = Codes(t, Utf8Size)
    <3>1. \A i \in DOMAIN t : Code(t[i], JniSize) = Code(t[i], Utf8Size)
      BY <2>1 DEF Code, EncodingOf
    <3>2. QED
      BY <3>1 DEF Codes
  <2>3. \A size : Encode(t, size) = FlattenSeq(Codes(t, size))
    BY DEF Encode, Codes, Code, EncodingOf
  <2>4. QED
    BY <1>1, <2>2, <2>3
<1>3. ASSUME Has(t, {"nul", "emoji"})
      PROVE  \E i \in 1..Len(Encode(t, JniSize)) : Encode(t, JniSize)[i][2] = "jni"
  <2>1. PICK j \in 1..Len(t) : t[j] \in {"nul", "emoji"}
    BY <1>3, HasIs
  <2>2. EncodingOf(t[j], JniSize) = "jni" /\ 1 \in 1..JniSize[t[j]]
    BY <2>1, SizesKnown DEF EncodingOf
  <2>3. PICK i \in 1..Len(Encode(t, JniSize)) :
               Encode(t, JniSize)[i] = <<t[j], EncodingOf(t[j], JniSize), 1>>
    BY <1>1, <2>2, BytesOfText
  <2>4. QED
    BY <2>2, <2>3
<1>4. ASSUME NEW i \in 1..Len(Utf8(t)) PROVE Utf8(t)[i][2] = "utf8"
  <2>1. PICK j \in 1..Len(t) : \E k \in 1..Utf8Size[t[j]] :
               Utf8(t)[i] = <<t[j], EncodingOf(t[j], Utf8Size), k>>
    BY <1>1, BytesOfText
  <2>2. EncodingOf(t[j], Utf8Size) = "utf8"
    BY DEF EncodingOf
  <2>3. QED
    BY <2>1, <2>2
<1>5. QED
  BY <1>2, <1>3, <1>4

\* A text has as many units as bytes exactly when each character has.
LEMMA UnitsAtMostBytes ==
  ASSUME NEW t \in Seq(Characters)
  PROVE  /\ Len(Encode(t, Units)) \in 0..Len(Utf8(t)) /\ Len(Utf8(t)) \in Nat
         /\ Len(Encode(t, Units)) = Len(Utf8(t)) <=> ~Has(t, {"latin", "cjk", "emoji"})
<1> DEFINE wide == {"latin", "cjk", "emoji"}
           units(u) == Len(Encode(u, Units))
           bytes(u) == Len(Utf8(u))
           P == {u \in Seq(Characters) :
                   /\ units(u) <= bytes(u)
                   /\ units(u) = bytes(u) <=> ~Has(u, wide)}
<1>1. \A u : Utf8(u) = Encode(u, Utf8Size)
  BY DEF Utf8
<1>2. Units \in Sizes /\ Utf8Size \in Sizes
  BY SizesKnown
<1>3. <<>> \in P
  <2>1. Encode(<<>>, Units) = <<>> /\ Utf8(<<>>) = <<>>
    BY <1>1, <1>2, EncodeTyped
  <2>2. <<>> \in Seq(Characters) /\ ~Has(<<>>, wide)
    BY EmptySeq DEF Has
  <2>3. Len(<<>>) = 0
    OBVIOUS
  <2>4. QED
    BY <2>1, <2>2, <2>3
<1>4. ASSUME NEW u \in Seq(Characters), NEW c \in Characters, u \in P
      PROVE  Append(u, c) \in P
  <2>1. /\ units(u) \in Nat /\ bytes(u) \in Nat /\ Units[c] \in Nat /\ Utf8Size[c] \in Nat
        /\ units(Append(u, c)) = units(u) + Units[c]
        /\ bytes(Append(u, c)) = bytes(u) + Utf8Size[c]
    <3>1. /\ units(u) \in Nat /\ Units[c] \in 1..6
          /\ units(Append(u, c)) = units(u) + Units[c]
      BY <1>2, EncodeAppend
    <3>2. /\ bytes(u) \in Nat /\ Utf8Size[c] \in 1..6
          /\ bytes(Append(u, c)) = bytes(u) + Utf8Size[c]
      BY <1>1, <1>2, EncodeAppend
    <3>3. QED
      BY <3>1, <3>2
  <2>2. Units[c] <= Utf8Size[c] /\ (Units[c] = Utf8Size[c] <=> c \notin wide)
    BY SizesKnown
  <2>3. units(u) <= bytes(u) /\ (units(u) = bytes(u) <=> ~Has(u, wide))
    BY <1>4
  <2>4. Append(u, c) \in Seq(Characters)
    BY AppendProperties
  <2>5. Has(Append(u, c), wide) <=> Has(u, wide) \/ c \in wide
    <3>1. /\ Len(u) \in Nat /\ Len(Append(u, c)) = Len(u) + 1
          /\ \A j \in 1..Len(u) : Append(u, c)[j] = u[j]
          /\ Append(u, c)[Len(u) + 1] = c
      BY AppendProperties, LenProperties
    <3>2. \A j : j \in 1..Len(u) + 1 <=> j \in 1..Len(u) \/ j = Len(u) + 1
      BY <3>1
    <3>3. QED
      BY <2>4, <3>1, <3>2, HasIs
  <2> HIDE DEF units, bytes, wide
  <2>6. units(u) + Units[c] <= bytes(u) + Utf8Size[c]
    BY <2>1, <2>2, <2>3
  <2>7. units(u) + Units[c] = bytes(u) + Utf8Size[c]
          <=> units(u) = bytes(u) /\ Units[c] = Utf8Size[c]
    BY <2>1, <2>2, <2>3
  <2>8. QED
    BY <2>1, <2>2, <2>3, <2>4, <2>5, <2>6, <2>7
<1>5. Seq(Characters) \subseteq P
  <2> HIDE DEF P
  <2>1. QED
    BY <1>3, <1>4, SequenceInduction
<1>6. units(t) \in Nat /\ bytes(t) \in Nat
  BY <1>1, <1>2, EncodeTyped, LenProperties
<1>7. QED
  BY <1>5, <1>6


LEMMA TextsAre ==
  ASSUME NEW t \in Texts
  PROVE  t \in Seq(Characters) /\ t # <<>> /\ Len(t) \in 1..MaxText
<1>1. PICK n \in 1..MaxText : t \in [1..n -> Characters]
  BY DEF Texts
<1>2. n \in Nat /\ t \in Seq(Characters) /\ Len(t) = n
  BY <1>1, ContentAssumption
<1>3. t # <<>>
  BY <1>2, EmptySeq
<1>4. QED
  BY <1>2, <1>3

\* JNI: the whole text, in JNI's encoding.
LEMMA MadeOnTheJvm ==
  ASSUME NEW t \in Seq(Characters)
  PROVE  Made("jvm", t) = Encode(t, JniSize)
<1> DEFINE b == Encode(t, JniSize)
<1>1. b \in Seq(Byte) /\ Len(b) \in Nat
  BY SizesKnown, EncodeTyped, LenProperties
<1>2. CString(b) = b
  BY <1>1, JniNoNul, CStringWhole
<1>3. Bytes("jvm", t) = b /\ Size("jvm", t) = Len(CString(b))
  BY DEF Bytes, Size
<1> HIDE DEF b
<1>4. Made("jvm", t) = CString(SubSeq(b, 1, Len(b)))
  BY <1>1, <1>2, <1>3, StrndupIs DEF Made
<1>5. QED
  BY <1>1, <1>2, <1>4, SubSeqFull DEF b

\* Kotlin/Native: as many bytes of the text as it has units, up to a NUL.
LEMMA MadeOnNative ==
  ASSUME NEW t \in Seq(Characters)
  PROVE  /\ IsPrefix(Made("native", t), Utf8(t))
         /\ Made("native", t) = Utf8(t) <=> ~Has(t, {"nul", "latin", "cjk", "emoji"})
         /\ t # <<>> /\ t[1] # "nul" => Made("native", t) # <<>>
<1> DEFINE b == Utf8(t)
           n == Len(Encode(t, Units))
           first == SubSeq(b, 1, n)
           made == CString(first)
<1>1. b \in Seq(Byte) /\ Len(b) \in Nat
  BY SizesKnown, EncodeTyped, LenProperties DEF Utf8
<1>2. n \in 0..Len(b) /\ (n = Len(b) <=> ~Has(t, {"latin", "cjk", "emoji"}))
  BY UnitsAtMostBytes
<1>3. Bytes("native", t) = b /\ Size("native", t) = n
  BY DEF Bytes, Size
<1>4. NoNul(b) <=> ~Has(t, {"nul"})
  BY Utf8Nul
<1>5. Has(t, {"nul", "latin", "cjk", "emoji"})
        <=> Has(t, {"nul"}) \/ Has(t, {"latin", "cjk", "emoji"})
  BY DEF Has
<1>6. t # <<>> => n >= 1 /\ b[1] = <<t[1], "utf8", 1>>
  <2>1. t # <<>> => Len(t) \in Nat \ {0}
    BY EmptySeq
  <2>2. Len(t) <= n /\ n \in Nat
    BY SizesKnown, EncodedLength
  <2>3. t # <<>> => n >= 1
    BY <2>1, <2>2
  <2>4. t # <<>> => b[1] = <<t[1], EncodingOf(t[1], Utf8Size), 1>>
    BY SizesKnown, FirstByte DEF Utf8
  <2>5. EncodingOf(t[1], Utf8Size) = "utf8"
    BY DEF EncodingOf
  <2>6. QED
    BY <2>3, <2>4, <2>5
<1> HIDE DEF b, n
<1>7. /\ first \in Seq(Byte) /\ Len(first) = n
      /\ \A i \in 1..n : first[i] = b[i]
  BY <1>1, <1>2, FirstBytes
<1> HIDE DEF first
<1>8. Made("native", t) = made
  BY <1>1, <1>2, <1>3, StrndupIs DEF Made, first
<1>9. /\ made \in Seq(Byte) /\ Len(made) \in 0..n
      /\ \A i \in 1..Len(made) : made[i] = b[i]
      /\ Len(made) < n => b[Len(made) + 1] = Nul
  <2>1. /\ made \in Seq(Byte) /\ Len(made) \in 0..n
        /\ \A i \in 1..Len(made) : made[i] = first[i]
        /\ Len(made) < n => first[Len(made) + 1] = Nul
    BY <1>7, CStringCut
  <2> HIDE DEF made
  <2>2. \A i \in 1..Len(made) : i \in 1..n
    BY <1>1, <1>2, <2>1
  <2>3. Len(made) < n => Len(made) + 1 \in 1..n
    BY <1>1, <1>2, <2>1
  <2>4. QED
    BY <1>7, <2>1, <2>2, <2>3
<1>10. IsPrefix(made, b)
  <2> HIDE DEF made
  <2>1. Len(made) \in 0..Len(b)
    BY <1>1, <1>2, <1>9
  <2>2. /\ SubSeq(b, 1, Len(made)) \in Seq(Byte) /\ Len(SubSeq(b, 1, Len(made))) = Len(made)
        /\ \A i \in 1..Len(made) : SubSeq(b, 1, Len(made))[i] = b[i]
    BY <1>1, <2>1, FirstBytes
  <2>3. SubSeq(b, 1, Len(made)) = made
    BY <1>9, <2>2, SeqEqual
  <2>4. SubSeq(made, 1, Len(made)) = made
    BY <1>9, SubSeqFull
  <2>5. Len(made) <= Len(b)
    BY <1>1, <2>1
  <2>6. QED
    BY <2>3, <2>4, <2>5 DEF IsPrefix
<1>11. ASSUME made = b PROVE n = Len(b) /\ NoNul(b)
  <2>1. n = Len(b)
    <3>1. Len(made) = Len(b)
      BY <1>11
    <3> HIDE DEF made
    <3>2. QED
      BY <1>1, <1>2, <1>9, <3>1
  <2>2. first = b
    BY <1>1, <2>1, SubSeqFull DEF first
  <2>3. QED
    BY <1>1, <1>11, <2>1, <2>2, CStringWhole
<1>12. ASSUME n = Len(b), NoNul(b) PROVE made = b
  <2>1. first = b
    BY <1>1, <1>12, SubSeqFull DEF first
  <2>2. QED
    BY <1>1, <1>12, <2>1, CStringWhole
<1>13. ASSUME t # <<>>, t[1] # "nul" PROVE made # <<>>
  <2> HIDE DEF made
  <2>1. SUFFICES ASSUME made = <<>> PROVE FALSE
    OBVIOUS
  <2>2. Len(made) = 0
    BY <2>1, EmptySeq
  <2>3. b[1] = Nul
    BY <1>2, <1>6, <1>9, <1>13, <2>2
  <2>4. QED
    BY <1>6, <1>13, <2>3 DEF Nul
<1>14. made = b <=> ~Has(t, {"nul", "latin", "cjk", "emoji"})
  BY <1>2, <1>4, <1>5, <1>11, <1>12
<1>15. QED
  BY <1>8, <1>10, <1>13, <1>14 DEF b

\* The embedded file: all of it up to a NUL.
LEMMA MadeEmbedded ==
  ASSUME NEW t \in Seq(Characters)
  PROVE  Made("embedded", t) = CString(Utf8(t))
<1> DEFINE b == Utf8(t)
           after == << <<"other data", "utf8", 1>> >>
<1>1. b \in Seq(Byte) /\ Len(b) \in Nat
  BY SizesKnown, EncodeTyped, LenProperties DEF Utf8
<1>2. after \in Seq(Byte) /\ Len(after) = 1
  <2>1. <<"other data", "utf8", 1>> \in Byte
    BY DEF Byte
  <2>2. \A x \in Byte : <<x>> \in Seq(Byte) /\ Len(<<x>>) = 1
    OBVIOUS
  <2>3. QED
    BY <2>1, <2>2
<1>3. Bytes("embedded", t) = b \o after /\ Size("embedded", t) = Len(b)
  BY DEF Bytes, Size, Image
<1> HIDE DEF b, after
<1>4. /\ b \o after \in Seq(Byte) /\ Len(b \o after) = Len(b) + 1
      /\ \A i \in 1..Len(b) : (b \o after)[i] = b[i]
  <2>1. /\ b \o after \in Seq(Byte) /\ Len(b \o after) = Len(b) + Len(after)
        /\ \A i \in 1..Len(b) + Len(after) :
             (b \o after)[i] = IF i <= Len(b) THEN b[i] ELSE after[i - Len(b)]
    BY <1>1, <1>2, ConcatProperties
  <2>2. QED
    BY <1>1, <1>2, <2>1
<1>5. Len(b) \in 0..Len(b \o after) /\ Len(b) <= Len(b \o after)
  BY <1>1, <1>4
<1>6. /\ SubSeq(b \o after, 1, Len(b)) \in Seq(Byte)
      /\ Len(SubSeq(b \o after, 1, Len(b))) = Len(b)
      /\ \A i \in 1..Len(b) : SubSeq(b \o after, 1, Len(b))[i] = (b \o after)[i]
  BY <1>4, <1>5, FirstBytes
<1>7. SubSeq(b \o after, 1, Len(b)) = b
  BY <1>1, <1>4, <1>6, SeqEqual
<1>8. Strndup(b \o after, Len(b)) = CString(SubSeq(b \o after, 1, Len(b)))
  BY <1>1, <1>4, <1>5, StrndupIs
<1>9. QED
  BY <1>3, <1>7, <1>8 DEF Made, b


\* Whatever the way: a C string of no more bytes than the text has.
LEMMA MadeIs ==
  ASSUME NEW s \in Sources, NEW t \in Texts
  PROVE  /\ Made(s, t) \in Seq(Byte) /\ Len(Made(s, t)) \in 0..6 * Len(t)
         /\ CString(Made(s, t)) = Made(s, t)
<1>1. t \in Seq(Characters)
  BY TextsAre
<1>2. Encode(t, JniSize) \in Seq(Byte) /\ Utf8(t) \in Seq(Byte)
  BY <1>1, SizesKnown, EncodeTyped DEF Utf8
<1>3. /\ Len(Encode(t, JniSize)) \in 0..6 * Len(t)
      /\ Len(Utf8(t)) \in 0..6 * Len(t)
  <2>1. Len(t) \in Nat
    BY <1>1, LenProperties
  <2>2. /\ Len(Encode(t, JniSize)) \in Nat /\ Len(Encode(t, JniSize)) <= 6 * Len(t)
        /\ Len(Utf8(t)) \in Nat /\ Len(Utf8(t)) <= 6 * Len(t)
    BY <1>1, SizesKnown, EncodedLength DEF Utf8
  <2>3. QED
    BY <2>1, <2>2
<1>4. CASE s = "jvm"
  <2>1. CString(Encode(t, JniSize)) = Encode(t, JniSize)
    BY <1>1, <1>2, JniNoNul, CStringWhole
  <2>2. QED
    BY <1>1, <1>2, <1>3, <1>4, <2>1, MadeOnTheJvm
<1>5. CASE s = "native"
  <2> DEFINE n == Len(Encode(t, Units))
             first == SubSeq(Utf8(t), 1, n)
  <2>1. n \in 0..Len(Utf8(t)) /\ Len(Utf8(t)) \in Nat
    BY <1>1, UnitsAtMostBytes
  <2>2. Made(s, t) = CString(first)
    <3>1. Bytes(s, t) = Utf8(t) /\ Size(s, t) = n
      BY <1>5 DEF Bytes, Size
    <3>2. n \in Nat /\ n <= Len(Utf8(t))
      BY <2>1
    <3> HIDE DEF n
    <3>3. QED
      BY <1>2, <3>1, <3>2, StrndupIs DEF Made
  <2>3. first \in Seq(Byte) /\ Len(first) = n
    BY <1>2, <2>1, FirstBytes
  <2> HIDE DEF first
  <2>4. /\ CString(first) \in Seq(Byte) /\ Len(CString(first)) \in 0..Len(first)
        /\ CString(CString(first)) = CString(first)
    BY <2>3, CStringCut, CStringTwice
  <2> HIDE DEF n
  <2>5. Len(CString(first)) \in 0..6 * Len(t)
    BY <1>3, <2>1, <2>3, <2>4
  <2>6. QED
    BY <2>2, <2>4, <2>5
<1>6. CASE s = "embedded"
  <2>1. Made(s, t) = CString(Utf8(t))
    BY <1>1, <1>6, MadeEmbedded
  <2>2. /\ CString(Utf8(t)) \in Seq(Byte) /\ Len(CString(Utf8(t))) \in 0..Len(Utf8(t))
        /\ CString(CString(Utf8(t))) = CString(Utf8(t))
    BY <1>2, CStringCut, CStringTwice
  <2>3. Len(CString(Utf8(t))) \in 0..6 * Len(t)
    BY <1>3, <2>2
  <2>4. QED
    BY <2>1, <2>2, <2>3
<1>7. QED
  BY <1>4, <1>5, <1>6, ContentAssumption

-----------------------------------------------------------------------------
(* The invariant.                                                           *)

LEMMA ContentInitially == ContentInit => ContentInv
BY DEF ContentInit, ContentInv, Stages

\* All of what was announced is taken from the wire.
LEMMA TakenWhole ==
  ASSUME NEW B, NEW bytes \in Seq(B)
  PROVE  /\ SubSeq(bytes, 1, Len(bytes)) = bytes
         /\ SubSeq(bytes, Len(bytes) + 1, Len(bytes)) = <<>>
<1>1. Len(bytes) \in Nat
  BY LenProperties
<1>2. Len(bytes) + 1 \in Int /\ Len(bytes) \in Int /\ Len(bytes) < Len(bytes) + 1
  BY <1>1
<1>3. QED
  BY <1>2, SubSeqFull, SubSeqEmpty

LEMMA ContentStep ==
  ASSUME ContentInv, [ContentNext]_contentVars
  PROVE  ContentInv'
<1>1. source \in Sources /\ text \in Texts
  BY DEF ContentInv
<1>2. /\ Made(source, text) \in Seq(Byte)
      /\ CString(Made(source, text)) = Made(source, text)
  BY <1>1, MadeIs
<1>3. CASE UNCHANGED contentVars
  <2>1. UNCHANGED <<source, text, stage, script, announced, wire, received, shown>>
    BY <1>3 DEF contentVars
  <2>2. /\ Made(source, text)' = Made(source, text)
        /\ Decode(CString(Made(source, text)), SizeShown(source))'
             = Decode(CString(Made(source, text)), SizeShown(source))
        /\ Decode(CString(Utf8(text)), SizeShown(source))'
             = Decode(CString(Utf8(text)), SizeShown(source))
    BY <2>1 DEF Made, Bytes, Size, SizeShown
  <2>3. QED
    BY <2>1, <2>2 DEF ContentInv
<1>4. CASE Create
  <2>1. /\ stage = "text" /\ script' = Made(source, text) /\ stage' = "made"
        /\ UNCHANGED <<source, text, announced, wire, received, shown>>
    BY <1>4 DEF Create, Made
  <2>2. Made(source, text)' = Made(source, text)
    BY <2>1 DEF Made, Bytes, Size
  <2>3. QED
    BY <2>1, <2>2 DEF ContentInv, Stages
<1>5. CASE Reject
  BY <1>5 DEF Reject, ContentInv, Stages
<1>6. CASE Send
  <2>1. stage = "made" /\ source # "embedded" /\ script = Made(source, text)
    BY <1>6 DEF Send, ContentInv
  <2>2. /\ announced' = Len(Made(source, text)) /\ wire' = Made(source, text)
        /\ stage' = "sent" /\ UNCHANGED <<source, text, script, received, shown>>
    BY <1>2, <1>6, <2>1 DEF Send
  <2>3. Made(source, text)' = Made(source, text)
    BY <2>2 DEF Made, Bytes, Size
  <2>4. QED
    BY <2>1, <2>2, <2>3 DEF ContentInv, Stages
<1>7. CASE PassAsArgument
  <2>1. stage = "made" /\ source = "embedded" /\ script = Made(source, text)
    BY <1>7 DEF PassAsArgument, ContentInv
  <2>2. /\ received' = Made(source, text)
        /\ stage' = "received" /\ UNCHANGED <<source, text, script, announced, wire, shown>>
    BY <1>2, <1>7, <2>1 DEF PassAsArgument
  <2>3. Made(source, text)' = Made(source, text)
    BY <2>2 DEF Made, Bytes, Size
  <2>4. QED
    BY <2>1, <2>2, <2>3 DEF ContentInv, Stages
<1>8. CASE Receive
  <2>1. /\ stage = "sent" /\ source # "embedded" /\ wire = Made(source, text)
        /\ announced = Len(Made(source, text))
    BY <1>8 DEF Receive, ContentInv
  <2>2. /\ received' = Made(source, text) /\ wire' = <<>>
        /\ stage' = "received" /\ UNCHANGED <<source, text, script, announced, shown>>
    BY <1>2, <1>8, <2>1, TakenWhole DEF Receive
  <2>3. Made(source, text)' = Made(source, text)
    BY <2>2 DEF Made, Bytes, Size
  <2>4. QED
    BY <2>1, <2>2, <2>3 DEF ContentInv, Stages
<1>9. CASE RefuseLength
  <2>1. /\ stage = "sent" /\ source # "embedded" /\ announced \notin 1..MaxLength
        /\ stage' = "refused"
        /\ UNCHANGED <<source, text, script, announced, wire, received, shown>>
    BY <1>9 DEF RefuseLength, ContentInv
  <2>2. Made(source, text)' = Made(source, text)
    BY <2>1 DEF Made, Bytes, Size
  <2>3. QED
    BY <2>1, <2>2 DEF ContentInv, Stages
<1>10. CASE Echo
  <2>1. /\ stage = "received" /\ source # "embedded" /\ received = Made(source, text)
        /\ shown' = Decode(CString(Made(source, text)), SizeShown(source))
        /\ stage' = "echoed"
        /\ UNCHANGED <<source, text, script, announced, wire, received>>
    BY <1>10 DEF Echo, Show, SizeShown, ContentInv
  <2>2. /\ Made(source, text)' = Made(source, text)
        /\ Decode(CString(Made(source, text)), SizeShown(source))'
             = Decode(CString(Made(source, text)), SizeShown(source))
    BY <2>1 DEF Made, Bytes, Size, SizeShown
  <2>3. QED
    BY <2>1, <2>2 DEF ContentInv, Stages
<1>11. CASE Puts
  <2>1. /\ stage = "received" /\ source # "embedded" /\ received = Made(source, text)
        /\ shown' = Decode(CString(Utf8(text)), SizeShown(source))
        /\ stage' = "printed"
        /\ UNCHANGED <<source, text, script, announced, wire, received>>
    BY <1>11 DEF Puts, Show, SizeShown, ContentInv
  <2>2. /\ Made(source, text)' = Made(source, text)
        /\ Decode(CString(Utf8(text)), SizeShown(source))'
             = Decode(CString(Utf8(text)), SizeShown(source))
    BY <2>1 DEF Made, Bytes, Size, SizeShown
  <2>3. QED
    BY <2>1, <2>2 DEF ContentInv, Stages
<1>12. QED
  BY <1>3, <1>4, <1>5, <1>6, <1>7, <1>8, <1>9, <1>10, <1>11 DEF ContentNext

\* At each stage, what there is on the way is what strndup has made of the
\* text: nothing is lost after it, nor added.
THEOREM ContentInvariant == ContentSpec => []ContentInv
BY ContentInitially, ContentStep, PTL DEF ContentSpec


-----------------------------------------------------------------------------
(* What follows from it.                                                    *)

\* Type correctness: nothing on the way is longer than six bytes a character.
THEOREM ContentTypes == ContentSpec => []ContentTypeOK
<1>1. ASSUME ContentInv PROVE ContentTypeOK
  <2>1. source \in Sources /\ text \in Texts /\ stage \in Stages
    BY <1>1 DEF ContentInv
  <2>2. MaxText \in Nat /\ Len(text) \in 1..MaxText
    BY <2>1, TextsAre, ContentAssumption
  <2>3. Len(Made(source, text)) \in 0..6 * Len(text)
    BY <2>1, MadeIs
  <2>4. Len(Made(source, text)) \in Nat /\ Len(Made(source, text)) <= 6 * MaxText
    BY <2>2, <2>3
  <2>5. Len(<<>>) = 0 /\ 0 <= 6 * MaxText
    BY <2>2
  <2>6. announced \in Nat
    BY <1>1, <2>4 DEF ContentInv
  <2>7. \A bytes \in {script, wire, received} : bytes = <<>> \/ bytes = Made(source, text)
    BY <1>1 DEF ContentInv
  <2>8. \A bytes \in {script, wire, received} : Len(bytes) <= 6 * MaxText
    BY <2>4, <2>5, <2>7
  <2>9. shown \in Texts \union {<<>>, Garbled}
    <3>1. \A bytes, size : Decode(bytes, size) \in Texts \union {<<>>, Garbled}
      BY DEF Decode
    <3>2. QED
      BY <1>1, <3>1 DEF ContentInv
  <2>10. QED
    BY <2>1, <2>6, <2>8, <2>9 DEF ContentTypeOK
<1>2. QED
  BY <1>1, ContentInvariant, PTL

\* Exactly the texts without NUL, and without emoji on the JVM or anything
\* beyond ASCII on Kotlin/Native, reach Ruby as they are.
THEOREM ArrivesExactlyWhenItSurvives == ContentSpec => []ArrivesWhenItSurvives
<1>1. ASSUME ContentInv, stage = "received"
      PROVE  received = Utf8(text) <=> Survives(source, text)
  <2>1. /\ source \in Sources /\ text \in Seq(Characters)
        /\ received = Made(source, text)
    BY <1>1, TextsAre DEF ContentInv
  <2>2. CASE source = "jvm"
    <3>1. received = Encode(text, JniSize)
      BY <2>1, <2>2, MadeOnTheJvm
    <3>2. ~Has(text, {"nul", "emoji"}) => received = Utf8(text)
      BY <2>1, <3>1, JniIsUtf8
    <3>3. ASSUME Has(text, {"nul", "emoji"}) PROVE received # Utf8(text)
      <4>1. PICK i \in 1..Len(received) : received[i][2] = "jni"
        BY <2>1, <3>1, <3>3, JniIsUtf8
      <4>2. \A j \in 1..Len(Utf8(text)) : Utf8(text)[j][2] = "utf8"
        BY <2>1, JniIsUtf8
      <4>3. QED
        BY <4>1, <4>2
    <3>4. Survives(source, text) <=> ~Has(text, {"nul", "emoji"})
      BY <2>2 DEF Survives
    <3>5. QED
      BY <3>2, <3>3, <3>4
  <2>3. CASE source = "native"
    <3>1. Survives(source, text) <=> ~Has(text, {"nul", "latin", "cjk", "emoji"})
      BY <2>3 DEF Survives
    <3>2. QED
      BY <2>1, <2>3, <3>1, MadeOnNative
  <2>4. CASE source = "embedded"
    <3>1. Survives(source, text) <=> ~Has(text, {"nul"})
      BY <2>4 DEF Survives
    <3>2. received = CString(Utf8(text))
      BY <2>1, <2>4, MadeEmbedded
    <3>3. Utf8(text) \in Seq(Byte)
      BY <2>1, SizesKnown, EncodeTyped DEF Utf8
    <3>4. QED
      BY <2>1, <3>1, <3>2, <3>3, CStringWhole, Utf8Nul
  <2>5. QED
    BY <2>1, <2>2, <2>3, <2>4, ContentAssumption
<1>2. ContentInv => ArrivesWhenItSurvives
  BY <1>1 DEF ArrivesWhenItSurvives
<1>3. QED
  BY <1>2, ContentInvariant, PTL

\* The loop refuses a text within its limit only when nothing is left of it.
THEOREM RefusedWhenEmptied == ContentSpec => []RefusedOnlyWhenEmptied
<1>1. ASSUME ContentInv, stage = "refused", announced <= MaxLength
      PROVE  source = "native" /\ text[1] = "nul"
  <2>1. /\ source \in Sources /\ source # "embedded" /\ text \in Texts
        /\ announced = Len(Made(source, text)) /\ announced \notin 1..MaxLength
    BY <1>1 DEF ContentInv
  <2>2. Made(source, text) \in Seq(Byte) /\ Len(Made(source, text)) \in Nat
    BY <2>1, MadeIs, LenProperties
  <2>3. Len(Made(source, text)) = 0
    BY <1>1, <2>1, <2>2, ContentAssumption
  <2>4. Made(source, text) = <<>>
    BY <2>2, <2>3, EmptySeq
  <2>5. text \in Seq(Characters) /\ text # <<>> /\ Len(text) \in Nat \ {0}
    BY <2>1, TextsAre, EmptySeq
  <2>6. source # "jvm"
    <3>1. SUFFICES ASSUME source = "jvm" PROVE FALSE
      OBVIOUS
    <3>2. Len(Encode(text, JniSize)) = 0
      BY <2>3, <2>5, <3>1, MadeOnTheJvm
    <3>3. Len(text) <= Len(Encode(text, JniSize))
      BY <2>5, SizesKnown, EncodedLength
    <3>4. QED
      BY <2>5, <3>2, <3>3
  <2>7. source = "native"
    BY <2>1, <2>6, ContentAssumption
  <2>8. QED
    BY <2>4, <2>5, <2>7, MadeOnNative
<1>2. ContentInv => RefusedOnlyWhenEmptied
  BY <1>1 DEF RefusedOnlyWhenEmptied
<1>3. QED
  BY <1>2, ContentInvariant, PTL

\* A script on the JVM arrives with all its characters, in JNI's encoding; one
\* on Kotlin/Native is a beginning of what it was.
THEOREM CutOrMangled == ContentSpec => []CutOrMangledNotBoth
<1>1. ASSUME ContentInv, stage = "received"
      PROVE  /\ source = "jvm" => received = Encode(text, JniSize)
             /\ source = "native" => IsPrefix(received, Utf8(text))
  BY <1>1, TextsAre, MadeOnTheJvm, MadeOnNative DEF ContentInv
<1>2. ContentInv => CutOrMangledNotBoth
  BY <1>1 DEF CutOrMangledNotBoth
<1>3. QED
  BY <1>2, ContentInvariant, PTL

\* Bytes that are a text in an encoding are read as that text.
LEMMA DecodeEncoded ==
  ASSUME NEW size \in Sizes, NEW t \in Texts
  PROVE  Decode(Encode(t, size), size) = t
<1> DEFINE found == CHOOSE u \in Texts \union {<<>>} : Encode(u, size) = Encode(t, size)
<1>1. found \in Texts \union {<<>>} /\ Encode(found, size) = Encode(t, size)
  OBVIOUS
<1>2. Decode(Encode(t, size), size) = found
  BY DEF Decode
<1> HIDE DEF found
<1>3. t \in Seq(Characters) /\ found \in Seq(Characters)
  BY <1>1, TextsAre, EmptySeq
<1>4. QED
  BY <1>1, <1>2, <1>3, EncodeInjective

LEMMA GarbledIsNoText == Garbled \notin Texts
<1>1. SUFFICES ASSUME Garbled \in Texts PROVE FALSE
  OBVIOUS
<1>2. Garbled[1] \in Characters
  BY <1>1, TextsAre, ElementOfSeq DEF Garbled
<1>3. QED
  BY <1>2 DEF Garbled, Characters

\* What a script on the JVM puts out of itself comes back as it was; what Ruby
\* makes comes back as it was exactly when it has no NUL and no emoji.
THEOREM OutputComesBack == ContentSpec => []OutputOnTheJvm
<1>1. ASSUME ContentInv, source = "jvm"
      PROVE  /\ stage = "echoed" => shown = text
             /\ stage = "printed" => (shown = text <=> ~Has(text, {"nul", "emoji"}))
  <2>1. text \in Texts /\ text \in Seq(Characters) /\ source \in Sources
    BY <1>1, TextsAre DEF ContentInv
  <2>2. SizeShown(source) = JniSize /\ JniSize \in Sizes
    BY <1>1, SizesKnown DEF SizeShown
  <2>3. ASSUME stage = "echoed" PROVE shown = text
    <3>1. shown = Decode(CString(Made(source, text)), JniSize)
      BY <1>1, <2>2, <2>3 DEF ContentInv
    <3>2. CString(Made(source, text)) = Encode(text, JniSize)
      BY <1>1, <2>1, MadeIs, MadeOnTheJvm
    <3>3. QED
      BY <2>1, <2>2, <3>1, <3>2, DecodeEncoded
  <2>4. ASSUME stage = "printed" PROVE shown = text <=> ~Has(text, {"nul", "emoji"})
    <3> DEFINE bytes == CString(Utf8(text))
    <3>1. shown = Decode(bytes, JniSize)
      BY <1>1, <2>2, <2>4 DEF ContentInv
    <3>2. Utf8(text) \in Seq(Byte) /\ Len(Utf8(text)) \in Nat
      BY <2>1, SizesKnown, EncodeTyped, LenProperties DEF Utf8
    <3>3. ASSUME ~Has(text, {"nul", "emoji"}) PROVE shown = text
      <4>1. Utf8(text) = Encode(text, JniSize)
        BY <2>1, <3>3, JniIsUtf8
      <4>2. bytes = Encode(text, JniSize)
        BY <2>1, <3>2, <4>1, JniNoNul, CStringWhole
      <4>3. QED
        BY <2>1, <2>2, <3>1, <4>2, DecodeEncoded
    <3>4. ASSUME Has(text, {"nul", "emoji"}), shown = text PROVE FALSE
      <4>1. bytes = Encode(text, JniSize)
        <5>1. \E u \in Texts \union {<<>>} : Encode(u, JniSize) = bytes
          BY <2>1, <3>1, <3>4, GarbledIsNoText DEF Decode
        <5>2. shown = CHOOSE u \in Texts \union {<<>>} : Encode(u, JniSize) = bytes
          BY <3>1, <5>1 DEF Decode
        <5> HIDE DEF bytes
        <5>3. Encode(shown, JniSize) = bytes
          BY <5>1, <5>2
        <5>4. QED
          BY <3>4, <5>3
      <4>2. PICK i \in 1..Len(bytes) : bytes[i][2] = "jni"
        BY <2>1, <3>4, <4>1, JniIsUtf8
      <4>3. /\ Len(bytes) \in 0..Len(Utf8(text))
            /\ \A j \in 1..Len(bytes) : bytes[j] = Utf8(text)[j]
        BY <3>2, CStringCut
      <4> HIDE DEF bytes
      <4>4. i \in 1..Len(Utf8(text)) /\ bytes[i] = Utf8(text)[i]
        BY <3>2, <4>2, <4>3
      <4>5. Utf8(text)[i][2] = "utf8"
        BY <2>1, <4>4, JniIsUtf8
      <4>6. QED
        BY <4>2, <4>4, <4>5
    <3>5. QED
      BY <3>3, <3>4
  <2>5. QED
    BY <2>3, <2>4
<1>2. ContentInv => OutputOnTheJvm
  BY <1>1 DEF OutputOnTheJvm
<1>3. QED
  BY <1>2, ContentInvariant, PTL

=============================================================================
