---------------------------- MODULE ScriptContent ----------------------------
(***************************************************************************)
(* What becomes of the text of a script on its way to Ruby: from Kotlin on *)
(* the JVM (ruby_vm_jni.c), from Kotlin/Native, or from the file embedded  *)
(* in the library (use_direct_memory.c), through ruby-script.c and the     *)
(* strlen of send_script_to_ruby; and of the text on its way back, as a    *)
(* line of output that the log listener passes to Kotlin.                  *)
(*                                                                         *)
(* A text is a sequence of characters, told apart by how they are encoded; *)
(* a byte is <<character, encoding, its place in the character>>.          *)
(***************************************************************************)
EXTENDS Integers, Sequences, SequencesExt

CONSTANTS
  Sources,        \* of "jvm", "native" and "embedded"
  MaxText,        \* characters in a text
  MaxLength       \* the longest script the loop accepts, in bytes

Characters == {"space", "ascii", "nul", "latin", "cjk", "emoji"}

Texts == UNION { [1..n -> Characters] : n \in 1..MaxText }

ASSUME ContentAssumption ==
  Sources \subseteq {"jvm", "native", "embedded"} /\ MaxText \in Nat /\ MaxLength \in Nat

VARIABLES
  source, text,
  stage,      \* how far the text has got
  script,     \* script_content, without its final NUL
  announced,  \* the length sent before it
  wire,       \* bytes on the socket after that length
  received,   \* what Ruby evaluates
  shown       \* the text of the line that Kotlin gets back

contentVars == <<source, text, stage, script, announced, wire, received, shown>>

-----------------------------------------------------------------------------

Utf8Size == [space |-> 1, ascii |-> 1, nul |-> 1, latin |-> 2, cjk |-> 3, emoji |-> 4]

\* GetStringUTFChars: NUL takes two bytes, and each of the two surrogates of
\* a supplementary character three.
JniSize == [Utf8Size EXCEPT !.nul = 2, !.emoji = 6]

\* content.length, in UTF-16 units.
Units == [c \in Characters |-> IF c = "emoji" THEN 2 ELSE 1]

Encode(t, size) ==
  FlattenSeq([ i \in DOMAIN t |->
    [ k \in 1..size[t[i]] |->
      <<t[i], IF size[t[i]] = Utf8Size[t[i]] THEN "utf8" ELSE "jni", k>> ] ])

Utf8(t) == Encode(t, Utf8Size)

Garbled == <<"garbled">>

Nul == <<"nul", "utf8", 1>>

\* The bytes before the first NUL, as strlen and strdup see them.
CString(bytes) ==
  LET ends == { i \in DOMAIN bytes : bytes[i] = Nul } IN
  SubSeq(bytes, 1, Min(ends \union {Len(bytes) + 1}) - 1)

\* strndup(bytes, size)
Strndup(bytes, size) == CString(SubSeq(bytes, 1, Min({size, Len(bytes)})))

\* The bytes that follow the embedded file in the library.
Image(t) == Utf8(t) \o << <<"other data", "utf8", 1>> >>

\* Variant: the JVM's text is converted to UTF-8.
BytesUtf8(s, t) == IF s = "embedded" THEN Image(t) ELSE Utf8(t)

\* What the content argument of ruby_script_create_from_content points to.
Bytes(s, t) ==
  CASE s = "jvm"      -> Encode(t, JniSize)
    [] s = "native"   -> Utf8(t)
    [] s = "embedded" -> Image(t)

\* Variant: on the JVM as well the units of the text are counted.
SizeUnits(s, t) == Len(Encode(t, IF s = "embedded" THEN Utf8Size ELSE Units))

\* Variant: the size of the embedded file is one too many.
SizeOneMore(s, t) ==
  CASE s = "jvm"      -> Len(CString(Bytes(s, t)))
    [] s = "native"   -> Len(Encode(t, Units))
    [] s = "embedded" -> Len(Utf8(t)) + 1

\* The size argument: strlen, content.length, or the end of the file less its start.
Size(s, t) ==
  CASE s = "jvm"      -> Len(CString(Bytes(s, t)))
    [] s = "native"   -> Len(Encode(t, Units))
    [] s = "embedded" -> Len(Utf8(t))

\* The text in an encoding of these sizes, if that is what the bytes are.
Decode(bytes, size) ==
  IF \E t \in Texts \union {<<>>} : Encode(t, size) = bytes
  THEN CHOOSE t \in Texts \union {<<>>} : Encode(t, size) = bytes
  ELSE Garbled

NotBlank(t) == \E i \in DOMAIN t : t[i] # "space"

-----------------------------------------------------------------------------

Stages == {"text", "rejected", "made", "sent", "refused", "received",
           "echoed", "printed"}

ContentTypeOK ==
  /\ source \in Sources /\ text \in Texts /\ stage \in Stages
  /\ announced \in Nat
  /\ \A bytes \in {script, wire, received} : Len(bytes) <= 6 * MaxText
  /\ shown \in Texts \union {<<>>, Garbled}

ContentInit ==
  /\ source \in Sources /\ text \in Texts
  /\ stage = "text"
  /\ script = <<>> /\ announced = 0 /\ wire = <<>> /\ received = <<>> /\ shown = <<>>

\* The text is checked by RubyScript.fromContent, the file by nobody.
Create ==
  /\ stage = "text"
  /\ source # "embedded" => NotBlank(text)
  /\ script' = Strndup(Bytes(source, text), Size(source, text))
  /\ stage' = "made"
  /\ UNCHANGED <<source, text, announced, wire, received, shown>>

Reject ==
  /\ stage = "text" /\ source # "embedded" /\ ~NotBlank(text)
  /\ stage' = "rejected"
  /\ UNCHANGED <<source, text, script, announced, wire, received, shown>>

\* Variant: the final NUL is taken for a part of the length.
SendCountingNul ==
  /\ stage = "made" /\ source # "embedded"
  /\ announced' = Len(CString(script)) - 1
  /\ wire' = CString(script)
  /\ stage' = "sent"
  /\ UNCHANGED <<source, text, script, received, shown>>

Send ==
  /\ stage = "made" /\ source # "embedded"
  /\ announced' = Len(CString(script))
  /\ wire' = CString(script)
  /\ stage' = "sent"
  /\ UNCHANGED <<source, text, script, received, shown>>

\* The loop's script is an argument of ruby, not sent.
PassAsArgument ==
  /\ stage = "made" /\ source = "embedded"
  /\ received' = CString(script)
  /\ stage' = "received"
  /\ UNCHANGED <<source, text, script, announced, wire, shown>>

Receive ==
  /\ stage = "sent" /\ announced \in 1..MaxLength /\ Len(wire) >= announced
  /\ received' = SubSeq(wire, 1, announced)
  /\ wire' = SubSeq(wire, announced + 1, Len(wire))
  /\ stage' = "received"
  /\ UNCHANGED <<source, text, script, announced, shown>>

RefuseLength ==
  /\ stage = "sent" /\ announced \notin 1..MaxLength
  /\ stage' = "refused"
  /\ UNCHANGED <<source, text, script, announced, wire, received, shown>>

\* The listener gets a C string: NewStringUTF takes JNI's encoding, toKString
\* UTF-8.
Show(bytes) ==
  shown' = Decode(CString(bytes), IF source = "jvm" THEN JniSize ELSE Utf8Size)

\* Ruby puts the bytes of its script out as they came, a string literal say.
Echo ==
  /\ stage = "received" /\ source # "embedded"
  /\ Show(received)
  /\ stage' = "echoed"
  /\ UNCHANGED <<source, text, script, announced, wire, received>>

\* Ruby puts out a text of its own making, in UTF-8.
Puts ==
  /\ stage = "received" /\ source # "embedded"
  /\ Show(Utf8(text))
  /\ stage' = "printed"
  /\ UNCHANGED <<source, text, script, announced, wire, received>>

ContentNext ==
  \/ Create \/ Reject \/ Send \/ PassAsArgument \/ Receive \/ RefuseLength
  \/ Echo \/ Puts

ContentSpec == ContentInit /\ [][ContentNext]_contentVars

-----------------------------------------------------------------------------

Has(t, characters) == \E i \in DOMAIN t : t[i] \in characters

\* The texts that reach Ruby as they are.
Survives(s, t) ==
  CASE s = "jvm"      -> ~Has(t, {"nul", "emoji"})
    [] s = "native"   -> ~Has(t, {"nul", "latin", "cjk", "emoji"})
    [] s = "embedded" -> ~Has(t, {"nul"})

\* Safety: Ruby gets the bytes of the text in UTF-8, each of them and no byte
\* more, exactly when it has none of the characters its way has trouble with.
ArrivesWhenItSurvives ==
  stage = "received" => (received = Utf8(text) <=> Survives(source, text))

\* Safety: a text that Kotlin has accepted is refused by the loop only when
\* its first NUL leaves nothing of it, on Kotlin/Native.
RefusedOnlyWhenEmptied ==
  stage = "refused" /\ announced <= MaxLength => source = "native" /\ text[1] = "nul"

\* Safety: a script on the JVM loses no character, and a script on
\* Kotlin/Native is cut and not mangled.
CutOrMangledNotBoth ==
  stage = "received" =>
    /\ source = "jvm" => received = Encode(text, JniSize)
    /\ source = "native" => IsPrefix(received, Utf8(text))

\* Safety: what a script on the JVM prints of itself comes back as it was, for
\* the listener takes the same encoding that the script was given; what Ruby
\* makes does not when it has a NUL or a supplementary character.
OutputOnTheJvm ==
  source = "jvm" =>
    /\ stage = "echoed" => shown = text
    /\ stage = "printed" => (shown = text <=> ~Has(text, {"nul", "emoji"}))

-----------------------------------------------------------------------------

\* Safety: the content of a RubyScript is the Ruby source code given to
\* fromContent (RubyScript.kt:19).
ScriptIsTheSource == stage = "received" => received = Utf8(text)
=============================================================================
