--------------------------- MODULE FifoInterpreter ---------------------------
(***************************************************************************)
(* The thread that runs the embedded Ruby VM: main_thread_func and         *)
(* ExecMainRubyVM, then the loop of fifo_interpreter.rb.                   *)
(*                                                                         *)
(* The loop reads a length, reads that many bytes, evaluates them and      *)
(* answers "0\n" or "1\n".  What the evaluation does is the environment's  *)
(* choice among Outcomes:                                                  *)
(*   "ok"      it returns,                                                 *)
(*   "error"   it raises a ScriptError or a StandardError,                 *)
(*   "exit"    it raises something the loop does not rescue (SystemExit,   *)
(*             SystemStackError, NoMemoryError), which ends the VM; Ruby's *)
(*             finalizers then close second_fd,                            *)
(*   "kill"    it ends the process: exit!, exec, a signal, the crash of an *)
(*             extension,                                                  *)
(*   "hang"    it never returns.                                           *)
(* Whatever it does, it may have closed STDOUT or STDERR, so that the next *)
(* puts of the loop on that stream raises IOError.                         *)
(***************************************************************************)
EXTENDS CommChannel

CONSTANTS
  MaxLength,        \* the 10_000_000 of the length check
  Outcomes,         \* how an evaluation may end
  MayClose,         \* an evaluation may close STDOUT and STDERR
  MayFailInstall    \* install_embedded_files may fail

ASSUME InterpreterAssumption ==
  /\ MaxLength \in Nat \ {0}
  /\ Outcomes \subseteq {"ok", "error", "exit", "kill", "hang"}
  /\ MayClose \in BOOLEAN /\ MayFailInstall \in BOOLEAN

VARIABLES
  rb,          \* where the VM thread is
  glued,       \* gets holds text of a line whose newline has not come yet
  need,        \* units that socket.read still waits for
  loaded,      \* units that socket.read has got
  turn,        \* the request whose prefix, or stray line, was taken last
  outputs,     \* of STDOUT and STDERR of the VM, those that are open
  verdict      \* what Ruby first concluded about each request

rubyVars == <<rb, glued, need, loaded, turn, outputs, verdict>>

NoRequest == "none"

\* "none" stands for the absence of a request, and is none of them.
ASSUME NoRequestAssumption == NoRequest \notin Requests

RubyState == {"boot", "absent", "gets", "read", "announce", "eval", "hung",
              "success", "confirm", "failure", "over"}

Verdict == {"none", "ok", "error", "exit", "kill"}

Output == {"stdout", "stderr"}

FifoInterpreterTypeOK ==
  /\ rb \in RubyState
  /\ glued \in BOOLEAN
  /\ outputs \in SUBSET Output
  /\ need \in Nat
  /\ loaded \in Seq(Unit)
  /\ turn \in Requests \union {NoRequest}
  /\ verdict \in [Requests -> Verdict]

FifoInterpreterInit ==
  /\ rb = "boot"
  /\ glued = FALSE /\ need = 0 /\ loaded = <<>>
  /\ turn = NoRequest
  /\ outputs = Output
  /\ verdict = [r \in Requests |-> "none"]

\* What Ruby first concludes about a request stands in its ghost.
Conclude(r, v) ==
  verdict' = IF verdict[r] = "none" THEN [verdict EXCEPT ![r] = v] ELSE verdict

-----------------------------------------------------------------------------
(* Start of the VM thread.                                                 *)

\* Variant: a failed installation closes second_fd.
InstallFailsClosing ==
  /\ rb = "boot" /\ MayFailInstall
  /\ rb' = "absent" /\ rubyOpen' = FALSE
  /\ UNCHANGED <<toRuby, toC, glued, need, loaded, turn, outputs, verdict>>

\* The files are installed, Ruby is initialised and the loop is entered.
Boot ==
  /\ rb = "boot"
  /\ rb' = "gets"
  /\ UNCHANGED <<channelVars, glued, need, loaded, turn, outputs, verdict>>

\* ExecMainRubyVM returns -1: the thread ends and leaves second_fd open.
InstallFails ==
  /\ rb = "boot" /\ MayFailInstall
  /\ rb' = "absent"
  /\ UNCHANGED <<channelVars, glued, need, loaded, turn, outputs, verdict>>

-----------------------------------------------------------------------------
(* length_line = socket.gets.  Text that follows an unended line is part   *)
(* of the same line: what that line then reads as is up to the two parts,  *)
(* a numeral after a numeral or a blank, say, being a numeral.             *)

Readings ==
  IF glued THEN {Text, LineOf(Head(toRuby))} \union 0..MaxLength + 1
           ELSE {LineOf(Head(toRuby))}

TakeLine ==
  /\ rb = "gets" /\ toRuby # <<>> /\ LineOf(Head(toRuby)) # Unended
  /\ toRuby' = Tail(toRuby)
  /\ glued' = FALSE
  /\ UNCHANGED <<toC, outputs>>

\* The VM ends and its finalizers close second_fd.
EndOfVM == rb' = "over" /\ rubyOpen' = FALSE

\* A piece of a line with no newline: gets keeps it and goes on reading.
GetsPiece ==
  /\ rb = "gets" /\ toRuby # <<>> /\ LineOf(Head(toRuby)) = Unended
  /\ toRuby' = Tail(toRuby)
  /\ glued' = TRUE
  /\ UNCHANGED <<toC, rubyOpen, rb, need, loaded, turn, outputs, verdict>>

\* next if length_str.empty?
GetsBlank ==
  /\ TakeLine /\ Blank \in Readings
  /\ UNCHANGED <<rubyOpen, rb, need, loaded, turn, verdict>>

\* strip refuses a line whose bytes are no valid text: the outer rescue
\* exits, and nothing is answered.
GetsRaises ==
  /\ TakeLine /\ Text \in Readings
  /\ turn' = Head(toRuby).of
  /\ EndOfVM /\ Conclude(turn', "exit")
  /\ UNCHANGED <<need, loaded>>

\* Variant: the length check lets zero through.
ValidLengthOrZero(n) == n \in Nat /\ n <= MaxLength

ValidLength(n) == n \in Nat /\ n > 0 /\ n <= MaxLength

RefusedLength == \E l \in Readings : l # Blank /\ ~ValidLength(l)

\* Variant: the loop skips a refused length without an answer.
GetsInvalidSilently ==
  /\ TakeLine /\ RefusedLength
  /\ turn' = Head(toRuby).of
  /\ Conclude(turn', "error")
  /\ UNCHANGED <<rubyOpen, rb, need, loaded>>

\* Not an Integer, or out of range: "1\n" is sent for the line alone; the
\* script that may follow it stays on the socket.
GetsInvalid ==
  /\ TakeLine /\ RefusedLength
  /\ turn' = Head(toRuby).of
  /\ rb' = "failure"
  /\ Conclude(turn', "error")
  /\ UNCHANGED <<rubyOpen, need, loaded>>

GetsLength ==
  /\ TakeLine
  /\ \E n \in Readings : ValidLength(n) /\ need' = n
  /\ turn' = Head(toRuby).of
  /\ rb' = "read"
  /\ loaded' = <<>>
  /\ UNCHANGED <<rubyOpen, verdict>>

-----------------------------------------------------------------------------
(* socket.read(script_length), the evaluation, and the answer.             *)

\* Variant: the read stops one unit short.
ReadUnitShort ==
  /\ rb = "read" /\ toRuby # <<>>
  /\ toRuby' = Tail(toRuby)
  /\ loaded' = Append(loaded, Head(toRuby))
  /\ need' = need - 1
  /\ rb' = IF need <= 2 THEN "announce" ELSE "read"
  /\ UNCHANGED <<toC, rubyOpen, glued, turn, outputs, verdict>>

ReadUnit ==
  /\ rb = "read" /\ toRuby # <<>>
  /\ toRuby' = Tail(toRuby)
  /\ loaded' = Append(loaded, Head(toRuby))
  /\ need' = need - 1
  /\ rb' = IF need = 1 THEN "announce" ELSE "read"
  /\ UNCHANGED <<toC, rubyOpen, glued, turn, outputs, verdict>>

\* STDOUT.puts before the evaluation, outside the inner begin.
Announce ==
  /\ rb = "announce" /\ "stdout" \in outputs
  /\ rb' = "eval"
  /\ UNCHANGED <<channelVars, glued, need, loaded, turn, outputs, verdict>>

AnnounceRaises ==
  /\ rb = "announce" /\ "stdout" \notin outputs
  /\ EndOfVM
  /\ Conclude(turn, "exit")
  /\ UNCHANGED <<toRuby, toC, glued, need, loaded, turn, outputs>>

Evaluation(outcome) ==
  /\ rb = "eval" /\ outcome \in Outcomes
  /\ IF MayClose THEN outputs' \in SUBSET outputs ELSE UNCHANGED outputs
  /\ UNCHANGED <<toRuby, toC, glued, need, loaded, turn>>

EvalReturns ==
  /\ Evaluation("ok")
  /\ rb' = "success" /\ Conclude(turn, "ok")
  /\ UNCHANGED rubyOpen

\* Variant: the rescue clause reports success.
EvalRaisesUnreported ==
  /\ Evaluation("error")
  /\ rb' = "success" /\ Conclude(turn, "error")
  /\ UNCHANGED rubyOpen

EvalRaises ==
  /\ Evaluation("error")
  /\ rb' = "failure" /\ Conclude(turn, "error")
  /\ UNCHANGED rubyOpen

EvalExits ==
  /\ Evaluation("exit")
  /\ EndOfVM /\ Conclude(turn, "exit")

\* The kernel closes second_fd with everything else of the process.
EvalKills ==
  /\ Evaluation("kill")
  /\ EndOfVM /\ Conclude(turn, "kill")

EvalHangs ==
  /\ Evaluation("hang")
  /\ rb' = "hung"
  /\ UNCHANGED <<rubyOpen, verdict>>

AnswerSuccess ==
  /\ rb = "success"
  /\ WriteAnswer(0, turn)
  /\ rb' = "confirm"
  /\ UNCHANGED <<toRuby, rubyOpen, glued, need, loaded, turn, outputs, verdict>>

\* Variant: a successful script is answered a second time.
ConfirmAnsweringAgain ==
  /\ rb = "confirm"
  /\ rb' = "failure"
  /\ UNCHANGED <<channelVars, glued, need, loaded, turn, outputs, verdict>>

\* STDOUT.puts after the answer, inside the inner begin: when it raises, the
\* rescue clause answers again.
Confirm ==
  /\ rb = "confirm"
  /\ rb' = IF "stdout" \in outputs THEN "gets" ELSE "failure"
  /\ UNCHANGED <<channelVars, glued, need, loaded, turn, outputs, verdict>>

\* What went wrong is put on STDERR, and then the answer is sent.
AnswerFailure ==
  /\ rb = "failure" /\ "stderr" \in outputs
  /\ WriteAnswer(1, turn)
  /\ rb' = "gets"
  /\ UNCHANGED <<toRuby, rubyOpen, glued, need, loaded, turn, outputs, verdict>>

\* STDERR.puts raises, and raises again in the outer rescue: no answer.
FailureRaises ==
  /\ rb = "failure" /\ "stderr" \notin outputs
  /\ EndOfVM
  /\ Conclude(turn, "exit")
  /\ UNCHANGED <<toRuby, toC, glued, need, loaded, turn, outputs>>

Loop ==
  \/ GetsPiece \/ GetsBlank \/ GetsRaises \/ GetsInvalid \/ GetsLength \/ ReadUnit
  \/ Announce \/ AnnounceRaises
  \/ EvalReturns \/ EvalRaises \/ EvalExits \/ EvalHangs
  \/ AnswerSuccess \/ Confirm \/ AnswerFailure \/ FailureRaises

RubyStep == Boot \/ InstallFails \/ Loop
=============================================================================
