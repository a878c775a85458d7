------------------------------ MODULE JniBridge ------------------------------
(***************************************************************************)
(* ruby_vm_jni.c and the Kotlin classes above it, or the Kotlin/Native     *)
(* classes, which call the interpreter themselves: what they lend to it    *)
(* (the content of a script, the context of a completion callback, the     *)
(* context of a log listener), and when they take it back.  A StableRef is *)
(* the context on Kotlin/Native.                                           *)
(*                                                                         *)
(* Memory that is used after it was freed, or a null VM that is followed,  *)
(* is a fault, after which anything may happen: the model stops there.     *)
(*                                                                         *)
(* Nothing in the code makes a client wait.  A client is Careful when it   *)
(*   - makes its calls of enqueue one after the other,                     *)
(*   - destroys a script only after its callback,                          *)
(*   - destroys an interpreter only when another one has taken over the    *)
(*     log listener of the VM and no line is being delivered to it, and    *)
(*   - enables logging only on an interpreter that has enqueued a script.  *)
(* Other clients destroy an interpreter at any time, and a script before   *)
(* its call of enqueue or after; the Kotlin classes see to it that each is *)
(* destroyed once and that a destroyed interpreter is not called again.    *)
(***************************************************************************)
EXTENDS GlobalInterpreter

CONSTANT Careful

ASSUME CarefulAssumption == Careful \in BOOLEAN

VARIABLES
  binding,     \* "jni" or "native": how Kotlin calls the interpreter
  jni,         \* where enqueueScript is, for each call
  context,     \* the CompletionCallbackContext of each call
  kotlin,      \* the codes the Kotlin callback of each call has got
  scriptAlive, \* the RubyScript of each call has not been destroyed
  born,        \* interpreters that have been created, or could not be
  alive,       \* interpreters, with their listener contexts, not destroyed
  logTo,       \* the VM the log callbacks were set up with, if any
  delivering,  \* the interpreters a log line is being delivered to
  fault        \* what was used after it was freed, or null

lent == <<context, kotlin, scriptAlive>>
listening == <<born, alive, logTo, delivering>>
jniVars == <<binding, jni, lent, listening, fault>>
bridgeVars == <<globalVars, jniVars>>

Off == "off"

BridgeTypeOK ==
  /\ GlobalTypeOK
  /\ binding \in {"jni", "native"}
  /\ jni \in [Calls -> {"new", "inside", "left"}]
  /\ context \in [Calls -> {"none", "live", "freed"}]
  /\ kotlin \in [Calls -> Seq(Codes)]
  /\ scriptAlive \in [Calls -> BOOLEAN]
  /\ born \subseteq Interpreters /\ alive \subseteq born
  /\ logTo \in VM \union {Off}
  /\ delivering \subseteq Interpreters
  /\ fault \subseteq {"context", "script", "destroyed script", "interpreter", "listener", "null"}

BridgeInit ==
  /\ GlobalInit
  /\ binding \in {"jni", "native"}
  /\ jni = [c \in Calls |-> "new"]
  /\ context = [c \in Calls |-> "none"]
  /\ kotlin = [c \in Calls |-> <<>>]
  /\ scriptAlive = [c \in Calls |-> TRUE]
  /\ born = {} /\ alive = {}
  /\ logTo = Off /\ delivering = {}
  /\ fault = {}

Notify(c, code) == kotlin' = [kotlin EXCEPT ![c] = Append(@, code)]

Blame(what, condition) ==
  fault' = fault \union (IF condition THEN {what} ELSE {})

-----------------------------------------------------------------------------
(* enqueueScript.                                                          *)

Calm == \A d \in Calls : jni[d] # "inside"

\* The completion context is made and the interpreter is called.  Neither
\* binding notices that the script has been destroyed.
EnterEnqueue(c) ==
  /\ jni[c] = "new" /\ InterpreterOf[c] \in alive
  /\ Careful => Calm
  /\ jni' = [jni EXCEPT ![c] = "inside"]
  /\ context' = [context EXCEPT ![c] = "live"]
  /\ Blame("destroyed script", ~scriptAlive[c])
  /\ UNCHANGED <<globalVars, kotlin, scriptAlive, listening, binding>>

\* No completion context, on the JVM: nothing is enqueued, and the callback is
\* told at once unless its method cannot be looked up.
ContextFails(c) ==
  /\ jni[c] = "new" /\ InterpreterOf[c] \in alive
  /\ binding = "jni" /\ Refuse
  /\ jni' = [jni EXCEPT ![c] = "left"]
  /\ Notify(c, 1) \/ UNCHANGED kotlin
  /\ UNCHANGED <<global, vmVars, vmOf, callVars, scriptVars, crashed, overlap, lost,
                 context, scriptAlive, listening, fault, binding>>

\* Variant: Kotlin is told of failures only.
CompletionCallbackOnFailure(c, attached) ==
  IF told'[c] = told[c]
  THEN UNCHANGED <<context, kotlin>>
  ELSE LET code == told'[c][Len(told'[c])] IN
       /\ context' = [context EXCEPT ![c] = "freed"]
       /\ IF attached /\ code # 0 THEN Notify(c, code) ELSE UNCHANGED kotlin

\* jni_completion_callback, where the native step of c invokes it: Kotlin is
\* told unless the thread cannot be attached, and the context is freed.
CompletionCallback(c, attached) ==
  IF told'[c] = told[c]
  THEN UNCHANGED <<context, kotlin>>
  ELSE /\ context' = [context EXCEPT ![c] = "freed"]
       /\ IF attached THEN Notify(c, told'[c][Len(told'[c])]) ELSE UNCHANGED kotlin

ContextMisused(c) == told'[c] # told[c] /\ context[c] # "live"

\* The steps of ruby_interpreter_enqueue that read the interpreter.
ReadsInterpreter == {"creating", "remembering", "starting", "spawning", "adopting"}

\* On the caller's thread, which is attached already.
NativeCall(c) ==
  /\ jni[c] = "inside"
  /\ CallStep(c)
  /\ CompletionCallback(c, TRUE)
  /\ Blame("interpreter",
           at[c] \in ReadsInterpreter /\ InterpreterOf[c] \notin alive)
  /\ UNCHANGED <<jni, scriptAlive, listening, binding>>

\* Variant: the context is freed when the call is over.
LeaveEnqueueFreeing(c) ==
  /\ jni[c] = "inside" /\ returned[c] = {0}
  /\ jni' = [jni EXCEPT ![c] = "left"]
  /\ context' = [context EXCEPT ![c] = "freed"]
  /\ Blame("context", context[c] # "live")
  /\ UNCHANGED <<globalVars, kotlin, scriptAlive, listening, binding>>

\* Variant: Kotlin is told that the script has been accepted.
LeaveEnqueueTelling(c) ==
  /\ jni[c] = "inside" /\ returned[c] = {0}
  /\ jni' = [jni EXCEPT ![c] = "left"]
  /\ Notify(c, 0)
  /\ UNCHANGED <<globalVars, context, scriptAlive, listening, fault, binding>>

\* Kotlin/Native does not look at the result.
LeaveEnqueue(c) ==
  /\ jni[c] = "inside"
  /\ returned[c] = {0} \/ (binding = "native" /\ returned[c] # {})
  /\ jni' = [jni EXCEPT ![c] = "left"]
  /\ UNCHANGED <<globalVars, lent, listening, fault, binding>>

\* ruby_vm_jni.c does: Kotlin is told of an error through the context, and the
\* context is freed.
LeaveWithError(c) ==
  /\ jni[c] = "inside" /\ returned[c] \notin {{}, {0}} /\ binding = "jni"
  /\ jni' = [jni EXCEPT ![c] = "left"]
  /\ Blame("context", context[c] # "live")
  /\ \/ Notify(c, CHOOSE code \in returned[c] : TRUE)
     \/ context[c] # "live" /\ UNCHANGED kotlin
  /\ context' = [context EXCEPT ![c] = "freed"]
  /\ UNCHANGED <<globalVars, scriptAlive, listening, binding>>

-----------------------------------------------------------------------------
(* The script thread of a call.                                            *)

NativeScript(c) ==
  /\ ScriptStep(c)
  /\ CompletionCallback(c, TRUE)
  /\ IF script[c] = "queued"
     THEN Blame("script", ~scriptAlive[c])
     ELSE Blame("context", ContextMisused(c))
  /\ UNCHANGED <<jni, scriptAlive, listening, binding>>

\* The JVM refuses the thread: Kotlin is not told.
NativeScriptDetached(c) ==
  /\ binding = "jni" /\ Answered(c) /\ Refuse
  /\ CompletionCallback(c, FALSE)
  /\ Blame("context", ContextMisused(c))
  /\ UNCHANGED <<jni, scriptAlive, listening, binding>>

-----------------------------------------------------------------------------
(* Scripts, interpreters, logging, and the log lines.                      *)

DestroyScript(c) ==
  /\ scriptAlive[c] /\ jni[c] # "inside"
  /\ Careful => kotlin[c] # <<>>
  /\ scriptAlive' = [scriptAlive EXCEPT ![c] = FALSE]
  /\ UNCHANGED <<globalVars, jni, context, kotlin, listening, fault, binding>>

\* The listener's context is made, then the interpreter.
CreateInterpreter(i) ==
  /\ i \notin born
  /\ born' = born \union {i} /\ alive' = alive \union {i}
  /\ UNCHANGED <<globalVars, jni, lent, logTo, delivering, fault, binding>>

\* What was made is freed, and Kotlin throws.
CreateInterpreterFails(i) ==
  /\ i \notin born /\ Refuse
  /\ born' = born \union {i}
  /\ UNCHANGED <<global, vmVars, vmOf, callVars, scriptVars, crashed, overlap, lost,
                 jni, lent, alive, logTo, delivering, fault, binding>>

\* The VM keeps its copy of the listener, with the context that is freed.
DestroyInterpreter(i) ==
  /\ i \in alive
  /\ Careful =>
       /\ \A c \in Calls : jni[c] = "inside" => InterpreterOf[c] # i
       /\ \A v \in Calls : i \notin listener[v]
       /\ i \notin delivering
  /\ alive' = alive \ {i}
  /\ UNCHANGED <<globalVars, jni, lent, born, logTo, delivering, fault, binding>>

\* The VM of the interpreter may be null: JNI does not check, Kotlin/Native
\* goes through ruby_interpreter_enable_logging, which does.
MayEnableLogging(i) ==
  /\ i \in alive
  /\ Careful \/ binding = "native" => vmOf[i] # NoVM

EnableLogging(i) ==
  /\ MayEnableLogging(i)
  /\ logTo' = vmOf[i]
  /\ UNCHANGED <<globalVars, jni, lent, born, alive, delivering, fault, binding>>

\* Logging cannot start: the callbacks stay set up, and the error is written
\* to the VM.
EnableLoggingFails(i) ==
  /\ MayEnableLogging(i) /\ Refuse
  /\ logTo' = vmOf[i]
  /\ Blame("null", vmOf[i] = NoVM)
  /\ error' = [v \in Calls |-> IF v = vmOf[i] THEN -4 ELSE error[v]]
  /\ UNCHANGED <<global, started, channel, rubies, listener, vmOf, callVars,
                 scriptVars, crashed, overlap, lost, jni, lent, born, alive,
                 delivering, binding>>

\* Kotlin/Native only: the pump is joined.
DisableLogging(i) ==
  /\ binding = "native" /\ i \in alive /\ vmOf[i] # NoVM
  /\ logTo # Off /\ delivering = {}
  /\ logTo' = Off
  /\ UNCHANGED <<globalVars, jni, lent, born, alive, delivering, fault, binding>>

\* native_log_callbacks takes the listener of its VM at the time.
LogLine ==
  /\ logTo # Off /\ delivering = {}
  /\ delivering' = IF logTo = NoVM THEN {} ELSE listener[logTo]
  /\ Blame("null", logTo = NoVM)
  /\ UNCHANGED <<globalVars, jni, lent, born, alive, logTo, binding>>

\* jni_log_accept_callback, jni_log_error_callback: Kotlin gets the line
\* through the context of the listener.
Deliver(i) ==
  /\ i \in delivering
  /\ delivering' = {}
  /\ Blame("listener", i \notin alive)
  /\ UNCHANGED <<globalVars, jni, lent, born, alive, logTo, binding>>

-----------------------------------------------------------------------------

Client ==
  \/ \E c \in Calls : EnterEnqueue(c) \/ ContextFails(c) \/ DestroyScript(c)
  \/ \E i \in Interpreters :
       \/ CreateInterpreter(i) \/ CreateInterpreterFails(i) \/ DestroyInterpreter(i)
       \/ EnableLogging(i) \/ EnableLoggingFails(i) \/ DisableLogging(i)

Native ==
  \E c \in Calls : \/ NativeCall(c) \/ LeaveEnqueue(c) \/ LeaveWithError(c)
                   \/ NativeScript(c)

Sound == fault = {} /\ ~crashed

BridgeNext ==
  \/ Sound /\ Client
  \/ Sound /\ Native
  \/ Sound /\ \E c \in Calls : NativeScriptDetached(c)
  \/ Sound /\ (LogLine \/ \E i \in Interpreters : Deliver(i))

BridgeSpec == BridgeInit /\ [][BridgeNext]_bridgeVars

\* What the thread of a call, and then its script thread, do by themselves.  A
\* script thread may wait for the script that has the channel, and after that
\* for the answer of Ruby: neither is promised.
Thread(c) ==
  \/ NativeCall(c) \/ LeaveEnqueue(c) \/ LeaveWithError(c)
  \/ script[c] = "queued" /\ (\A d \in Calls : script[d] # "sent") /\ NativeScript(c)

\* Every thread that is in native code and does not wait goes on.
BridgeFairSpec == BridgeSpec /\ \A c \in Calls : WF_bridgeVars(Sound /\ Thread(c))

-----------------------------------------------------------------------------

\* Safety: a careful client meets one fault only, on the JVM, and only when
\* the interpreter has returned an error: the context used twice.
CarefulClientSafe ==
  fault # {} =>
    binding = "jni" /\ fault = {"context"} /\ \E c \in Calls : returned[c] \notin {{}, {0}}

\* Kotlin has not been told of a call, and the JVM has refused something.
Untold(c) == kotlin[c] = <<>> /\ binding = "jni" /\ failures > 0

\* Safety: without a fault, Kotlin is told once at most, and exactly what the
\* interpreter told the completion task, at once; only the JVM, when it
\* refuses the script thread, keeps Kotlin in the dark.
KotlinToldOnce ==
  fault = {} => \A c \in Calls :
    Len(kotlin[c]) <= 1 /\ (told[c] # <<>> => kotlin[c] = told[c] \/ Untold(c))

\* Safety: a completion context that enqueueScript leaves behind is one that
\* a script thread is going to free, and nobody frees it earlier.
ContextOutlivesScript ==
  \A c \in Calls :
    /\ jni[c] = "left" /\ context[c] = "live" => script[c] \in {"queued", "sent"}
    /\ script[c] \in {"queued", "sent"} => context[c] = "live"

\* Ruby answers every script it is sent: again and again there is none that it
\* has not answered.
RubyAnswers == []<>(~Sound \/ \A c \in Calls : script[c] # "sent")

\* Liveness: if Ruby answers every script it is sent, then Kotlin is told of
\* every call of enqueue, whatever was refused on the way, unless memory was
\* misused or the JVM refused the script thread when the answer had come.
KotlinTold ==
  RubyAnswers =>
    \A c \in Calls :
      jni[c] = "inside" ~> (kotlin[c] # <<>> \/ ~Sound \/ (script[c] = "over" /\ Untold(c)))

-----------------------------------------------------------------------------
(* What a comment or the documentation says and the code does not keep.    *)

\* Safety: a completion context is not used after the completion callback
\* has freed it (jni_completion_callback).
ContextUsedOnce == "context" \notin fault

\* Safety: a script may be destroyed once enqueue has returned (README.md,
\* the examples).
ScriptMayBeDestroyed == "script" \notin fault
-----------------------------------------------------------------------------
(* The inductive invariants behind the first three properties.             *)

\* The completion context of a call lives from enqueueScript until the task of
\* the call has been told; a call whose context could not be made has none.
ContextOf(c) ==
  IF jni[c] = "new" \/ (jni[c] = "left" /\ at[c] = "idle") THEN "none"
  ELSE IF told[c] = <<>> THEN "live" ELSE "freed"

\* Without a fault Kotlin has been told what the task has been told, or is
\* not going to be; or of the context that could not be made.
KotlinFollows(c) ==
  /\ jni[c] = "new" => kotlin[c] = <<>>
  /\ context[c] = "none" => Len(kotlin[c]) <= 1
  /\ context[c] = "live" => kotlin[c] = <<>>
  /\ context[c] = "freed" => kotlin[c] = told[c] \/ Untold(c)

LentInv ==
  \A c \in Calls :
    /\ jni[c] = "new" => at[c] = "idle"
    /\ jni[c] = "left" => at[c] \in {"idle", "returned"}
    /\ context[c] = ContextOf(c)
    /\ fault = {} => KotlinFollows(c)

BridgeInv == BridgeTypeOK /\ ToldInv /\ LentInv

\* What a careful client keeps alive.
CarefulInv ==
  /\ \A c \in Calls : ~scriptAlive[c] => jni[c] = "left" /\ kotlin[c] # <<>>
  /\ \A c \in Calls : jni[c] = "inside" => InterpreterOf[c] \in alive
  /\ \A v \in Calls : listener[v] \subseteq alive
  /\ delivering \subseteq alive
  /\ logTo # NoVM
  /\ CarefulClientSafe
=============================================================================
