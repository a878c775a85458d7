---------------------------- MODULE JniBridgeProofs ----------------------------
(***************************************************************************)
(* What the bindings lend to the interpreter and take back: for any number *)
(* of calls and interpreters, either binding, and any number of refusals.  *)
(*                                                                         *)
(* BridgeInv ties the completion context of a call to what ToldInv says of *)
(* its task: the context lives exactly until the task has been told.       *)
(***************************************************************************)
EXTENDS JniBridge, GlobalInterpreterProofs, SequenceTheorems

(***************************************************************************)
(* The interpreter under the bridge.                                       *)
(***************************************************************************)

\* A refusal of something the bridge needs keeps the types.
LEMMA RefusedAside ==
  ASSUME ToldInv, Refuse, UNCHANGED <<global, vmVars, vmOf, callVars, scriptVars, crashed, overlap, lost>>
  PROVE  ToldInv'
BY GlobalAssumption DEF ToldInv, GlobalTypeOK, CallTold, Refuse, vmVars, callVars, scriptVars

\* Whatever Kotlin does, a task is told as ToldInv says.
LEMMA BridgeTells ==
  ASSUME ToldInv, BridgeNext
  PROVE  ToldInv'
  <1>1. CASE UNCHANGED globalVars
    BY <1>1 DEF globalVars, vmVars, callVars, scriptVars, ToldInv, GlobalTypeOK, CallTold
  <1>2. ASSUME NEW c \in Calls, NativeCall(c) \/ NativeScript(c)
        PROVE  ToldInv'
    <2>1. CallStep(c) \/ ScriptStep(c)
      BY <1>2 DEF NativeCall, NativeScript
    <2>2. GlobalTypeOK'
      BY <2>1, CallTypes, ScriptTypes DEF ToldInv
    <2>3. QED
      BY <2>1, <2>2, CallTells, ScriptTells DEF ToldInv
  <1>3. ASSUME NEW c \in Calls, NativeScriptDetached(c)
        PROVE  ToldInv'
    <2>1. Answered(c) /\ Refuse
      BY <1>3 DEF NativeScriptDetached
    <2>2. failures' \in 0..MaxFailures
      BY <2>1, GlobalAssumption DEF ToldInv, GlobalTypeOK, Refuse
    <2>3. GlobalTypeOK'
      BY <2>1, <2>2, AnsweredTypes DEF ToldInv
    <2>4. QED
      BY <2>1, <2>3, AnsweredTells DEF ToldInv
  <1>4. ASSUME NEW c \in Calls, ContextFails(c)
        PROVE  ToldInv'
    BY <1>4, RefusedAside DEF ContextFails
  <1>5. ASSUME NEW i \in Interpreters, CreateInterpreterFails(i)
        PROVE  ToldInv'
    BY <1>5, RefusedAside DEF CreateInterpreterFails
  <1>6. ASSUME NEW i \in Interpreters, EnableLoggingFails(i)
        PROVE  ToldInv'
    <2>1. error' \in [Calls -> Codes]
      BY <1>6 DEF EnableLoggingFails, ToldInv, GlobalTypeOK, Codes
    <2>2. failures' \in 0..MaxFailures
      BY <1>6, GlobalAssumption DEF EnableLoggingFails, Refuse, ToldInv, GlobalTypeOK
    <2>3. QED
      BY <1>6, <2>1, <2>2
         DEF EnableLoggingFails, ToldInv, GlobalTypeOK, CallTold, callVars, scriptVars
  <1>7. QED
    BY <1>1, <1>2, <1>3, <1>4, <1>5, <1>6
       DEF BridgeNext, Client, Native, EnterEnqueue, DestroyScript, LeaveEnqueue,
           LeaveWithError, CreateInterpreter, DestroyInterpreter, EnableLogging,
           DisableLogging, LogLine, Deliver

\* A native step moves one call, and tells its task nothing or its first code.
LEMMA NativeMoves ==
  ASSUME ToldInv, NEW c \in Calls, CallStep(c) \/ ScriptStep(c) \/ Answered(c)
  PROVE  /\ \A d \in Calls \ {c} : at'[d] = at[d] /\ told'[d] = told[d]
         /\ \/ told'[c] = told[c]
            \/ told[c] = <<>> /\ \E code \in Codes : told'[c] = <<code>>
  <1>1. at \in [Calls -> Place] /\ told \in [Calls -> Seq(Codes)]
    BY DEF ToldInv, GlobalTypeOK
  <1>2. CASE CallStep(c)
    <2>1. at[c] # "returned"
      BY <1>2 DEF CallStep, Check, BuildFails, Create, CreateNull, TestVM, TestNull, Remember,
           StartOnNull, StartAgain, Start, OpenChannel, OpenFails, Spawn, SpawnFails,
           Adopt, AdoptNull, HandOver
    <2>2. told[c] = <<>>
      BY <2>1 DEF ToldInv, CallTold
    <2>3. \/ told' = told
          \/ \E code \in Codes : told' = [told EXCEPT ![c] = Append(told[c], code)]
      BY <1>2 DEF CallStep, Check, BuildFails, Create, CreateNull, TestVM, TestNull, Remember,
           StartOnNull, StartAgain, Start, OpenChannel, OpenFails, Spawn, SpawnFails,
           Adopt, AdoptNull, HandOver, FailCall, Tell, scriptVars, Codes
    <2>4. \A d \in Calls \ {c} : at'[d] = at[d]
      BY <1>1, <1>2
         DEF CallStep, Check, BuildFails, Create, CreateNull, TestVM, TestNull, Remember, StartOnNull,
             StartAgain, Start, OpenChannel, OpenFails, Spawn, SpawnFails, Adopt,
             AdoptNull, HandOver, FailCall, GoTo, callVars
    <2>5. QED
      BY <1>1, <2>2, <2>3, <2>4
  <1>3. CASE Send(c) \/ SendToNull(c)
    BY <1>3 DEF Send, SendToNull, callVars, scriptVars
  <1>4. CASE Answered(c)
    <2>1. told[c] = <<>> /\ UNCHANGED at
      BY <1>4 DEF Answered, ToldInv, CallTold, callVars
    <2>2. \E code \in Codes : told' = [told EXCEPT ![c] = Append(told[c], code)]
      BY <1>4 DEF Answered, Tell, Codes
    <2>3. QED
      BY <1>1, <2>1, <2>2
  <1>5. QED
    BY <1>2, <1>3, <1>4 DEF ScriptStep, Complete

-----------------------------------------------------------------------------
(***************************************************************************)
(* Types.                                                                  *)
(***************************************************************************)

LEMMA CallbackTypes ==
  ASSUME BridgeTypeOK, ToldInv, ToldInv', NEW c \in Calls, NEW attached \in BOOLEAN,
         CallStep(c) \/ ScriptStep(c) \/ Answered(c), CompletionCallback(c, attached)
  PROVE  /\ context' \in [Calls -> {"none", "live", "freed"}]
         /\ kotlin' \in [Calls -> Seq(Codes)]
  <1>1. /\ context \in [Calls -> {"none", "live", "freed"}]
        /\ kotlin \in [Calls -> Seq(Codes)]
    BY DEF BridgeTypeOK
  <1>2. CASE told'[c] = told[c]
    BY <1>1, <1>2 DEF CompletionCallback
  <1>3. CASE told'[c] # told[c]
    <2>1. PICK code \in Codes : told'[c] = <<code>>
      BY <1>3, NativeMoves
    <2>2. told'[c][Len(told'[c])] = code
      BY <2>1
    <2>3. context' = [context EXCEPT ![c] = "freed"]
      BY <1>3 DEF CompletionCallback
    <2>4. kotlin' = kotlin \/ kotlin' = [kotlin EXCEPT ![c] = Append(kotlin[c], code)]
      BY <1>3, <2>2 DEF CompletionCallback, Notify
    <2>5. kotlin[c] \in Seq(Codes) /\ Append(kotlin[c], code) \in Seq(Codes)
      BY <1>1, AppendProperties
    <2>6. QED
      BY <1>1, <2>3, <2>4, <2>5
  <1>4. QED
    BY <1>2, <1>3

LEMMA BlameType ==
  ASSUME BridgeTypeOK,
         NEW what \in {"context", "script", "destroyed script", "interpreter", "listener", "null"},
         NEW condition, Blame(what, condition)
  PROVE  fault' \subseteq {"context", "script", "destroyed script", "interpreter", "listener", "null"}
BY DEF Blame, BridgeTypeOK

LEMMA BridgeTypes ==
  ASSUME BridgeTypeOK, ToldInv, ToldInv', BridgeNext
  PROVE  BridgeTypeOK'
  <1>1. /\ binding \in {"jni", "native"}
        /\ jni \in [Calls -> {"new", "inside", "left"}]
        /\ context \in [Calls -> {"none", "live", "freed"}]
        /\ kotlin \in [Calls -> Seq(Codes)]
        /\ scriptAlive \in [Calls -> BOOLEAN]
        /\ born \subseteq Interpreters /\ alive \subseteq born
        /\ logTo \in VM \union {Off}
        /\ delivering \subseteq Interpreters
        /\ fault \subseteq {"context", "script", "destroyed script", "interpreter", "listener", "null"}
    BY DEF BridgeTypeOK
  <1>2. /\ GlobalTypeOK' /\ VM' = VM
        /\ vmOf \in [Interpreters -> VM]
        /\ listener \in [Calls -> SUBSET Interpreters]
        /\ returned \in [Calls -> SUBSET Codes]
    BY DEF ToldInv, GlobalTypeOK, VM
  <1>3. ASSUME NEW c \in Calls, NEW code \in Codes, Notify(c, code)
        PROVE  kotlin' \in [Calls -> Seq(Codes)]
    <2>1. kotlin[c] \in Seq(Codes) /\ Append(kotlin[c], code) \in Seq(Codes)
      BY <1>1, AppendProperties
    <2>2. kotlin' = [kotlin EXCEPT ![c] = Append(kotlin[c], code)]
      BY <1>3 DEF Notify
    <2>3. QED
      BY <1>1, <2>1, <2>2
  <1>4. ASSUME NEW c \in Calls, EnterEnqueue(c)
        PROVE  BridgeTypeOK'
    BY <1>1, <1>2, <1>4, BlameType DEF EnterEnqueue, BridgeTypeOK, listening
  <1>5. ASSUME NEW c \in Calls, ContextFails(c)
        PROVE  BridgeTypeOK'
    BY <1>1, <1>2, <1>3, <1>5 DEF ContextFails, BridgeTypeOK, listening, Codes
  <1>6. ASSUME NEW c \in Calls, DestroyScript(c)
        PROVE  BridgeTypeOK'
    BY <1>1, <1>2, <1>6 DEF DestroyScript, BridgeTypeOK, listening
  <1>7. ASSUME NEW i \in Interpreters,
               CreateInterpreter(i) \/ CreateInterpreterFails(i) \/ DestroyInterpreter(i)
        PROVE  BridgeTypeOK'
    BY <1>1, <1>2, <1>7
       DEF CreateInterpreter, CreateInterpreterFails, DestroyInterpreter, BridgeTypeOK, lent
  <1>8. ASSUME NEW i \in Interpreters,
               EnableLogging(i) \/ EnableLoggingFails(i) \/ DisableLogging(i)
        PROVE  BridgeTypeOK'
    <2>1. fault' \subseteq {"context", "script", "destroyed script", "interpreter", "listener", "null"}
      BY <1>1, <1>8, BlameType DEF EnableLogging, EnableLoggingFails, DisableLogging
    <2>2. logTo' \in VM \union {Off}
      BY <1>2, <1>8 DEF EnableLogging, EnableLoggingFails, DisableLogging
    <2>3. QED
      BY <1>1, <1>2, <1>8, <2>1, <2>2
         DEF EnableLogging, EnableLoggingFails, DisableLogging, BridgeTypeOK, lent
  <1>9. ASSUME NEW c \in Calls, NativeCall(c) \/ NativeScript(c) \/ NativeScriptDetached(c)
        PROVE  BridgeTypeOK'
    <2>1. PICK attached \in BOOLEAN : CompletionCallback(c, attached)
      BY <1>9 DEF NativeCall, NativeScript, NativeScriptDetached
    <2>2. CallStep(c) \/ ScriptStep(c) \/ Answered(c)
      BY <1>9 DEF NativeCall, NativeScript, NativeScriptDetached
    <2>3. /\ context' \in [Calls -> {"none", "live", "freed"}]
          /\ kotlin' \in [Calls -> Seq(Codes)]
      BY <2>1, <2>2, CallbackTypes
    <2>4. fault' \subseteq {"context", "script", "destroyed script", "interpreter", "listener", "null"}
      BY <1>9, BlameType DEF NativeCall, NativeScript, NativeScriptDetached
    <2>5. QED
      BY <1>1, <1>2, <1>9, <2>3, <2>4
         DEF NativeCall, NativeScript, NativeScriptDetached, BridgeTypeOK, listening
  <1>10. ASSUME NEW c \in Calls, LeaveEnqueue(c)
         PROVE  BridgeTypeOK'
    BY <1>1, <1>2, <1>10 DEF LeaveEnqueue, BridgeTypeOK, lent, listening
  <1>11. ASSUME NEW c \in Calls, LeaveWithError(c)
         PROVE  BridgeTypeOK'
    <2>1. (CHOOSE code \in returned[c] : TRUE) \in Codes
      BY <1>2, <1>11 DEF LeaveWithError
    <2>2. kotlin' \in [Calls -> Seq(Codes)]
      BY <1>1, <1>3, <1>11, <2>1 DEF LeaveWithError
    <2>3. QED
      BY <1>1, <1>2, <1>11, <2>2, BlameType DEF LeaveWithError, BridgeTypeOK, listening
  <1>12. CASE LogLine
    BY <1>1, <1>2, <1>12, BlameType DEF LogLine, BridgeTypeOK, lent, VM
  <1>13. ASSUME NEW i \in Interpreters, Deliver(i)
         PROVE  BridgeTypeOK'
    BY <1>1, <1>2, <1>13, BlameType DEF Deliver, BridgeTypeOK, lent
  <1>14. QED
    BY <1>4, <1>5, <1>6, <1>7, <1>8, <1>9, <1>10, <1>11, <1>12, <1>13
       DEF BridgeNext, Client, Native
-----------------------------------------------------------------------------
(***************************************************************************)
(* The completion contexts.                                                *)
(***************************************************************************)

\* What the JVM has refused stays refused.
LEMMA RefusalStays ==
  ASSUME ToldInv, BridgeNext
  PROVE  UNCHANGED binding /\ failures' \in Nat /\ (failures > 0 => failures' > 0)
  <1>1. failures \in Nat
    BY GlobalAssumption DEF ToldInv, GlobalTypeOK
  <1>2. failures' = failures \/ failures' = failures + 1
    <2>1. ASSUME NEW c \in Calls, CallStep(c) \/ ScriptStep(c)
          PROVE  failures' = failures \/ failures' = failures + 1
      BY <2>1 DEF CallStep, ScriptStep, Check, BuildFails, Create, CreateNull, TestVM,
           TestNull, Remember, StartOnNull, StartAgain, Start, OpenChannel, OpenFails,
           Spawn, SpawnFails, Adopt, AdoptNull, HandOver, Send, SendToNull, Complete,
           Answered, Refuse
    <2>2. QED
      BY <2>1 DEF BridgeNext, Client, Native, EnterEnqueue, ContextFails, DestroyScript,
           CreateInterpreter, CreateInterpreterFails, DestroyInterpreter, EnableLogging,
           EnableLoggingFails, DisableLogging, NativeCall, LeaveEnqueue, LeaveWithError,
           NativeScript, NativeScriptDetached, LogLine, Deliver, Refuse, globalVars
  <1>3. UNCHANGED binding
    BY DEF BridgeNext, Client, Native, EnterEnqueue, ContextFails, DestroyScript,
         CreateInterpreter, CreateInterpreterFails, DestroyInterpreter, EnableLogging,
         EnableLoggingFails, DisableLogging, NativeCall, LeaveEnqueue, LeaveWithError,
         NativeScript, NativeScriptDetached, LogLine, Deliver
  <1>4. QED
    BY <1>1, <1>2, <1>3

\* Steps that touch neither the contexts nor what they follow.
LEMMA LentKept ==
  ASSUME LentInv, fault = {}, UNCHANGED <<jni, context, kotlin, at, told, binding>>,
         failures > 0 => failures' > 0
  PROVE  LentInv'
BY DEF LentInv, ContextOf, KotlinFollows, Untold

\* A native step of a call that is past enqueueScript's beginning: when its task
\* is told, the context is live, and it is freed with the same step.
LEMMA LentCallback ==
  ASSUME BridgeInv, ToldInv', fault = {}, UNCHANGED jni,
         NEW c \in Calls, NEW attached \in BOOLEAN,
         CallStep(c) \/ ScriptStep(c) \/ Answered(c),
         CompletionCallback(c, attached),
         at[c] = "returned" \/ jni[c] = "inside",
         attached \/ (binding = "jni" /\ failures' > 0),
         UNCHANGED binding, failures > 0 => failures' > 0
  PROVE  LentInv'
  <1>1. /\ context \in [Calls -> {"none", "live", "freed"}]
        /\ kotlin \in [Calls -> Seq(Codes)]
        /\ jni \in [Calls -> {"new", "inside", "left"}]
        /\ at \in [Calls -> Place]
    BY DEF BridgeInv, BridgeTypeOK, ToldInv, GlobalTypeOK
  <1>2. /\ \A d \in Calls \ {c} : at'[d] = at[d] /\ told'[d] = told[d]
        /\ \/ told'[c] = told[c]
           \/ told[c] = <<>> /\ \E code \in Codes : told'[c] = <<code>>
    BY NativeMoves DEF BridgeInv
  <1>3. /\ context' \in [Calls -> {"none", "live", "freed"}]
        /\ kotlin' \in [Calls -> Seq(Codes)]
        /\ \A d \in Calls \ {c} : context'[d] = context[d] /\ kotlin'[d] = kotlin[d]
    <2>1. \A d \in Calls \ {c} : context'[d] = context[d] /\ kotlin'[d] = kotlin[d]
      BY <1>1 DEF CompletionCallback, Notify
    <2>2. QED
      BY <2>1, CallbackTypes DEF BridgeInv
  <1>4. ASSUME NEW d \in Calls \ {c}
        PROVE  /\ jni'[d] = "new" => at'[d] = "idle"
               /\ jni'[d] = "left" => at'[d] \in {"idle", "returned"}
               /\ context'[d] = ContextOf(d)'
               /\ fault' = {} => KotlinFollows(d)'
    BY <1>2, <1>3 DEF BridgeInv, LentInv, ContextOf, KotlinFollows, Untold
  <1>5. /\ jni[c] \in {"inside", "left"}
        /\ jni[c] = "left" => at[c] = "returned" /\ at'[c] = "returned"
    <2>1. jni[c] = "new" => at[c] = "idle"
      BY DEF BridgeInv, LentInv
    <2>2. jni[c] # "new"
      BY <2>1
    <2>3. jni[c] = "left" => at[c] = "returned"
      OBVIOUS
    <2>4. at[c] = "returned" => at'[c] = "returned"
      BY DEF CallStep, Check, BuildFails, Create, CreateNull, TestVM, TestNull, Remember, StartOnNull,
             StartAgain, Start, OpenChannel, OpenFails, Spawn, SpawnFails, Adopt,
             AdoptNull, HandOver, ScriptStep, Send, SendToNull, Complete, Answered,
             callVars
    <2>5. QED
      BY <1>1, <2>2, <2>3, <2>4
  <1>6. context[c] = IF told[c] = <<>> THEN "live" ELSE "freed"
    BY <1>5 DEF BridgeInv, LentInv, ContextOf
  <1>7. KotlinFollows(c)
    BY DEF BridgeInv, LentInv
  <1>8. CASE told'[c] = told[c]
    <2>1. UNCHANGED <<context, kotlin>>
      BY <1>8 DEF CompletionCallback
    <2>2. context'[c] = ContextOf(c)'
      BY <1>5, <1>6, <1>8, <2>1 DEF ContextOf
    <2>3. KotlinFollows(c)'
      BY <1>7, <1>8, <2>1 DEF KotlinFollows, Untold
    <2>4. QED
      BY <1>4, <1>5, <2>2, <2>3 DEF LentInv
  <1>9. CASE told'[c] # told[c]
    <2>1. PICK code \in Codes : told'[c] = <<code>> /\ told[c] = <<>>
      BY <1>2, <1>9
    <2>2. context'[c] = "freed" /\ kotlin[c] = <<>>
      <3>1. context' = [context EXCEPT ![c] = "freed"]
        BY <1>9 DEF CompletionCallback
      <3>2. context[c] = "live"
        BY <1>6, <2>1
      <3>3. kotlin[c] = <<>>
        BY <1>7, <3>2 DEF KotlinFollows
      <3>4. QED
        BY <1>1, <3>1, <3>3
    <2>3. kotlin'[c] = told'[c] \/ Untold(c)'
      <3>1. told'[c][Len(told'[c])] = code
        BY <2>1
      <3>2. Append(kotlin[c], code) = <<code>>
        BY <2>2
      <3>3. CASE attached
        <4>1. kotlin' = [kotlin EXCEPT ![c] = Append(kotlin[c], code)]
          BY <1>9, <3>1, <3>3 DEF CompletionCallback, Notify
        <4>2. QED
          BY <1>1, <2>1, <3>2, <4>1
      <3>4. CASE ~attached
        <4>1. UNCHANGED kotlin
          BY <1>9, <3>4 DEF CompletionCallback
        <4>2. QED
          BY <2>2, <3>4, <4>1 DEF Untold
      <3>5. QED
        BY <3>3, <3>4
    <2>4. told'[c] # <<>>
      BY <2>1
    <2>5. context'[c] = ContextOf(c)'
      BY <1>5, <2>2, <2>4 DEF ContextOf
    <2>6. KotlinFollows(c)'
      BY <1>5, <2>2, <2>3 DEF KotlinFollows
    <2>7. QED
      BY <1>4, <1>5, <2>5, <2>6 DEF LentInv
  <1>10. QED
    BY <1>8, <1>9

LEMMA LentNext ==
  ASSUME BridgeInv, ToldInv', BridgeNext
  PROVE  LentInv'
  <1>1. /\ context \in [Calls -> {"none", "live", "freed"}]
        /\ kotlin \in [Calls -> Seq(Codes)]
        /\ jni \in [Calls -> {"new", "inside", "left"}]
    BY DEF BridgeInv, BridgeTypeOK
  <1>2. fault = {}
    BY DEF BridgeNext, Sound
  <1>3. \A d \in Calls : CallTold(d)
    BY DEF BridgeInv, ToldInv
  <1>10. UNCHANGED binding /\ (failures > 0 => failures' > 0)
    BY RefusalStays DEF BridgeInv
  <1>4. CASE UNCHANGED <<jni, context, kotlin, at, told>>
    BY <1>2, <1>4, <1>10, LentKept DEF BridgeInv
  <1>5. ASSUME NEW c \in Calls, NativeCall(c) \/ NativeScript(c) \/ NativeScriptDetached(c)
        PROVE  LentInv'
    <2>1. PICK attached \in BOOLEAN : /\ CompletionCallback(c, attached)
                                      /\ attached \/ (binding = "jni" /\ failures' > 0)
      <3>1. failures \in Nat
        BY GlobalAssumption DEF BridgeInv, ToldInv, GlobalTypeOK
      <3>2. NativeScriptDetached(c) => binding = "jni" /\ failures' = failures + 1
        BY DEF NativeScriptDetached, Refuse
      <3>3. failures + 1 > 0
        BY <3>1
      <3>4. NativeScriptDetached(c) => CompletionCallback(c, FALSE)
        BY DEF NativeScriptDetached
      <3>5. NativeCall(c) \/ NativeScript(c) => CompletionCallback(c, TRUE)
        BY DEF NativeCall, NativeScript
      <3>6. QED
        BY <1>5, <3>2, <3>3, <3>4, <3>5
    <2>2. CallStep(c) \/ ScriptStep(c) \/ Answered(c)
      BY <1>5 DEF NativeCall, NativeScript, NativeScriptDetached
    <2>3. at[c] = "returned" \/ jni[c] = "inside"
      BY <1>3, <1>5
         DEF CallTold, NativeCall, NativeScript, NativeScriptDetached, ScriptStep, Send,
             SendToNull, Complete, Answered
    <2>4. UNCHANGED jni
      BY <1>5 DEF NativeCall, NativeScript, NativeScriptDetached
    <2>5. QED
      BY <1>2, <1>10, <2>1, <2>2, <2>3, <2>4, LentCallback
  <1>6. ASSUME NEW c \in Calls, EnterEnqueue(c)
        PROVE  LentInv'
    <2>1. /\ jni[c] = "new" /\ jni' = [jni EXCEPT ![c] = "inside"]
          /\ context' = [context EXCEPT ![c] = "live"]
          /\ UNCHANGED <<kotlin, at, told>>
      BY <1>6 DEF EnterEnqueue, globalVars, callVars, scriptVars
    <2>2. at[c] = "idle" /\ kotlin[c] = <<>>
      BY <1>2, <2>1 DEF BridgeInv, LentInv, KotlinFollows
    <2>3. told[c] = <<>>
      BY <1>3, <2>2 DEF CallTold
    <2>4. QED
      BY <1>1, <1>2, <1>10, <2>1, <2>2, <2>3
         DEF BridgeInv, LentInv, ContextOf, KotlinFollows, Untold
  <1>7. ASSUME NEW c \in Calls, ContextFails(c)
        PROVE  LentInv'
    <2>1. /\ jni[c] = "new" /\ jni' = [jni EXCEPT ![c] = "left"]
          /\ Notify(c, 1) \/ UNCHANGED kotlin
          /\ UNCHANGED <<context, at, told>>
      BY <1>7 DEF ContextFails, callVars, scriptVars
    <2>2. at[c] = "idle" /\ kotlin[c] = <<>> /\ context[c] = "none"
      BY <1>2, <2>1 DEF BridgeInv, LentInv, KotlinFollows, ContextOf
    <2>3. kotlin'[c] \in {<<>>, <<1>>} /\ \A d \in Calls \ {c} : kotlin'[d] = kotlin[d]
      BY <1>1, <2>1, <2>2 DEF Notify
    <2>4. Len(kotlin'[c]) <= 1
      <3>1. Len(<<>>) <= 1 /\ Len(<<1>>) <= 1
        OBVIOUS
      <3>2. QED
        BY ONLY <2>3, <3>1, Zenon
    <2>5. ASSUME NEW d \in Calls \ {c}
          PROVE  /\ jni'[d] = "new" => at'[d] = "idle"
                 /\ jni'[d] = "left" => at'[d] \in {"idle", "returned"}
                 /\ context'[d] = ContextOf(d)'
                 /\ fault' = {} => KotlinFollows(d)'
      BY <1>1, <1>2, <1>10, <2>1, <2>3 DEF BridgeInv, LentInv, ContextOf, KotlinFollows, Untold
    <2>6. context'[c] = ContextOf(c)' /\ at'[c] = "idle" /\ jni'[c] = "left"
      BY <1>1, <2>1, <2>2 DEF ContextOf
    <2>7. KotlinFollows(c)'
      BY <2>1, <2>2, <2>4, <2>6 DEF KotlinFollows
    <2>8. QED
      BY <2>5, <2>6, <2>7 DEF LentInv
  <1>8. ASSUME NEW c \in Calls, LeaveEnqueue(c)
        PROVE  LentInv'
    <2>1. /\ jni[c] = "inside" /\ jni' = [jni EXCEPT ![c] = "left"] /\ returned[c] # {}
          /\ UNCHANGED <<context, kotlin, at, told>>
      BY <1>8 DEF LeaveEnqueue, lent, globalVars, callVars, scriptVars
    <2>2. at[c] = "returned"
      BY <1>3, <2>1 DEF CallTold
    <2>3. QED
      BY <1>1, <1>2, <1>10, <2>1, <2>2
         DEF BridgeInv, LentInv, ContextOf, KotlinFollows, Untold
  <1>9. ASSUME NEW c \in Calls, LeaveWithError(c)
        PROVE  LentInv'
    <2>1. /\ jni[c] = "inside" /\ jni' = [jni EXCEPT ![c] = "left"]
          /\ returned[c] \notin {{}, {0}}
          /\ context' = [context EXCEPT ![c] = "freed"]
          /\ UNCHANGED <<at, told>>
      BY <1>9 DEF LeaveWithError, globalVars, callVars, scriptVars
    <2>2. at[c] = "returned" /\ Len(told[c]) = 1
      BY <1>3, <2>1 DEF CallTold
    <2>3. told[c] # <<>>
      <3>1. Len(told[c]) = 1 => told[c] # <<>>
        OBVIOUS
      <3>2. QED
        BY ONLY <2>2, <3>1, Zenon
    <2>4. context[c] = "freed"
      BY <2>1, <2>3 DEF BridgeInv, LentInv, ContextOf
    <2>5. fault' # {}
      BY <1>9, <2>4 DEF LeaveWithError, Blame
    <2>6. QED
      BY <1>1, <2>1, <2>2, <2>3, <2>5 DEF BridgeInv, LentInv, ContextOf
  <1>11. QED
    BY <1>4, <1>5, <1>6, <1>7, <1>8, <1>9
       DEF BridgeNext, Client, Native, DestroyScript, CreateInterpreter,
           CreateInterpreterFails, DestroyInterpreter, EnableLogging,
           EnableLoggingFails, DisableLogging, LogLine, Deliver, lent, globalVars,
           callVars, scriptVars

LEMMA BridgeInitially == BridgeInit => BridgeInv
  <1> SUFFICES ASSUME BridgeInit PROVE BridgeInv
    OBVIOUS
  <1>1. ToldInv
    BY ToldInitially DEF BridgeInit
  <1>2. BridgeTypeOK
    <2>1. kotlin \in [Calls -> Seq(Codes)]
      BY DEF BridgeInit
    <2>2. QED
      BY <1>1, <2>1 DEF BridgeInit, BridgeTypeOK, ToldInv
  <1>3. LentInv
    <2>1. ASSUME NEW c \in Calls
          PROVE  /\ jni[c] = "new" /\ at[c] = "idle" /\ context[c] = "none"
                 /\ kotlin[c] = <<>> /\ Len(kotlin[c]) <= 1
      BY DEF BridgeInit, GlobalInit
    <2>2. QED
      BY <2>1 DEF LentInv, ContextOf, KotlinFollows
  <1>4. QED
    BY <1>1, <1>2, <1>3 DEF BridgeInv

LEMMA BridgeInvNext ==
  ASSUME BridgeInv, [BridgeNext]_bridgeVars
  PROVE  BridgeInv'
  <1>1. CASE UNCHANGED bridgeVars
    BY <1>1 DEF bridgeVars, jniVars, lent, listening, globalVars, vmVars, callVars,
                scriptVars, BridgeInv, BridgeTypeOK, ToldInv, GlobalTypeOK, VM,
                CallTold, LentInv, ContextOf, KotlinFollows, Untold
  <1>2. CASE BridgeNext
    BY <1>2, BridgeTells, BridgeTypes, LentNext DEF BridgeInv
  <1>3. QED
    BY <1>1, <1>2

\* For any client, careful or not: types hold, tasks are told as the
\* interpreter's own theorem says, and contexts follow their tasks.
THEOREM BridgeInvariant == BridgeSpec => []BridgeInv
BY BridgeInitially, BridgeInvNext, PTL DEF BridgeSpec

\* Every variable of the bridge keeps its type, whatever the client does.
THEOREM BridgeTypesHold == BridgeSpec => []BridgeTypeOK
  <1>1. BridgeInv => BridgeTypeOK
    BY DEF BridgeInv
  <1>2. QED
    BY <1>1, BridgeInvariant, PTL

\* For any client: until freed memory is used, Kotlin is told of a call once at
\* the most, and what the interpreter told the completion task.
THEOREM KotlinToldAtMostOnce == BridgeSpec => []KotlinToldOnce
  <1>1. ASSUME BridgeInv, fault = {}, NEW c \in Calls
        PROVE  Len(kotlin[c]) <= 1 /\ (told[c] # <<>> => kotlin[c] = told[c] \/ Untold(c))
    <2>1. CallTold(c) /\ KotlinFollows(c) /\ context[c] = ContextOf(c)
      BY <1>1 DEF BridgeInv, ToldInv, LentInv
    <2>2. context[c] \in {"none", "live", "freed"}
      BY <2>1 DEF ContextOf
    <2>3. told[c] # <<>> => Len(told[c]) = 1 /\ at[c] = "returned"
      BY <2>1 DEF CallTold
    <2>4. CASE context[c] = "none"
      <3>1. at[c] = "idle"
        BY <1>1, <2>1, <2>4 DEF ContextOf, BridgeInv, LentInv
      <3>2. Len(kotlin[c]) <= 1
        BY <2>1, <2>4 DEF KotlinFollows
      <3>3. told[c] = <<>>
        BY <2>3, <3>1
      <3>4. QED
        BY <3>2, <3>3
    <2>5. CASE context[c] = "live"
      <3>1. kotlin[c] = <<>>
        BY <2>1, <2>5 DEF KotlinFollows
      <3>2. Len(kotlin[c]) <= 1
        BY <3>1
      <3>3. told[c] = <<>>
        BY <2>1, <2>5 DEF ContextOf
      <3>4. QED
        BY <3>2, <3>3
    <2>6. CASE context[c] = "freed"
      <3>1. (kotlin[c] = told[c] \/ Untold(c)) /\ told[c] # <<>>
        BY <2>1, <2>6 DEF KotlinFollows, ContextOf
      <3>4. Untold(c) => kotlin[c] = <<>>
        BY DEF Untold
      <3>2. Len(kotlin[c]) <= 1
        <4>1. kotlin[c] = <<>> => Len(kotlin[c]) <= 1
          OBVIOUS
        <4>2. kotlin[c] = told[c] => Len(kotlin[c]) <= 1
          <5>1. Len(told[c]) = 1
            BY ONLY <2>3, <3>1, Zenon
          <5>2. kotlin[c] = told[c] => Len(kotlin[c]) = 1
            BY ONLY <5>1, Zenon
          <5>3. Len(kotlin[c]) = 1 => Len(kotlin[c]) <= 1
            OBVIOUS
          <5>4. QED
            BY ONLY <5>2, <5>3, Zenon
        <4>3. QED
          BY ONLY <3>1, <3>4, <4>1, <4>2, Zenon
      <3>3. QED
        BY <3>1, <3>2
    <2>7. QED
      BY <2>2, <2>4, <2>5, <2>6
  <1>2. BridgeInv => KotlinToldOnce
    BY <1>1 DEF KotlinToldOnce
  <1>3. QED
    BY <1>2, BridgeInvariant, PTL

\* For any client: a completion context that enqueueScript leaves behind is one
\* that a script thread is going to free, and nobody frees it earlier.
THEOREM ScriptThreadFreesContext == BridgeSpec => []ContextOutlivesScript
  <1>1. ASSUME BridgeInv, NEW c \in Calls
        PROVE  /\ jni[c] = "left" /\ context[c] = "live" => script[c] \in {"queued", "sent"}
               /\ script[c] \in {"queued", "sent"} => context[c] = "live"
    <2>1. /\ CallTold(c) /\ context[c] = ContextOf(c)
          /\ jni[c] = "new" => at[c] = "idle"
          /\ jni[c] = "left" => at[c] \in {"idle", "returned"}
      BY <1>1 DEF BridgeInv, ToldInv, LentInv
    <2>2. Len(told[c]) = 1 => told[c] # <<>>
      OBVIOUS
    <2>3. at[c] = "returned" /\ told[c] = <<>> => script[c] \in {"queued", "sent"}
      BY <2>1, <2>2 DEF CallTold
    <2>4. script[c] \in {"queued", "sent"} => at[c] = "returned" /\ told[c] = <<>>
      BY <2>1 DEF CallTold
    <2>5. QED
      BY <2>1, <2>3, <2>4 DEF ContextOf
  <1>2. BridgeInv => ContextOutlivesScript
    BY <1>1 DEF ContextOutlivesScript
  <1>3. QED
    BY <1>2, BridgeInvariant, PTL
-----------------------------------------------------------------------------
(***************************************************************************)
(* A careful client.                                                       *)
(***************************************************************************)

\* A script on its way has a live context, of which Kotlin has not heard yet.
LEMMA ScriptInFlight ==
  ASSUME BridgeInv, fault = {}, NEW c \in Calls, script[c] \in {"queued", "sent"}
  PROVE  context[c] = "live" /\ kotlin[c] = <<>>
  <1>1. at[c] = "returned" /\ told[c] = <<>>
    BY DEF BridgeInv, ToldInv, CallTold
  <1>2. context[c] = "live"
    BY <1>1 DEF BridgeInv, LentInv, ContextOf
  <1>3. QED
    BY <1>2 DEF BridgeInv, LentInv, KotlinFollows

\* A VM gets the listener of the interpreter its call is made on.
LEMMA ListenerOfCaller ==
  ASSUME GlobalTypeOK, NEW c \in Calls, CallStep(c), InterpreterOf[c] \in alive,
         \A v \in Calls : listener[v] \subseteq alive
  PROVE  \A v \in Calls : listener'[v] \subseteq alive
  <1>1. listener \in [Calls -> SUBSET Interpreters]
    BY DEF GlobalTypeOK
  <1>2. \/ listener' = listener
        \/ \E v \in Calls \union {global} : listener' = [listener EXCEPT ![v] = {InterpreterOf[c]}]
    BY DEF CallStep, Check, BuildFails, Create, CreateNull, TestVM, TestNull, Remember, StartOnNull,
           StartAgain, Start, OpenChannel, OpenFails, Spawn, SpawnFails, Adopt,
           AdoptNull, HandOver, vmVars
  <1>3. QED
    BY <1>1, <1>2

LEMMA CarefulNative ==
  ASSUME Careful, BridgeInv, CarefulInv, fault = {}, NEW c \in Calls,
         NativeCall(c) \/ NativeScript(c) \/ NativeScriptDetached(c)
  PROVE  CarefulInv'
  <1>1. /\ kotlin \in [Calls -> Seq(Codes)] /\ context \in [Calls -> {"none", "live", "freed"}]
        /\ GlobalTypeOK
    BY DEF BridgeInv, BridgeTypeOK
  <1>2. UNCHANGED <<jni, scriptAlive, alive, delivering, logTo, binding>>
    BY DEF NativeCall, NativeScript, NativeScriptDetached, listening
  <1>3. \A d \in Calls \ {c} : kotlin'[d] = kotlin[d]
    BY <1>1 DEF NativeCall, NativeScript, NativeScriptDetached, CompletionCallback, Notify
  <1>4. CASE NativeCall(c)
    <2>1. jni[c] = "inside" /\ CallStep(c) /\ InterpreterOf[c] \in alive /\ scriptAlive[c]
      BY <1>4 DEF NativeCall, CarefulInv
    <2>2. \A v \in Calls : listener'[v] \subseteq alive
      BY <1>1, <2>1, ListenerOfCaller DEF CarefulInv
    <2>3. fault' = {}
      BY <1>4, <2>1 DEF NativeCall, Blame
    <2>4. QED
      BY <1>2, <1>3, <2>1, <2>2, <2>3 DEF CarefulInv, CarefulClientSafe
  <1>5. CASE NativeScript(c) \/ NativeScriptDetached(c)
    <2>1. script[c] \in {"queued", "sent"} /\ UNCHANGED listener
      BY <1>5 DEF NativeScript, NativeScriptDetached, ScriptStep, Send, SendToNull,
                  Complete, Answered, vmVars
    <2>2. context[c] = "live" /\ kotlin[c] = <<>>
      BY <2>1, ScriptInFlight
    <2>3. scriptAlive[c] /\ ~ContextMisused(c)
      BY <2>2 DEF CarefulInv, ContextMisused
    <2>4. fault' = {}
      BY <1>5, <2>3 DEF NativeScript, NativeScriptDetached, Blame
    <2>5. QED
      BY <1>2, <1>3, <2>1, <2>3, <2>4 DEF CarefulInv, CarefulClientSafe
  <1>6. QED
    BY <1>4, <1>5

LEMMA CarefulNext ==
  ASSUME Careful, BridgeInv, CarefulInv, BridgeNext
  PROVE  CarefulInv'
  <1>1. /\ jni \in [Calls -> {"new", "inside", "left"}]
        /\ kotlin \in [Calls -> Seq(Codes)]
        /\ scriptAlive \in [Calls -> BOOLEAN]
        /\ logTo \in VM \union {Off}
    BY DEF BridgeInv, BridgeTypeOK
  <1>2. fault = {}
    BY DEF BridgeNext, Sound
  <1>3. ASSUME NEW c \in Calls, EnterEnqueue(c)
        PROVE  CarefulInv'
    <2>1. /\ jni[c] = "new" /\ InterpreterOf[c] \in alive
          /\ jni' = [jni EXCEPT ![c] = "inside"]
          /\ UNCHANGED <<kotlin, scriptAlive, listener, alive, delivering, logTo>>
      BY <1>3 DEF EnterEnqueue, globalVars, vmVars, listening
    <2>2. scriptAlive[c]
      BY <2>1 DEF CarefulInv
    <2>3. fault' = {}
      BY <1>2, <1>3, <2>2 DEF EnterEnqueue, Blame
    <2>4. QED
      BY <1>1, <2>1, <2>2, <2>3 DEF CarefulInv, CarefulClientSafe
  <1>4. ASSUME NEW c \in Calls, ContextFails(c)
        PROVE  CarefulInv'
    <2>1. /\ jni[c] = "new" /\ jni' = [jni EXCEPT ![c] = "left"]
          /\ Notify(c, 1) \/ UNCHANGED kotlin
          /\ UNCHANGED <<scriptAlive, listener, alive, delivering, logTo, fault>>
      BY <1>4 DEF ContextFails, vmVars, listening
    <2>2. scriptAlive[c]
      BY <2>1 DEF CarefulInv
    <2>3. \A d \in Calls \ {c} : kotlin'[d] = kotlin[d] /\ jni'[d] = jni[d]
      BY <1>1, <2>1 DEF Notify
    <2>4. jni'[c] = "left"
      BY <1>1, <2>1
    <2>5. QED
      BY <1>2, <2>1, <2>2, <2>3, <2>4 DEF CarefulInv, CarefulClientSafe
  <1>5. ASSUME NEW c \in Calls, DestroyScript(c)
        PROVE  CarefulInv'
    <2>1. /\ jni[c] # "inside" /\ kotlin[c] # <<>>
          /\ scriptAlive' = [scriptAlive EXCEPT ![c] = FALSE]
          /\ UNCHANGED <<jni, kotlin, listener, alive, delivering, logTo, fault>>
      BY <1>5 DEF DestroyScript, globalVars, vmVars, listening
    <2>2. jni[c] = "left"
      BY <1>1, <1>2, <2>1 DEF BridgeInv, LentInv, KotlinFollows
    <2>3. \A d \in Calls \ {c} : scriptAlive'[d] = scriptAlive[d]
      BY <2>1
    <2>4. QED
      BY <1>2, <2>1, <2>2, <2>3 DEF CarefulInv, CarefulClientSafe
  <1>6. ASSUME NEW i \in Interpreters, CreateInterpreter(i) \/ CreateInterpreterFails(i)
        PROVE  CarefulInv'
    BY <1>2, <1>6
       DEF CreateInterpreter, CreateInterpreterFails, globalVars, vmVars, lent,
           CarefulInv, CarefulClientSafe
  <1>7. ASSUME NEW i \in Interpreters, DestroyInterpreter(i)
        PROVE  CarefulInv'
    BY <1>2, <1>7
       DEF DestroyInterpreter, globalVars, vmVars, lent, CarefulInv, CarefulClientSafe
  <1>8. ASSUME NEW i \in Interpreters,
               EnableLogging(i) \/ EnableLoggingFails(i) \/ DisableLogging(i)
        PROVE  CarefulInv'
    <2>1. /\ logTo' \in {vmOf[i], Off} /\ vmOf[i] # NoVM
          /\ UNCHANGED <<jni, kotlin, scriptAlive, listener, alive, delivering>>
      BY <1>8 DEF EnableLogging, EnableLoggingFails, DisableLogging, MayEnableLogging,
                  globalVars, vmVars, lent
    <2>2. fault' = {}
      BY <1>2, <1>8, <2>1 DEF EnableLogging, EnableLoggingFails, DisableLogging, Blame
    <2>3. logTo' # NoVM
      BY <2>1 DEF Off, NoVM
    <2>4. QED
      BY <2>1, <2>2, <2>3 DEF CarefulInv, CarefulClientSafe
  <1>9. ASSUME NEW c \in Calls, NativeCall(c) \/ NativeScript(c) \/ NativeScriptDetached(c)
        PROVE  CarefulInv'
    BY <1>2, <1>9, CarefulNative
  <1>10. ASSUME NEW c \in Calls, LeaveEnqueue(c)
         PROVE  CarefulInv'
    <2>1. /\ jni[c] = "inside" /\ jni' = [jni EXCEPT ![c] = "left"]
          /\ UNCHANGED <<kotlin, scriptAlive, listener, alive, delivering, logTo, fault>>
      BY <1>10 DEF LeaveEnqueue, globalVars, vmVars, lent, listening
    <2>2. QED
      BY <1>1, <1>2, <2>1 DEF CarefulInv, CarefulClientSafe
  <1>11. ASSUME NEW c \in Calls, LeaveWithError(c)
         PROVE  CarefulInv'
    <2>1. /\ jni[c] = "inside" /\ jni' = [jni EXCEPT ![c] = "left"]
          /\ returned[c] \notin {{}, {0}} /\ binding = "jni"
          /\ \A d \in Calls \ {c} : kotlin'[d] = kotlin[d]
          /\ UNCHANGED <<returned, scriptAlive, listener, alive, delivering, logTo, binding>>
      BY <1>1, <1>11
         DEF LeaveWithError, Notify, globalVars, vmVars, callVars, listening
    <2>2. scriptAlive[c]
      BY <2>1 DEF CarefulInv
    <2>3. fault' \in {{}, {"context"}}
      BY <1>2, <1>11 DEF LeaveWithError, Blame
    <2>4. CarefulClientSafe'
      BY <2>1, <2>3 DEF CarefulClientSafe
    <2>5. QED
      BY <1>1, <2>1, <2>2, <2>4 DEF CarefulInv
  <1>12. CASE LogLine
    <2>1. logTo \in Calls
      BY <1>1, <1>12 DEF LogLine, CarefulInv, VM
    <2>2. /\ delivering' = listener[logTo] /\ logTo # NoVM
          /\ UNCHANGED <<jni, kotlin, scriptAlive, listener, alive, logTo>>
      BY <1>12 DEF LogLine, CarefulInv, globalVars, vmVars, lent
    <2>3. fault' = {}
      BY <1>2, <1>12, <2>2 DEF LogLine, Blame
    <2>4. QED
      BY <2>1, <2>2, <2>3 DEF CarefulInv, CarefulClientSafe
  <1>13. ASSUME NEW i \in Interpreters, Deliver(i)
         PROVE  CarefulInv'
    <2>1. /\ delivering' = {} /\ i \in alive
          /\ UNCHANGED <<jni, kotlin, scriptAlive, listener, alive, logTo>>
      BY <1>13 DEF Deliver, CarefulInv, globalVars, vmVars, lent
    <2>2. fault' = {}
      BY <1>2, <1>13, <2>1 DEF Deliver, Blame
    <2>3. QED
      BY <2>1, <2>2 DEF CarefulInv, CarefulClientSafe
  <1>14. QED
    BY <1>3, <1>4, <1>5, <1>6, <1>7, <1>8, <1>9, <1>10, <1>11, <1>12, <1>13
       DEF BridgeNext, Client, Native

\* A careful client meets one fault only, on the JVM, and only when the
\* interpreter has returned an error: the completion context used twice.
THEOREM CarefulClientMeetsOneFault ==
  ASSUME Careful
  PROVE  BridgeSpec => []CarefulClientSafe
  <1>1. BridgeInit => CarefulInv
    BY DEF BridgeInit, GlobalInit, CarefulInv, CarefulClientSafe, Off, NoVM
  <1>2. BridgeInv /\ CarefulInv /\ [BridgeNext]_bridgeVars => CarefulInv'
    <2>1. CarefulInv /\ UNCHANGED bridgeVars => CarefulInv'
      BY DEF bridgeVars, jniVars, lent, listening, globalVars, vmVars, callVars,
             CarefulInv, CarefulClientSafe
    <2>2. QED
      BY <2>1, CarefulNext
  <1>3. CarefulInv => CarefulClientSafe
    BY DEF CarefulInv
  <1>4. QED
    BY <1>1, <1>2, <1>3, BridgeInvariant, PTL DEF BridgeSpec
=============================================================================
