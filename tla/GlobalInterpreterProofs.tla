----------------------- MODULE GlobalInterpreterProofs -----------------------
(***************************************************************************)
(* As long as no call of ruby_interpreter_enqueue comes while another one  *)
(* starts the VM, the process has one VM at the most, whatever fails.      *)
(*                                                                         *)
(* SharedVMInv is inductive.  While a call starts the VM it is alone, so   *)
(* what it reads again from g_global_vm is what it has written; once it is *)
(* through, g_global_vm never changes.                                     *)
(***************************************************************************)
EXTENDS GlobalInterpreter, TLAPS

LEMMA SharedInit ==
  ASSUME GlobalInit
  PROVE  SharedVMInv
  <1>1. GlobalTypeOK
    <2>1. <<>> \in Seq(Codes)
      OBVIOUS
    <2>2. /\ told \in [Calls -> Seq(Codes)]
          /\ error \in [Calls -> Codes] /\ rubies \in [Calls -> Nat]
      BY <2>1 DEF GlobalInit, Codes
    <2>3. failures \in 0..MaxFailures
      BY GlobalAssumption DEF GlobalInit
    <2>4. /\ at \in [Calls -> Place]
          /\ script \in [Calls -> {"none", "queued", "sent", "over"}]
      BY DEF GlobalInit, Place
    <2>5. QED
      BY <2>2, <2>3, <2>4 DEF GlobalInit, GlobalTypeOK, VM
  <1>2. SharedVM
    BY DEF GlobalInit, SharedVM, Starting
  <1>3. QED
    BY <1>1, <1>2 DEF SharedVMInv

\* Every step of a call or of a script thread keeps the types.
LEMMA CallTypes ==
  ASSUME GlobalTypeOK, NEW c \in Calls, CallStep(c)
  PROVE  GlobalTypeOK'
  <1> USE GlobalAssumption
          DEF GlobalTypeOK, VM, Place, Codes, vmVars, callVars, scriptVars,
              GoTo, Tell, FailCall, Refuse, Error
  <1>1. CASE Check(c)
    BY <1>1 DEF Check
  <1>2. CASE BuildFails(c)
    BY <1>2 DEF BuildFails
  <1>3. CASE CreateNull(c)
    BY <1>3 DEF CreateNull
  <1>17. CASE TestVM(c)
    <2>1. PICK v \in Reloaded(c) \ {NoVM} : own' = [own EXCEPT ![c] = v]
      BY <1>17 DEF TestVM
    <2>2. v \in VM
      BY <2>1 DEF Reloaded
    <2>3. own' \in [Calls -> VM] /\ at' \in [Calls -> Place]
      BY <1>17, <2>1, <2>2 DEF TestVM
    <2>4. QED
      BY <1>17, <2>3 DEF TestVM
  <1>18. CASE TestNull(c)
    <2>1. told' \in [Calls -> Seq(Codes)] /\ returned' \in [Calls -> SUBSET Codes]
      BY <1>18 DEF TestNull
    <2>2. at' \in [Calls -> Place]
      BY <1>18 DEF TestNull
    <2>3. QED
      BY <1>18, <2>1, <2>2 DEF TestNull
  <1>4. CASE Create(c)
    BY <1>4 DEF Create
  <1>5. CASE Remember(c)
    BY <1>5 DEF Remember, Reloaded
  <1>6. CASE StartOnNull(c)
    BY <1>6 DEF StartOnNull
  <1>7. CASE StartAgain(c)
    BY <1>7 DEF StartAgain, Reloaded
  <1>8. CASE Start(c)
    BY <1>8 DEF Start, Reloaded
  <1>9. CASE OpenChannel(c)
    BY <1>9 DEF OpenChannel
  <1>10. CASE OpenFails(c)
    <2>1. error' \in [Calls -> Codes]
      BY <1>10 DEF OpenFails
    <2>2. told' \in [Calls -> Seq(Codes)] /\ returned' \in [Calls -> SUBSET Codes]
      BY <1>10 DEF OpenFails
    <2>3. failures' \in 0..MaxFailures /\ at' \in [Calls -> Place]
      BY <1>10 DEF OpenFails
    <2>4. QED
      BY <1>10, <2>1, <2>2, <2>3 DEF OpenFails
  <1>11. CASE Spawn(c)
    <2>1. rubies' \in [Calls -> Nat]
      <3>1. CASE own[c] \in Calls
        BY <1>11, <3>1 DEF Spawn
      <3>2. CASE own[c] \notin Calls
        <4>1. rubies' = rubies
          BY <1>11, <3>2 DEF Spawn
        <4>2. QED
          BY <4>1
      <3>3. QED
        BY <3>1, <3>2
    <2>2. started' \in [Calls -> BOOLEAN] /\ at' \in [Calls -> Place]
      BY <1>11 DEF Spawn
    <2>3. QED
      BY <1>11, <2>1, <2>2 DEF Spawn
  <1>12. CASE SpawnFails(c)
    <2>1. PICK code \in {-1, -3} : Error(own[c], code) /\ FailCall(c, 3, code)
      BY <1>12 DEF SpawnFails
    <2>2. code \in Codes
      BY <2>1
    <2>3. error' \in [Calls -> Codes]
      BY <2>1, <2>2
    <2>4. told' \in [Calls -> Seq(Codes)] /\ returned' \in [Calls -> SUBSET Codes]
      BY <2>1, <2>2
    <2>5. failures' \in 0..MaxFailures /\ at' \in [Calls -> Place]
      BY <1>12, <2>1 DEF SpawnFails
    <2>6. QED
      BY <1>12, <2>3, <2>4, <2>5 DEF SpawnFails
  <1>13. CASE Adopt(c)
    BY <1>13 DEF Adopt
  <1>14. CASE AdoptNull(c)
    BY <1>14 DEF AdoptNull
  <1>15. CASE HandOver(c)
    BY <1>15 DEF HandOver
  <1>16. QED
    BY <1>1, <1>2, <1>3, <1>4, <1>5, <1>6, <1>7, <1>8, <1>9, <1>10, <1>11,
       <1>12, <1>13, <1>14, <1>15, <1>17, <1>18 DEF CallStep

LEMMA AnsweredTypes ==
  ASSUME GlobalTypeOK, NEW c \in Calls, Answered(c), failures' \in 0..MaxFailures
  PROVE  GlobalTypeOK'
  BY DEF GlobalTypeOK, VM, Place, Codes, vmVars, callVars, Tell, Answered

LEMMA ScriptTypes ==
  ASSUME GlobalTypeOK, NEW c \in Calls, ScriptStep(c)
  PROVE  GlobalTypeOK'
  <1> USE DEF GlobalTypeOK, VM, Place, Codes, vmVars, callVars, scriptVars, Tell
  <1>1. CASE Send(c)
    BY <1>1 DEF Send
  <1>2. CASE SendToNull(c)
    BY <1>2 DEF SendToNull
  <1>3. CASE Complete(c)
    BY <1>3, AnsweredTypes DEF Complete
  <1>4. QED
    BY <1>1, <1>2, <1>3 DEF ScriptStep

-----------------------------------------------------------------------------
(* The steps of a call that finds g_global_vm NULL: the call is alone.     *)

LEMMA StartingKeepsShared ==
  ASSUME GlobalTypeOK, SharedVM, NEW c \in Calls, CallStep(c),
         at[c] \in Starting
  PROVE  SharedVM'
  <1> USE GlobalAssumption
          DEF GlobalTypeOK, VM, Codes, vmVars, callVars, scriptVars, GoTo,
              Starting, SharedVM, Alone, Progress, Settled
  <1>0. Alone(c) /\ Progress(c)
    OBVIOUS
  <1>1. CASE BuildFails(c)
    BY <1>0, <1>1 DEF BuildFails, FailCall, Refuse, Tell
  <1>2. CASE CreateNull(c) \/ TestVM(c) \/ TestNull(c)
    <2>1. CASE CreateNull(c)
      BY <1>0, <2>1 DEF CreateNull, Refuse
    <2>2. CASE TestVM(c)
      BY <1>0, <2>2 DEF TestVM, Reloaded
    <2>3. CASE TestNull(c)
      BY <1>0, <2>3 DEF TestNull, Reloaded, FailCall, Tell
    <2>4. QED
      BY <1>2, <2>1, <2>2, <2>3
  <1>3. CASE Create(c)
    <2>1. /\ global' = c /\ own'[c] = c /\ at'[c] = "testing" /\ c # NoVM
          /\ \A d \in Calls : d # c => at'[d] = at[d]
          /\ UNCHANGED <<script, rubies, started, vmOf, handed, crashed>>
      BY <1>0, <1>3 DEF Create
    <2>2. Alone(c)' /\ Progress(c)'
      BY <1>0, <2>1
    <2>3. global = NoVM
      BY <1>0, <1>3 DEF Create
    <2>4. \A i \in Interpreters : vmOf[i] = NoVM
      BY <2>3
    <2>5. \A d \in Calls : at'[d] \in Starting => d = c
      BY <1>0, <2>1
    <2>6. \A d \in Calls : at'[d] \notin {"adopting", "handing"}
      BY <1>0, <2>1
    <2>7. \A d \in Calls : script'[d] = "none" /\ ~(rubies'[d] > 0) /\ ~started'[d]
      BY <1>0, <2>1
    <2>8. ~crashed' /\ \A i \in Interpreters : vmOf'[i] = NoVM
      BY <2>1, <2>4
    <2>9. at'[c] \in Starting
      BY <2>1
    <2>10. QED
      BY <2>2, <2>5, <2>6, <2>7, <2>8, <2>9 DEF SharedVM
  <1>4. CASE Remember(c)
    BY <1>0, <1>4 DEF Remember, Reloaded
  <1>5. CASE StartOnNull(c)
    BY <1>0, <1>5 DEF StartOnNull, Reloaded
  <1>6. CASE StartAgain(c)
    BY <1>0, <1>6 DEF StartAgain, Reloaded
  <1>7. CASE Start(c)
    BY <1>0, <1>7 DEF Start, Reloaded, Error
  <1>8. CASE OpenChannel(c)
    BY <1>0, <1>8 DEF OpenChannel
  <1>9. CASE OpenFails(c)
    BY <1>0, <1>9 DEF OpenFails, FailCall, Refuse, Tell, Error
  <1>10. CASE Spawn(c)
    BY <1>0, <1>10 DEF Spawn
  <1>11. CASE SpawnFails(c)
    BY <1>0, <1>11 DEF SpawnFails, FailCall, Refuse, Tell, Error
  <1>12. CASE Check(c) \/ Adopt(c) \/ AdoptNull(c) \/ HandOver(c)
    BY <1>12 DEF Check, Adopt, AdoptNull, HandOver
  <1>13. QED
    BY <1>1, <1>2, <1>3, <1>4, <1>5, <1>6, <1>7, <1>8, <1>9, <1>10, <1>11,
       <1>12 DEF CallStep

\* The first step of a call: unless it overlaps, nobody is starting.
LEMMA CheckKeepsShared ==
  ASSUME GlobalTypeOK, SharedVM, NEW c \in Calls, Check(c), ~overlap'
  PROVE  SharedVM'
  <1> USE GlobalAssumption
          DEF GlobalTypeOK, VM, Codes, vmVars, callVars, scriptVars, GoTo,
              Starting, SharedVM, Alone, Progress, Settled, Check
  <1>1. \A d \in Calls : at[d] \notin Starting
    OBVIOUS
  <1>2. CASE global = NoVM
    <2>1. \A d \in Calls : script[d] = "none" /\ rubies[d] = 0
      <3>1. TAKE d \in Calls
      <3>2. script[d] = "none" /\ ~(rubies[d] > 0)
        BY <1>2
      <3>3. rubies[d] \in Nat
        OBVIOUS
      <3>4. QED
        BY <3>2, <3>3
    <2>2. \A d \in Calls : at[d] \in {"idle", "returned"}
      BY <1>1, <1>2 DEF Place
    <2>3. /\ at'[c] = "creating" /\ UNCHANGED <<global, vmVars, vmOf, scriptVars, crashed>>
          /\ \A d \in Calls : d # c => at'[d] = at[d]
      BY <1>2
    <2>4. Alone(c)' /\ Progress(c)'
      BY <1>2, <2>1, <2>2, <2>3
    <2>5. QED
      BY <1>2, <2>1, <2>2, <2>3, <2>4
  <1>3. CASE global # NoVM
    BY <1>1, <1>3
  <1>4. QED
    BY <1>2, <1>3

LEMMA HandingKeepsShared ==
  ASSUME GlobalTypeOK, SharedVM, NEW c \in Calls, CallStep(c),
         at[c] \in {"adopting", "handing"}
  PROVE  SharedVM'
  <1> USE GlobalAssumption
          DEF GlobalTypeOK, VM, Codes, vmVars, callVars, scriptVars, GoTo,
              Starting, SharedVM, Alone, Progress, Settled
  <1>1. global # NoVM /\ \A d \in Calls : at[d] \notin Starting
    OBVIOUS
  <1>2. CASE Adopt(c)
    BY <1>1, <1>2 DEF Adopt
  <1>3. CASE HandOver(c)
    BY <1>1, <1>3 DEF HandOver
  <1>4. CASE AdoptNull(c)
    BY <1>1, <1>4 DEF AdoptNull
  <1>5. QED
    BY <1>2, <1>3, <1>4
       DEF CallStep, Check, BuildFails, Create, CreateNull, TestVM, TestNull, Remember,
           StartOnNull, StartAgain, Start, OpenChannel, OpenFails, Spawn, SpawnFails

LEMMA ScriptKeepsShared ==
  ASSUME GlobalTypeOK, SharedVM, NEW c \in Calls, ScriptStep(c)
  PROVE  SharedVM'
  <1> USE DEF GlobalTypeOK, VM, Codes, vmVars, callVars, scriptVars,
              Starting, SharedVM, Alone, Progress, Settled
  <1>1. CASE Send(c)
    BY <1>1 DEF Send
  <1>2. CASE SendToNull(c)
    BY <1>2 DEF SendToNull
  <1>3. CASE Complete(c)
    BY <1>3 DEF Complete, Answered
  <1>4. QED
    BY <1>1, <1>2, <1>3 DEF ScriptStep

-----------------------------------------------------------------------------

\* An overlap is never forgotten.
LEMMA OverlapStays ==
  ASSUME overlap, NEW c \in Calls, CallStep(c) \/ ScriptStep(c)
  PROVE  overlap'
  BY DEF CallStep, ScriptStep, Check, BuildFails, Create, CreateNull, TestVM, TestNull, Remember,
         StartOnNull, StartAgain, Start, OpenChannel, OpenFails, Spawn, SpawnFails,
         Adopt, AdoptNull, HandOver, Send, SendToNull, Complete, Answered

LEMMA SharedNext ==
  ASSUME SharedVMInv, [GlobalNext]_globalVars
  PROVE  SharedVMInv'
  <1>1. CASE UNCHANGED globalVars
    BY <1>1 DEF globalVars, vmVars, callVars, scriptVars, SharedVMInv, GlobalTypeOK,
                SharedVM, Alone, Progress, Settled
  <1>2. CASE GlobalNext
    <2>1. PICK c \in Calls : CallStep(c) \/ ScriptStep(c)
      BY <1>2 DEF GlobalNext
    <2>2. GlobalTypeOK'
      BY <2>1, CallTypes, ScriptTypes DEF SharedVMInv
    <2>3. ASSUME ~overlap'
          PROVE  SharedVM'
      <3>1. GlobalTypeOK /\ SharedVM
        BY <2>1, <2>3, OverlapStays DEF SharedVMInv
      <3>2. CASE ScriptStep(c)
        BY <3>1, <3>2, ScriptKeepsShared
      <3>3. CASE CallStep(c) /\ at[c] \in Starting
        BY <3>1, <3>3, StartingKeepsShared
      <3>4. CASE CallStep(c) /\ at[c] \in {"adopting", "handing"}
        BY <3>1, <3>4, HandingKeepsShared
      <3>5. CASE CallStep(c) /\ at[c] \in {"idle", "returned"}
        <4>1. Check(c)
          BY <3>5 DEF CallStep, BuildFails, Create, CreateNull, TestVM, TestNull, Remember,
                      StartOnNull, StartAgain, Start, OpenChannel, OpenFails, Spawn,
                      SpawnFails, Adopt, AdoptNull, HandOver
        <4>2. QED
          BY <2>3, <3>1, <4>1, CheckKeepsShared
      <3>6. at[c] \in Starting \union {"adopting", "handing", "idle", "returned"}
        BY <3>1 DEF GlobalTypeOK, Place, Starting
      <3>7. QED
        BY <2>1, <3>2, <3>3, <3>4, <3>5, <3>6
    <2>4. QED
      BY <2>2, <2>3 DEF SharedVMInv
  <1>3. QED
    BY <1>1, <1>2

\* Types hold whatever overlaps; as long as nothing does, a call that starts
\* the VM is alone, and g_global_vm runs, or failed to start with an error.
THEOREM SharedVMInvariant == GlobalSpec => []SharedVMInv
  <1>1. QED
    BY SharedInit, SharedNext, PTL DEF GlobalSpec

LEMMA SharedOneVM ==
  ASSUME SharedVMInv
  PROVE  OneRubyVMUnlessOverlap
  <1>1. SUFFICES ASSUME ~overlap
                 PROVE  /\ OneRubyVM
                        /\ \A v \in Calls : rubies[v] > 0 => global = v
                        /\ \A i \in Interpreters : vmOf[i] \in {NoVM, global}
    BY DEF OneRubyVMUnlessOverlap
  <1>2. GlobalTypeOK /\ SharedVM
    BY <1>1 DEF SharedVMInv
  <1>3. \A v \in Calls : rubies[v] <= 1
    <2>1. TAKE v \in Calls
    <2>2. rubies[v] \in Nat
      BY <1>2 DEF GlobalTypeOK
    <2>3. CASE rubies[v] > 0
      <3>1. global = v /\ v # NoVM
        BY <1>2, <2>3, GlobalAssumption DEF SharedVM
      <3>2. rubies[v] = 1
        BY <1>2, <2>3, <3>1 DEF SharedVM, Settled, Alone
      <3>3. QED
        BY <3>2
    <2>4. QED
      BY <2>2, <2>3
  <1>4. QED
    BY <1>2, <1>3 DEF OneRubyVM, SharedVM

LEMMA SharedExplains ==
  ASSUME SharedVMInv
  PROVE  UnstartedExplained
  BY DEF SharedVMInv, SharedVM, Settled, Alone, UnstartedExplained

\* Without overlapping starts the process has one Ruby VM at the most, and
\* every interpreter knows that one: g_global_vm is as good as guarded.
THEOREM OneVMPerProcess == GlobalSpec => []OneRubyVMUnlessOverlap
  <1>1. QED
    BY SharedVMInvariant, SharedOneVM, PTL

\* Without overlapping starts a script is handed to a VM that runs, or to one
\* whose start failed and whose last_error still says so.
THEOREM FailedStartIsRecorded == GlobalSpec => []UnstartedExplained
  <1>1. QED
    BY SharedVMInvariant, SharedExplains, PTL
-----------------------------------------------------------------------------

\* A step of a call that does not return leaves everything it has told alone;
\* one that returns an error tells it; HandOver leaves it to the script thread.
LEMMA CallTells ==
  ASSUME ToldInv, NEW c \in Calls, CallStep(c)
  PROVE  \A d \in Calls : CallTold(d)'
  <1>1. at \in [Calls -> Place] /\ told \in [Calls -> Seq(Codes)]
        /\ returned \in [Calls -> SUBSET Codes]
        /\ script \in [Calls -> {"none", "queued", "sent", "over"}]
    BY DEF ToldInv, GlobalTypeOK
  <1>2. CallTold(c)
    BY DEF ToldInv
  <1>3. at[c] # "returned"
    BY DEF CallStep, Check, BuildFails, Create, CreateNull, TestVM, TestNull, Remember, StartOnNull,
           StartAgain, Start, OpenChannel, OpenFails, Spawn, SpawnFails, Adopt,
           AdoptNull, HandOver
  <1>4. script[c] = "none" /\ returned[c] = {} /\ told[c] = <<>>
    BY <1>2, <1>3 DEF CallTold
  <1>5. \A d \in Calls \ {c} :
          /\ at'[d] = at[d] /\ script'[d] = script[d]
          /\ returned'[d] = returned[d] /\ told'[d] = told[d]
    BY <1>1 DEF CallStep, Check, BuildFails, Create, CreateNull, TestVM, TestNull, Remember,
         StartOnNull, StartAgain, Start, OpenChannel, OpenFails, Spawn, SpawnFails,
         Adopt, AdoptNull, HandOver, FailCall, Tell, GoTo, callVars, scriptVars
  <1>6. \A d \in Calls \ {c} : CallTold(d)'
    BY <1>5 DEF ToldInv, CallTold
  <1>7. SUFFICES CallTold(c)'
    BY <1>6
  <1>8. ASSUME NEW toldCode \in Codes, NEW code \in Codes \ {0},
               FailCall(c, toldCode, code), UNCHANGED script
        PROVE  CallTold(c)'
    <2>1. told'[c] = <<toldCode>>
      BY <1>1, <1>4, <1>8 DEF FailCall, Tell
    <2>2. Len(told'[c]) = 1
      BY <2>1
    <2>3. at'[c] = "returned" /\ returned'[c] = {code} /\ script'[c] = "none"
      BY <1>1, <1>4, <1>8 DEF FailCall, GoTo
    <2>4. QED
      BY <2>2, <2>3 DEF CallTold
  <1>9. CASE HandOver(c)
    BY <1>1, <1>4, <1>9 DEF HandOver, GoTo, CallTold
  <1>10. CASE BuildFails(c) \/ TestNull(c)
    BY <1>8, <1>10 DEF BuildFails, TestNull, Codes
  <1>11. CASE StartOnNull(c) \/ StartAgain(c) \/ OpenFails(c) \/ SpawnFails(c)
    BY <1>8, <1>11 DEF StartOnNull, StartAgain, OpenFails, SpawnFails, Codes
  <1>12. CASE \/ Check(c) \/ Create(c) \/ CreateNull(c) \/ TestVM(c) \/ Remember(c)
              \/ Start(c) \/ OpenChannel(c) \/ Spawn(c) \/ Adopt(c) \/ AdoptNull(c)
    <2>1. at'[c] # "returned"
      BY <1>1, <1>3, <1>12
         DEF Check, Create, CreateNull, TestVM, Remember, Start, OpenChannel, Spawn,
             Adopt, AdoptNull, GoTo, callVars
    <2>2. /\ script'[c] = script[c] /\ returned'[c] = returned[c]
          /\ told'[c] = told[c]
      BY <1>12 DEF Check, Create, CreateNull, TestVM, Remember, Start, OpenChannel,
                   Spawn, Adopt, AdoptNull, callVars, scriptVars
    <2>3. QED
      BY <1>4, <2>1, <2>2 DEF CallTold
  <1>13. QED
    BY <1>9, <1>10, <1>11, <1>12 DEF CallStep

\* The answer of the VM is what the script thread tells the task.
LEMMA AnsweredTells ==
  ASSUME ToldInv, NEW c \in Calls, Answered(c)
  PROVE  \A d \in Calls : CallTold(d)'
  <1>1. told \in [Calls -> Seq(Codes)]
        /\ script \in [Calls -> {"none", "queued", "sent", "over"}]
    BY DEF ToldInv, GlobalTypeOK
  <1>2. at[c] = "returned" /\ returned[c] = {0} /\ told[c] = <<>>
    BY DEF Answered, ToldInv, CallTold
  <1>3. PICK code \in {0, 1} : told' = [told EXCEPT ![c] = Append(@, code)]
    BY DEF Answered, Tell
  <1>4. told'[c] = <<code>>
    BY <1>1, <1>2, <1>3
  <1>5. Len(told'[c]) = 1
    BY <1>4
  <1>6. UNCHANGED <<at, returned>> /\ script' = [script EXCEPT ![c] = "over"]
    BY DEF Answered, callVars
  <1>7. CallTold(c)'
    BY <1>1, <1>2, <1>5, <1>6 DEF CallTold
  <1>8. \A d \in Calls \ {c} : CallTold(d)'
    BY <1>1, <1>3, <1>6 DEF ToldInv, CallTold
  <1>9. QED
    BY <1>7, <1>8

LEMMA ScriptTells ==
  ASSUME ToldInv, NEW c \in Calls, ScriptStep(c)
  PROVE  \A d \in Calls : CallTold(d)'
  <1>1. told \in [Calls -> Seq(Codes)]
        /\ script \in [Calls -> {"none", "queued", "sent", "over"}]
    BY DEF ToldInv, GlobalTypeOK
  <1>2. CASE SendToNull(c)
    BY <1>2 DEF SendToNull, ToldInv, CallTold, callVars, scriptVars
  <1>3. CASE Send(c)
    BY <1>1, <1>3 DEF Send, ToldInv, CallTold, callVars
  <1>4. CASE Complete(c)
    BY <1>4, AnsweredTells DEF Complete
  <1>5. QED
    BY <1>2, <1>3, <1>4 DEF ScriptStep

LEMMA ToldInitially ==
  ASSUME GlobalInit
  PROVE  ToldInv
  BY SharedInit DEF GlobalInit, ToldInv, CallTold, SharedVMInv

LEMMA ToldNext ==
  ASSUME ToldInv, [GlobalNext]_globalVars
  PROVE  ToldInv'
  <1>1. CASE UNCHANGED globalVars
    BY <1>1 DEF globalVars, vmVars, callVars, scriptVars, ToldInv, GlobalTypeOK, CallTold
  <1>2. CASE GlobalNext
    <2>1. PICK c \in Calls : CallStep(c) \/ ScriptStep(c)
      BY <1>2 DEF GlobalNext
    <2>2. GlobalTypeOK'
      BY <2>1, CallTypes, ScriptTypes DEF ToldInv
    <2>3. QED
      BY <2>1, <2>2, CallTells, ScriptTells DEF ToldInv
  <1>3. QED
    BY <1>1, <1>2

LEMMA ToldInvariant == GlobalSpec => []ToldInv
BY ToldInitially, ToldNext, PTL DEF GlobalSpec

\* A call that returns an error has told its completion task once and hands
\* nothing over; one that returns 0 leaves that to its script thread.
THEOREM TaskToldOnce == GlobalSpec => []ToldOnce
  <1>1. ToldInv => ToldOnce
    <2>1. SUFFICES ASSUME ToldInv, NEW c \in Calls
                   PROVE  /\ Len(told[c]) <= 1
                          /\ returned[c] \notin {{}, {0}} => told[c] # <<>> /\ script[c] = "none"
                          /\ returned[c] = {0} => (told[c] # <<>> <=> script[c] = "over")
      BY DEF ToldOnce
    <2>2. CallTold(c)
      BY <2>1 DEF ToldInv
    <2>3. Len(told[c]) = 1 => told[c] # <<>>
      OBVIOUS
    <2>4. CASE at[c] # "returned" /\ script[c] = "none" /\ returned[c] = {} /\ told[c] = <<>>
      BY <2>4
    <2>5. CASE /\ returned[c] = {0}
               /\ \/ script[c] \in {"queued", "sent"} /\ told[c] = <<>>
                  \/ script[c] = "over" /\ Len(told[c]) = 1
      <3>1. CASE script[c] \in {"queued", "sent"} /\ told[c] = <<>>
        <4>1. script[c] # "over"
          BY <3>1
        <4>2. Len(told[c]) <= 1
          BY <3>1
        <4>3. returned[c] \in {{}, {0}}
          BY <2>5
        <4>4. QED
          BY ONLY <3>1, <4>1, <4>2, <4>3, Zenon
      <3>2. CASE script[c] = "over" /\ Len(told[c]) = 1
        <4>1. told[c] # <<>>
          BY <2>3, <3>2
        <4>2. Len(told[c]) <= 1
          BY <3>2
        <4>3. returned[c] \in {{}, {0}}
          BY <2>5
        <4>4. QED
          BY ONLY <3>2, <4>1, <4>2, <4>3, Zenon
      <3>3. QED
        BY <2>5, <3>1, <3>2
    <2>6. CASE /\ script[c] = "none" /\ Len(told[c]) = 1
               /\ \E code \in Codes \ {0} : returned[c] = {code}
      <3>1. returned[c] # {0}
        BY <2>6
      <3>2. Len(told[c]) <= 1
        BY <2>6
      <3>3. told[c] # <<>>
        BY <2>3, <2>6
      <3>4. script[c] = "none"
        BY <2>6
      <3>5. QED
        BY ONLY <3>1, <3>2, <3>3, <3>4, Zenon
    <2>7. QED
      BY <2>2, <2>4, <2>5, <2>6 DEF CallTold
  <1>2. QED
    BY <1>1, ToldInvariant, PTL
-----------------------------------------------------------------------------
(* The null VM.                                                            *)

\* That a VM was lost, and that something was refused, is never undone.
LEMMA LostStays ==
  ASSUME ToldInv, LostVMInv, NEW c \in Calls, CallStep(c) \/ ScriptStep(c), lost
  PROVE  lost' /\ overlap' /\ failures' > 0
  <1>1. failures \in Nat /\ failures > 0 /\ overlap
    BY GlobalAssumption DEF ToldInv, GlobalTypeOK, LostVMInv
  <1>2. lost'
    BY DEF CallStep, ScriptStep, Check, BuildFails, Create, CreateNull, TestVM, TestNull, Remember,
           StartOnNull, StartAgain, Start, OpenChannel, OpenFails, Spawn, SpawnFails,
           Adopt, AdoptNull, HandOver, Send, SendToNull, Complete, Answered
  <1>3. failures' = failures \/ failures' = failures + 1
    BY DEF CallStep, ScriptStep, Check, BuildFails, Create, CreateNull, TestVM, TestNull, Remember,
           StartOnNull, StartAgain, Start, OpenChannel, OpenFails, Spawn, SpawnFails,
           Adopt, AdoptNull, HandOver, Send, SendToNull, Complete, Answered, Refuse
  <1>4. QED
    BY <1>1, <1>2, <1>3, OverlapStays

\* The only step that stores NULL over a VM leaves its mark.
LEMMA LostVMCall ==
  ASSUME ToldInv, LostVMInv, NEW c \in Calls, CallStep(c)
  PROVE  LostVMInv'
  <1> USE DEF Relying, Starting
  <1>1. /\ at \in [Calls -> Place] /\ global \in VM /\ NoVM \notin Calls
        /\ script \in [Calls -> {"none", "queued", "sent", "over"}]
        /\ handed \in [Calls -> VM] /\ failures \in Nat
        /\ own \in [Calls -> VM]
    BY GlobalAssumption DEF ToldInv, GlobalTypeOK
  <1>2. ASSUME NEW p \in Place, GoTo(c, p)
        PROVE  at'[c] = p /\ \A d \in Calls \ {c} : at'[d] = at[d]
    BY <1>1, <1>2 DEF GoTo
  <1>3. overlap => overlap'
    BY OverlapStays
  <1>4. /\ lost => lost' /\ overlap' /\ failures' > 0
        /\ crashed => lost
    BY LostStays DEF LostVMInv, CrashNeedsLostVM
  <1>5. CASE Check(c)
    <2>1. PICK p \in {"creating", "adopting"} :
            /\ p = (IF global = NoVM THEN "creating" ELSE "adopting")
            /\ GoTo(c, p)
            /\ overlap' = (overlap \/ \E d \in Calls : at[d] \in Starting)
            /\ UNCHANGED <<global, own, script, handed, crashed, lost>>
      BY <1>5 DEF Check, scriptVars
    <2>2. OverlapNoticed'
      BY <1>1, <1>2, <2>1 DEF LostVMInv, OverlapNoticed, Place
    <2>3. VMKept => VMKept'
      BY <1>1, <1>2, <2>1 DEF VMKept, Place
    <2>4. QED
      BY <1>4, <2>1, <2>2, <2>3 DEF LostVMInv, CrashNeedsLostVM
  <1>6. CASE CreateNull(c)
    <2>1. /\ at[c] = "creating" /\ global' = NoVM /\ GoTo(c, "testing")
          /\ failures' = failures + 1 /\ own'[c] = NoVM
          /\ lost' = (lost \/ global # NoVM)
          /\ \A d \in Calls \ {c} : own'[d] = own[d]
          /\ UNCHANGED <<script, handed, crashed, overlap>>
      BY <1>1, <1>6 DEF CreateNull, Refuse, scriptVars
    <2>2. at'[c] = "testing" /\ \A d \in Calls \ {c} : at'[d] = at[d]
      BY <1>2, <2>1 DEF Place
    <2>3. OverlapNoticed'
      BY <1>1, <2>1, <2>2 DEF LostVMInv, OverlapNoticed
    <2>4. failures' > 0 /\ (lost' => overlap')
      <3>1. failures' > 0
        BY ONLY <1>1, <2>1
      <3>2. CASE lost
        BY <1>4, <3>1, <3>2
      <3>3. CASE global # NoVM
        <4>1. overlap
          BY <2>1, <3>3 DEF LostVMInv, OverlapNoticed
        <4>2. QED
          BY <1>3, <3>1, <4>1
      <3>4. CASE ~lost /\ global = NoVM
        <4>1. ~lost'
          BY <2>1, <3>4
        <4>2. QED
          BY <3>1, <4>1
      <3>5. QED
        BY <3>2, <3>3, <3>4
    <2>5. ~lost' => VMKept'
      BY <2>1, <2>2 DEF LostVMInv, VMKept
    <2>6. QED
      BY <1>4, <2>1, <2>3, <2>4, <2>5 DEF LostVMInv, CrashNeedsLostVM
  <1>7. CASE Create(c)
    <2>1. /\ at[c] = "creating" /\ global' = c /\ GoTo(c, "testing")
          /\ UNCHANGED <<script, handed, crashed, overlap, lost>>
      BY <1>7 DEF Create, scriptVars
    <2>2. at'[c] = "testing" /\ \A d \in Calls \ {c} : at'[d] = at[d]
      BY <1>2, <2>1 DEF Place
    <2>3. OverlapNoticed'
      BY <1>1, <2>1, <2>2 DEF LostVMInv, OverlapNoticed
    <2>4. VMKept => VMKept'
      BY <1>1, <2>1, <2>2 DEF VMKept
    <2>5. QED
      BY <1>4, <2>1, <2>3, <2>4 DEF LostVMInv, CrashNeedsLostVM
  <1>12. CASE TestVM(c) \/ TestNull(c)
    <2>1. PICK p \in {"remembering", "returned"} :
            /\ at[c] = "testing" /\ GoTo(c, p)
            /\ p = "remembering" => own[c] # NoVM \/ global # NoVM
            /\ \A d \in Calls \ {c} : own'[d] = own[d]
            /\ UNCHANGED <<global, script, handed, crashed, overlap, lost>>
      BY <1>1, <1>12 DEF TestVM, TestNull, Reloaded, FailCall, scriptVars
    <2>2. at'[c] = p /\ \A d \in Calls \ {c} : at'[d] = at[d]
      BY <1>2, <2>1 DEF Place
    <2>3. OverlapNoticed'
      BY <2>1, <2>2 DEF LostVMInv, OverlapNoticed
    <2>4. VMKept => VMKept'
      BY <1>1, <2>1, <2>2 DEF VMKept
    <2>5. QED
      BY <1>4, <2>1, <2>3, <2>4 DEF LostVMInv, CrashNeedsLostVM
  <1>8. CASE HandOver(c)
    <2>1. /\ at[c] = "handing" /\ GoTo(c, "returned")
          /\ script' = [script EXCEPT ![c] = "queued"]
          /\ handed' = [handed EXCEPT ![c] = global]
          /\ UNCHANGED <<global, own, crashed, overlap, lost>>
      BY <1>8 DEF HandOver
    <2>2. at'[c] = "returned" /\ \A d \in Calls \ {c} : at'[d] = at[d]
      BY <1>2, <2>1 DEF Place
    <2>3. OverlapNoticed'
      BY <2>1, <2>2 DEF LostVMInv, OverlapNoticed
    <2>4. VMKept => VMKept'
      BY <1>1, <2>1, <2>2 DEF VMKept
    <2>5. QED
      BY <1>4, <2>1, <2>3, <2>4 DEF LostVMInv, CrashNeedsLostVM
  <1>9. CASE AdoptNull(c)
    <2>1. lost
      BY <1>9 DEF AdoptNull, LostVMInv, VMKept
    <2>2. OverlapNoticed'
      BY <1>9 DEF AdoptNull, callVars, LostVMInv, OverlapNoticed
    <2>3. QED
      BY <1>4, <2>1, <2>2 DEF LostVMInv, CrashNeedsLostVM
  <1>10. CASE \/ BuildFails(c) \/ Remember(c) \/ StartOnNull(c) \/ StartAgain(c)
              \/ Start(c) \/ OpenChannel(c) \/ OpenFails(c) \/ Spawn(c)
              \/ SpawnFails(c) \/ Adopt(c)
    <2>1. PICK p \in {"starting", "opening", "spawning", "handing", "returned"} :
            /\ GoTo(c, p) /\ at[c] \in Starting \union {"adopting"}
            /\ p \in Starting => at[c] \in Starting \ {"creating"}
            /\ p = "handing" => at[c] \in {"spawning", "adopting"}
            /\ at[c] # "testing" /\ \A d \in Calls \ {c} : own'[d] = own[d]
            /\ UNCHANGED <<global, script, handed, crashed, overlap, lost>>
      BY <1>1, <1>10
         DEF BuildFails, Remember, StartOnNull, StartAgain, Start, OpenChannel,
             OpenFails, Spawn, SpawnFails, Adopt, FailCall, scriptVars
    <2>2. at'[c] = p /\ \A d \in Calls \ {c} : at'[d] = at[d]
      BY <1>2, <2>1 DEF Place
    <2>3. OverlapNoticed'
      BY <2>1, <2>2 DEF LostVMInv, OverlapNoticed
    <2>4. VMKept => VMKept'
      BY <1>1, <2>1, <2>2 DEF VMKept
    <2>5. QED
      BY <1>4, <2>1, <2>3, <2>4 DEF LostVMInv, CrashNeedsLostVM
  <1>11. QED
    BY <1>5, <1>6, <1>7, <1>8, <1>9, <1>10, <1>12 DEF CallStep

LEMMA LostVMScript ==
  ASSUME ToldInv, LostVMInv, NEW c \in Calls, ScriptStep(c)
  PROVE  LostVMInv'
  <1>1. /\ at \in [Calls -> Place]
        /\ script \in [Calls -> {"none", "queued", "sent", "over"}]
    BY DEF ToldInv, GlobalTypeOK
  <1>2. /\ lost => lost' /\ overlap' /\ failures' > 0
        /\ lost' = lost
    BY LostStays DEF ScriptStep, Send, SendToNull, Complete, Answered
  <1>3. UNCHANGED <<at, own, global, handed, overlap>>
    BY DEF ScriptStep, Send, SendToNull, Complete, Answered, callVars, scriptVars
  <1>4. OverlapNoticed'
    BY <1>3 DEF LostVMInv, OverlapNoticed
  <1>5. \A d \in Calls : script[d] = "none" => script'[d] = "none"
    BY <1>1 DEF ScriptStep, Send, SendToNull, Complete, Answered, scriptVars
  <1>6. VMKept => VMKept'
    BY <1>3, <1>5 DEF VMKept
  <1>7. crashed' => crashed \/ lost
    BY DEF ScriptStep, Send, SendToNull, Complete, Answered, LostVMInv, VMKept
  <1>9. crashed => lost
    BY DEF LostVMInv, CrashNeedsLostVM
  <1>8. QED
    BY <1>2, <1>4, <1>6, <1>7, <1>9 DEF LostVMInv, CrashNeedsLostVM

\* A null VM is followed only when a call that failed to create one has stored
\* its NULL over the VM of another call, returned or not, and starts have
\* overlapped.
THEOREM CrashTakesOverlap == GlobalSpec => []CrashNeedsLostVM
  <1>1. GlobalInit => LostVMInv
    BY DEF GlobalInit, LostVMInv, OverlapNoticed, VMKept, CrashNeedsLostVM, Starting,
           Relying
  <1>2. ToldInv /\ LostVMInv /\ [GlobalNext]_globalVars => LostVMInv'
    <2>1. UNCHANGED globalVars /\ LostVMInv => LostVMInv'
      BY DEF globalVars, callVars, scriptVars, LostVMInv, OverlapNoticed, VMKept,
             CrashNeedsLostVM
    <2>2. QED
      BY <2>1, LostVMCall, LostVMScript DEF GlobalNext
  <1>3. LostVMInv => CrashNeedsLostVM
    BY DEF LostVMInv
  <1>4. QED
    BY <1>1, <1>2, <1>3, ToldInvariant, PTL DEF GlobalSpec
=============================================================================
