-------------------------- MODULE GlobalInterpreter --------------------------
(***************************************************************************)
(* ruby-interpreter.c: every RubyInterpreter of the process shares one     *)
(* RubyVM, kept in g_global_vm, which the first ruby_interpreter_enqueue   *)
(* creates and starts (ruby_vm_create and ruby_vm_start of ruby-vm.c).     *)
(*                                                                         *)
(* g_global_vm has no lock.  Each call runs on a thread of its own, and    *)
(* its reads and writes of g_global_vm interleave with those of others.    *)
(* Where the code names g_global_vm again after a write, a build may       *)
(* reload it or keep the value in a register: both are allowed below.      *)
(*                                                                         *)
(* A VM is named by the call whose ruby_vm_create made it.  What happens   *)
(* to a script after ruby_vm_enqueue is ScriptTransaction's subject; here  *)
(* the script thread sends the script, then it may invoke the callback.    *)
(***************************************************************************)
EXTENDS Integers, Sequences

CONSTANTS
  Calls,           \* calls of ruby_interpreter_enqueue
  Interpreters,
  InterpreterOf,   \* the interpreter each call is made on
  MaxFailures      \* allocations, sockets and threads that may be refused

NoVM == "no vm"

Codes == {0, 1, 2, 3, -1, -2, -3, -4, -8}

ASSUME GlobalAssumption ==
  /\ InterpreterOf \in [Calls -> Interpreters]
  /\ MaxFailures \in Nat
  /\ NoVM \notin Calls

VARIABLES
  global,     \* g_global_vm
  started,    \* vm_started of each VM
  channel,    \* commands_channel of each VM has been created
  rubies,     \* VM threads started on each VM
  error,      \* the code in last_error of each VM
  listener,   \* the interpreters whose log_listener each VM holds: one, once made
  vmOf,       \* the vm field of each interpreter
  at,         \* where each call is
  own,        \* the VM pointer each call works with
  returned,   \* the codes each call has returned: at most one
  script,     \* where the script thread of each call is
  handed,     \* the VM each script was handed to
  told,       \* codes passed to the completion task of each call
  failures,   \* refusals so far
  crashed,    \* a null pointer was followed
  overlap,    \* a call has come while another was starting the VM
  lost        \* a NULL has been stored in g_global_vm over a VM

vmVars == <<started, channel, rubies, error, listener>>
callVars == <<at, own, returned>>
scriptVars == <<script, handed, told>>
globalVars ==
  <<global, vmVars, vmOf, callVars, scriptVars, failures, crashed, overlap, lost>>

VM == Calls \union {NoVM}

Place == {"idle", "creating", "testing", "remembering", "starting", "opening", "spawning",
          "adopting", "handing", "returned"}

\* The places of a call that has found g_global_vm NULL.
Starting == {"creating", "testing", "remembering", "starting", "opening", "spawning"}

GlobalTypeOK ==
  /\ global \in VM
  /\ started \in [Calls -> BOOLEAN] /\ channel \in [Calls -> BOOLEAN]
  /\ rubies \in [Calls -> Nat]
  /\ error \in [Calls -> Codes]
  /\ listener \in [Calls -> SUBSET Interpreters]
  /\ vmOf \in [Interpreters -> VM]
  /\ at \in [Calls -> Place] /\ own \in [Calls -> VM]
  /\ returned \in [Calls -> SUBSET Codes]
  /\ script \in [Calls -> {"none", "queued", "sent", "over"}]
  /\ handed \in [Calls -> VM]
  /\ told \in [Calls -> Seq(Codes)]
  /\ failures \in 0..MaxFailures
  /\ crashed \in BOOLEAN /\ overlap \in BOOLEAN /\ lost \in BOOLEAN

GlobalInit ==
  /\ global = NoVM
  /\ started = [v \in Calls |-> FALSE] /\ channel = [v \in Calls |-> FALSE]
  /\ rubies = [v \in Calls |-> 0] /\ error = [v \in Calls |-> 0]
  /\ listener = [v \in Calls |-> {}]
  /\ vmOf = [i \in Interpreters |-> NoVM]
  /\ at = [c \in Calls |-> "idle"] /\ own = [c \in Calls |-> NoVM]
  /\ returned = [c \in Calls |-> {}]
  /\ script = [c \in Calls |-> "none"]
  /\ handed = [c \in Calls |-> NoVM]
  /\ told = [c \in Calls |-> <<>>]
  /\ failures = 0
  /\ crashed = FALSE /\ overlap = FALSE /\ lost = FALSE

GoTo(c, place) == at' = [at EXCEPT ![c] = place]

Tell(c, code) == told' = [told EXCEPT ![c] = Append(@, code)]

\* A value of g_global_vm after the call has worked with own[c].
Reloaded(c) == {own[c], global}

\* The environment refuses an allocation, a socket pair or a thread.
Refuse == failures < MaxFailures /\ failures' = failures + 1

\* Variant: the completion task is not invoked.
FailCallSilently(c, toldCode, code) ==
  /\ returned' = [returned EXCEPT ![c] = {code}]
  /\ GoTo(c, "returned")
  /\ UNCHANGED told

\* The completion task is invoked with one code and another is returned.
FailCall(c, toldCode, code) ==
  /\ Tell(c, toldCode)
  /\ returned' = [returned EXCEPT ![c] = {code}]
  /\ GoTo(c, "returned")

-----------------------------------------------------------------------------
(* ruby_interpreter_enqueue up to the VM.                                  *)

\* Variant: every call makes a VM.
CheckAlways(c) ==
  /\ at[c] = "idle"
  /\ GoTo(c, "creating")
  /\ overlap' = (overlap \/ \E d \in Calls : at[d] \in Starting)
  /\ UNCHANGED <<global, vmVars, vmOf, own, returned, scriptVars, failures, crashed, lost>>

\* if (g_global_vm == NULL)
Check(c) ==
  /\ at[c] = "idle"
  /\ GoTo(c, IF global = NoVM THEN "creating" ELSE "adopting")
  /\ overlap' = (overlap \/ \E d \in Calls : at[d] \in Starting)
  /\ UNCHANGED <<global, vmVars, vmOf, own, returned, scriptVars, failures, crashed, lost>>

\* The main script cannot be allocated.
BuildFails(c) ==
  /\ at[c] = "creating" /\ Refuse
  /\ FailCall(c, 1, 1)
  /\ UNCHANGED <<global, vmVars, vmOf, own, script, handed, crashed, overlap, lost>>

\* g_global_vm = ruby_vm_create(...): the fields of the fresh VM have their
\* initial values already.
Create(c) ==
  /\ at[c] = "creating"
  /\ global' = c
  /\ own' = [own EXCEPT ![c] = c]
  /\ listener' = [listener EXCEPT ![c] = {InterpreterOf[c]}]
  /\ GoTo(c, "testing")
  /\ UNCHANGED <<started, channel, rubies, error, vmOf, returned, scriptVars,
                 failures, crashed, overlap, lost>>

\* ruby_vm_create gives NULL, and that is stored, whatever is there.
CreateNull(c) ==
  /\ at[c] = "creating" /\ Refuse
  /\ global' = NoVM
  /\ lost' = (lost \/ global # NoVM)
  /\ own' = [own EXCEPT ![c] = NoVM]
  /\ GoTo(c, "testing")
  /\ UNCHANGED <<vmVars, vmOf, returned, scriptVars, crashed, overlap>>

\* if (!g_global_vm), after the store: what another call has stored in between
\* may be taken for the call's own.
TestVM(c) ==
  /\ at[c] = "testing"
  /\ \E v \in Reloaded(c) \ {NoVM} : own' = [own EXCEPT ![c] = v]
  /\ GoTo(c, "remembering")
  /\ UNCHANGED <<global, vmVars, vmOf, returned, scriptVars, failures, crashed, overlap, lost>>

\* Variant: the NULL is not noticed.
TestNullUnnoticed(c) ==
  /\ at[c] = "testing" /\ NoVM \in Reloaded(c)
  /\ GoTo(c, "handing")
  /\ UNCHANGED <<global, vmVars, vmOf, own, returned, scriptVars, failures, crashed, overlap, lost>>

TestNull(c) ==
  /\ at[c] = "testing" /\ NoVM \in Reloaded(c)
  /\ FailCall(c, 2, 2)
  /\ UNCHANGED <<global, vmVars, vmOf, own, script, handed, failures, crashed, overlap, lost>>

\* interpreter->vm = g_global_vm
Remember(c) ==
  /\ at[c] = "remembering"
  /\ \E v \in Reloaded(c) : vmOf' = [vmOf EXCEPT ![InterpreterOf[c]] = v]
  /\ GoTo(c, "starting")
  /\ UNCHANGED <<global, vmVars, own, returned, scriptVars, failures, crashed, overlap, lost>>

-----------------------------------------------------------------------------
(* ruby_vm_start, and the answer of ruby_interpreter_enqueue to its result. *)

Error(v, code) == error' = [error EXCEPT ![v] = code]

StartOnNull(c) ==
  /\ at[c] = "starting" /\ NoVM \in Reloaded(c)
  /\ FailCall(c, 3, -1)
  /\ UNCHANGED <<global, vmVars, vmOf, own, script, handed, failures, crashed, overlap, lost>>

StartAgain(c) ==
  /\ at[c] = "starting"
  /\ \E v \in Reloaded(c) \ {NoVM} : started[v] /\ Error(v, -8)
  /\ FailCall(c, 3, -8)
  /\ UNCHANGED <<global, started, channel, rubies, listener, vmOf, own,
                 script, handed, failures, crashed, overlap, lost>>

\* Not started: any previous error is cleared.
Start(c) ==
  /\ at[c] = "starting"
  /\ \E v \in Reloaded(c) \ {NoVM} :
       ~started[v] /\ Error(v, 0) /\ own' = [own EXCEPT ![c] = v]
  /\ GoTo(c, "opening")
  /\ UNCHANGED <<global, started, channel, rubies, listener, vmOf, returned,
                 scriptVars, failures, crashed, overlap, lost>>

OpenChannel(c) ==
  /\ at[c] = "opening"
  /\ channel' = [channel EXCEPT ![own[c]] = TRUE]
  /\ GoTo(c, "spawning")
  /\ UNCHANGED <<global, started, rubies, error, listener, vmOf, own, returned,
                 scriptVars, failures, crashed, overlap, lost>>

\* g_global_vm keeps the VM that did not start.
OpenFails(c) ==
  /\ at[c] = "opening" /\ Refuse
  /\ Error(own[c], -2)
  /\ FailCall(c, 3, -2)
  /\ UNCHANGED <<global, started, channel, rubies, listener, vmOf, own,
                 script, handed, crashed, overlap, lost>>

Spawn(c) ==
  /\ at[c] = "spawning"
  /\ rubies' = [rubies EXCEPT ![own[c]] = @ + 1]
  /\ started' = [started EXCEPT ![own[c]] = TRUE]
  /\ GoTo(c, "handing")
  /\ UNCHANGED <<global, channel, error, listener, vmOf, own, returned,
                 scriptVars, failures, crashed, overlap, lost>>

\* Variant: a failed start leaves no error behind.
SpawnFailsSilently(c) ==
  /\ at[c] = "spawning" /\ Refuse
  /\ FailCall(c, 3, -3)
  /\ UNCHANGED <<global, vmVars, vmOf, own, script, handed, crashed, overlap, lost>>

\* No memory for the arguments, or no thread.
SpawnFails(c) ==
  /\ at[c] = "spawning" /\ Refuse
  /\ \E code \in {-1, -3} : Error(own[c], code) /\ FailCall(c, 3, code)
  /\ UNCHANGED <<global, started, channel, rubies, listener, vmOf, own,
                 script, handed, crashed, overlap, lost>>

-----------------------------------------------------------------------------
(* The VM exists: take it over, and hand the script to it.                 *)

Adopt(c) ==
  /\ at[c] = "adopting" /\ global # NoVM
  /\ listener' = [listener EXCEPT ![global] = {InterpreterOf[c]}]
  /\ vmOf' = [vmOf EXCEPT ![InterpreterOf[c]] = global]
  /\ GoTo(c, "handing")
  /\ UNCHANGED <<global, started, channel, rubies, error, own, returned,
                 scriptVars, failures, crashed, overlap, lost>>

\* Another call has stored NULL since the check.
AdoptNull(c) ==
  /\ at[c] = "adopting" /\ global = NoVM
  /\ crashed' = TRUE
  /\ UNCHANGED <<global, vmVars, vmOf, callVars, scriptVars, failures, overlap, lost>>

\* ruby_vm_enqueue(g_global_vm, ...): it never fails, so 0 is returned.
HandOver(c) ==
  /\ at[c] = "handing"
  /\ script' = [script EXCEPT ![c] = "queued"]
  /\ handed' = [handed EXCEPT ![c] = global]
  /\ returned' = [returned EXCEPT ![c] = {0}]
  /\ GoTo(c, "returned")
  /\ UNCHANGED <<global, vmVars, vmOf, own, told, failures, crashed, overlap, lost>>

\* The script thread reads the script and writes it to the channel.
Send(c) ==
  /\ script[c] = "queued" /\ handed[c] # NoVM
  /\ script' = [script EXCEPT ![c] = "sent"]
  /\ UNCHANGED <<global, vmVars, vmOf, callVars, handed, told, failures, crashed, overlap, lost>>

SendToNull(c) ==
  /\ script[c] = "queued" /\ handed[c] = NoVM
  /\ crashed' = TRUE
  /\ UNCHANGED <<global, vmVars, vmOf, callVars, scriptVars, failures, overlap, lost>>

\* Variant: the digit of the answer is passed on as a character.
AnsweredRaw(c) ==
  /\ script[c] = "sent"
  /\ rubies[handed[c]] > 0 \/ ~channel[handed[c]]
  /\ script' = [script EXCEPT ![c] = "over"]
  /\ \E code \in {0, 1} : Tell(c, 48 + code)
  /\ UNCHANGED <<global, vmVars, vmOf, callVars, handed, crashed, overlap, lost>>

\* The answer comes from a running VM, or is whatever a descriptor that was
\* never set makes of it.  A VM with a channel but no thread never answers.
Answered(c) ==
  /\ script[c] = "sent"
  /\ rubies[handed[c]] > 0 \/ ~channel[handed[c]]
  /\ script' = [script EXCEPT ![c] = "over"]
  /\ \E code \in {0, 1} : Tell(c, code)
  /\ UNCHANGED <<global, vmVars, vmOf, callVars, handed, crashed, overlap, lost>>

Complete(c) == Answered(c) /\ UNCHANGED failures

CallStep(c) ==
  \/ Check(c) \/ BuildFails(c) \/ Create(c) \/ CreateNull(c)
  \/ TestVM(c) \/ TestNull(c) \/ Remember(c)
  \/ StartOnNull(c) \/ StartAgain(c) \/ Start(c)
  \/ OpenChannel(c) \/ OpenFails(c) \/ Spawn(c) \/ SpawnFails(c)
  \/ Adopt(c) \/ AdoptNull(c) \/ HandOver(c)

ScriptStep(c) == Send(c) \/ SendToNull(c) \/ Complete(c)

GlobalNext == ~crashed /\ \E c \in Calls : CallStep(c) \/ ScriptStep(c)

GlobalSpec == GlobalInit /\ [][GlobalNext]_globalVars

-----------------------------------------------------------------------------

\* Safety: the process runs one Ruby VM at the most, as Ruby requires.
OneRubyVM ==
  \A v, w \in Calls :
    /\ rubies[v] <= 1
    /\ rubies[v] > 0 /\ rubies[w] > 0 => v = w

\* Safety: as long as no call comes while another starts the VM, there is one
\* VM at the most, and it is the one every interpreter knows.
OneRubyVMUnlessOverlap ==
  ~overlap =>
    /\ OneRubyVM
    /\ \A v \in Calls : rubies[v] > 0 => global = v
    /\ \A i \in Interpreters : vmOf[i] \in {NoVM, global}

\* Safety: as long as no call comes while another starts the VM, a script
\* goes to a VM that does not run only when its start has failed, and then
\* last_error still says so.
UnstartedExplained ==
  ~overlap =>
    \A c \in Calls : script[c] # "none" =>
      \/ rubies[handed[c]] = 1 /\ channel[handed[c]]
      \/ error[handed[c]] < 0 /\ failures > 0

\* Safety: a call that returns an error has told its completion task so,
\* once, and its script is never handed over; a call that returns 0 leaves
\* it to the script thread.
ToldOnce ==
  \A c \in Calls :
    /\ Len(told[c]) <= 1
    /\ returned[c] \notin {{}, {0}} => told[c] # <<>> /\ script[c] = "none"
    /\ returned[c] = {0} => (told[c] # <<>> <=> script[c] = "over")

\* Safety: a null VM is followed only when a call that failed to create one has
\* stored its NULL over the VM of another call, whether or not it has returned
\* its error yet.  That takes a call that came while another was starting the VM.
CrashNeedsLostVM == crashed => lost /\ overlap /\ failures > 0

-----------------------------------------------------------------------------
(* The inductive invariant behind OneRubyVMUnlessOverlap, UnstartedExplained *)
(* and their theorems.                                                     *)

\* A call that starts the VM is alone: the others have not begun, or have
\* returned an error, and no script has been handed over.
Alone(c) ==
  /\ \A d \in Calls : d # c => at[d] \in {"idle", "returned"}
  /\ \A d \in Calls : script[d] = "none" /\ rubies[d] = 0

\* The VM of a call that starts it, as far as the call has got.
Progress(c) ==
  /\ at[c] = "creating" => global = NoVM
  /\ at[c] = "testing" => global = own[c] /\ own[c] \in {c, NoVM}
  /\ at[c] \notin {"creating", "testing"} => global = c /\ own[c] = c
  /\ at[c] = "spawning" => channel[c]

\* The VM that has been started, or whose start has failed.
Settled(v) ==
  \/ rubies[v] = 1 /\ channel[v]
  \/ rubies[v] = 0 /\ error[v] < 0 /\ failures > 0

SharedVM ==
  /\ ~crashed
  /\ \A c \in Calls : at[c] \in Starting => Alone(c) /\ Progress(c)
  /\ \A c \in Calls : at[c] \in {"adopting", "handing"} => global # NoVM
  /\ \A c \in Calls : script[c] # "none" => global # NoVM /\ handed[c] = global
  /\ \A v \in Calls : rubies[v] > 0 => global = v
  /\ \A v \in Calls : started[v] => rubies[v] > 0
  /\ global # NoVM =>
       Settled(global) \/ \E c \in Calls : at[c] \in Starting
  /\ \A i \in Interpreters : vmOf[i] \in {NoVM, global}

SharedVMInv == GlobalTypeOK /\ (~overlap => SharedVM)
-----------------------------------------------------------------------------
(* The inductive invariant behind ToldOnce: how far a call and its script   *)
(* are, and what its completion task has been told.                         *)

CallTold(c) ==
  \/ at[c] # "returned" /\ script[c] = "none" /\ returned[c] = {} /\ told[c] = <<>>
  \/ /\ at[c] = "returned" /\ returned[c] = {0}
     /\ \/ script[c] \in {"queued", "sent"} /\ told[c] = <<>>
        \/ script[c] = "over" /\ Len(told[c]) = 1
  \/ /\ at[c] = "returned" /\ script[c] = "none"
     /\ \E code \in Codes \ {0} : returned[c] = {code}
     /\ Len(told[c]) = 1

ToldInv == GlobalTypeOK /\ \A c \in Calls : CallTold(c)
-----------------------------------------------------------------------------
(* The inductive invariant behind CrashNeedsLostVM.                         *)

\* The places of a call that has seen a VM in g_global_vm, or put it there.
Relying == {"remembering", "starting", "opening", "spawning", "adopting", "handing"}

\* Nobody relies on a VM that is not there.
VMKept ==
  \A c \in Calls :
    /\ at[c] \in Relying => global # NoVM
    /\ at[c] = "testing" /\ own[c] # NoVM => global # NoVM
    /\ script[c] # "none" => global # NoVM /\ handed[c] # NoVM

\* Two calls that start the VM overlap; so do a call that is about to create
\* the VM and the one that has done so.
OverlapNoticed ==
  \A c \in Calls :
    /\ at[c] \in Starting => overlap \/ \A d \in Calls \ {c} : at[d] \notin Starting
    /\ at[c] = "creating" => overlap \/ global = NoVM

LostVMInv ==
  /\ OverlapNoticed
  /\ lost \/ VMKept
  /\ lost => overlap /\ failures > 0
  /\ CrashNeedsLostVM
=============================================================================
