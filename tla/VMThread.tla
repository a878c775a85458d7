------------------------------- MODULE VMThread -------------------------------
(***************************************************************************)
(* exec-main-vm.c: ExecMainRubyVM installs the files and boots Ruby, which *)
(* takes over the signal actions of the process; the actions of the host   *)
(* are saved in statics and put back, chained or given up.                 *)
(*                                                                         *)
(* The signal actions and the statics belong to the process.  It may be    *)
(* killed at any time, and started again on the tree it has left.          *)
(***************************************************************************)
EXTENDS Installer

CONSTANT MaxCrashes    \* times the process is killed and started again

ASSUME CrashAssumption == MaxCrashes \in Nat

Signals == {"PIPE", "CHLD", "SEGV"}

\* The host's action, Ruby's, ChainedSigchldHandler, or SIG_DFL.
Actions == {"host", "ruby", "chained", "default"}

VARIABLES
  action,     \* the action of each signal
  original,   \* original_sigpipe, original_sigchld, original_sigsegv
  crashes

signalVars == <<action, original>>
threadVars == <<installVars, signalVars, crashes>>

Booting == {"installed", "saved", "initialised", "restored", "chained"}
Resting == {"idle", "failed", "running", "ended"}

ThreadTypeOK ==
  /\ InstallerTypeOK(Booting \union Resting)
  /\ action \in [Signals -> Actions] /\ original \in [Signals -> Actions]
  /\ crashes \in 0..MaxCrashes

\* What a process starts with: a static struct sigaction is SIG_DFL.
FreshActions == [s \in Signals |-> "host"]
FreshOriginals == [s \in Signals |-> "default"]

ThreadInit ==
  /\ InstallerInit
  /\ action = FreshActions /\ original = FreshOriginals
  /\ crashes = 0

-----------------------------------------------------------------------------
(* run_main_vm_node.  A step of the boot goes from one place to the next.  *)

From(b, place, next) ==
  /\ at[b] = place
  /\ GoTo(b, next)
  /\ UNCHANGED <<diskVars, pos, error, refusals, refused, crashes>>

\* Variant: the actions are saved when Ruby has been initialised.
SaveOriginalsLate(b) ==
  /\ From(b, "installed", "saved")
  /\ original' = [s \in Signals |-> "ruby"]
  /\ UNCHANGED action

SaveOriginals(b) ==
  /\ From(b, "installed", "saved")
  /\ original' = action
  /\ UNCHANGED action

\* ruby_sysinit and ruby_init overwrite the actions.
InitRuby(b) ==
  /\ From(b, "saved", "initialised")
  /\ action' = [s \in Signals |-> "ruby"]
  /\ UNCHANGED original

RestoreCritical(b) ==
  /\ From(b, "initialised", "restored")
  /\ action' = [action EXCEPT !["PIPE"] = original["PIPE"]]
  /\ UNCHANGED original

SetupCompromise(b) ==
  /\ From(b, "restored", "chained")
  /\ action' = [action EXCEPT !["CHLD"] = "chained"]
  /\ UNCHANGED original

\* Signal.trap('PIPE', 'SYSTEM_DEFAULT'), then the loop's script runs.
TrapAndRun(b) ==
  /\ From(b, "chained", "running")
  /\ action' = [action EXCEPT !["PIPE"] = "default"]
  /\ UNCHANGED original

\* A script has ended the VM; the process goes on.
EndRuby(b) == From(b, "running", "ended") /\ UNCHANGED signalVars

\* Whose handlers ChainedSigchldHandler comes to: "chained" is itself, again.
Chain == IF original["CHLD"] = "default" THEN {} ELSE {original["CHLD"]}

\* The process is killed and started again: the tree stays.
Crash ==
  /\ crashes < MaxCrashes
  /\ crashes' = crashes + 1
  /\ at' = Idle /\ pos' = AtStart /\ error' = NoError /\ refused' = {}
  /\ action' = FreshActions /\ original' = FreshOriginals
  /\ UNCHANGED <<diskVars, refusals>>

BootStep(b) ==
  \/ InstallStep(b) /\ UNCHANGED <<signalVars, crashes>>
  \/ SaveOriginals(b) \/ InitRuby(b) \/ RestoreCritical(b)
  \/ SetupCompromise(b) \/ TrapAndRun(b)

\* ruby_vm_start makes the thread, which calls ExecMainRubyVM.
Begin(b) == (Install(b) \/ InstallFails(b)) /\ UNCHANGED <<signalVars, crashes>>

ThreadNext == Crash \/ \E b \in Boots : Begin(b) \/ BootStep(b) \/ EndRuby(b)

ThreadSpec == ThreadInit /\ [][ThreadNext]_threadVars

\* A thread that boots goes on.
ThreadFairSpec == ThreadSpec /\ \A b \in Boots : WF_threadVars(BootStep(b))

-----------------------------------------------------------------------------

\* The other VM threads that have begun in this life of the process.
Rivals(b) == { d \in Boots \ {b} : at[d] # "idle" }

Booted(b) == at[b] \in Booting \union {"running"}

\* Safety: a VM boots on whole files when nothing was refused to it, nor to the
\* other VM threads of the process, and these are not installing any more:
\* installations that race make good what they spoil, and each repairs what
\* a killed process, or an earlier failure, has left on the disk.
BootsOnWholeFiles ==
  \A b \in Boots :
    /\ Booted(b)
    /\ \A d \in Rivals(b) \union {b} : at[d] \notin Installing /\ d \notin refused
    => Whole

\* Safety: an installation reports a failure only when it was refused
\* something: neither the tree of an earlier boot nor a rival makes it fail.
FailureExplained == \A b \in Boots : at[b] = "failed" => b \in refused

\* Safety: SIGCHLD comes to the host's handler, once, when a VM runs and no
\* other VM thread of the process has got to its signals.  It comes to nobody
\* else: ChainedSigchldHandler "chains to both Ruby and Android" says its
\* comment, but Ruby's handler is no longer in force and nothing calls it.  A
\* second VM thread saves what the first has put in force, so the chain may come
\* to itself, or to Ruby's handler and not the host's: that is left out here.
ChainReachesHost ==
  \A b \in Boots :
    /\ at[b] = "running"
    /\ \A d \in Rivals(b) : at[d] \in Installing \union {"installed", "failed"}
    => action["CHLD"] = "chained" /\ Chain = {"host"}

\* Liveness: every VM thread that begins gets to run Ruby, or fails, or the
\* process is killed.
BootEnds ==
  \A b \in Boots :
    at[b] \in Installing ~> at[b] \in Resting

-----------------------------------------------------------------------------
(* The inductive invariant behind FailureExplained and ChainReachesHost.    *)

\* What is put down as a failure was refused.
Refused(b) == error[b] \/ at[b] = "failed" => b \in refused

\* The places at which a VM thread has not touched the signals.
Unsaved == Installing \union {"idle", "installed", "failed"}

\* The CHLD actions, when no other VM thread has touched the signals.
Signalled(b) ==
  /\ at[b] \in Unsaved => action["CHLD"] = "host"
  /\ at[b] \in (Booting \ {"installed"}) \union {"running"} => original["CHLD"] = "host"
  /\ at[b] \in {"chained", "running"} => action["CHLD"] = "chained"

ThreadInv ==
  /\ ThreadTypeOK
  /\ \A b \in Boots : Refused(b)
  /\ \A b \in Boots : (\A d \in Boots \ {b} : at[d] \in Unsaved) => Signalled(b)
-----------------------------------------------------------------------------
(* The inductive invariant behind BootsOnWholeFiles.                        *)

\* VM thread b has opened p and has chunk c of it yet to write.
Writing(b, p, c) ==
  at[b] = "writing" /\ Entry(b).path = p /\ pos[b].chunk <= c

\* VM thread b has yet to open p, and empties it then.
ToCome(b, p) ==
  /\ at[b] \in Installing
  /\ \E j \in DOMAIN Jobs : \E i \in DOMAIN Jobs[j] :
       /\ ~Jobs[j][i].dir /\ Jobs[j][i].path = p
       /\ \/ j > pos[b].job
          \/ j = pos[b].job /\ i > pos[b].item
          \/ j = pos[b].job /\ i = pos[b].item /\ at[b] # "writing"

\* Where a VM thread is that has not begun, or is between two files.
Placed(b) ==
  /\ at[b] = "idle" => pos[b] = FirstChunk(1, 1) /\ b \notin refused
  /\ at[b] \in {"opening", "entry"} => pos[b].chunk = 1

\* A chunk that is not on the disk is still to be written: by a VM thread that
\* has the file open, or by each that has begun.
Owed(p, c) ==
  \/ c \in files[p]
  \/ \E b \in Boots : Writing(b, p, c)
  \/ \A b \in Boots : at[b] # "idle" => ToCome(b, p)

WholeInv ==
  /\ \A b \in Boots : Placed(b)
  /\ refused = {} => \A p \in Paths : \A c \in 1..Chunks : Owed(p, c)
=============================================================================
