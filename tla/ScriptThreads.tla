---------------------------- MODULE ScriptThreads ----------------------------
(***************************************************************************)
(* The C side of ruby-vm.c: ruby_vm_enqueue starts one detached thread per *)
(* request, and script_thread_func runs a transaction under socket_lock:   *)
(* write the length, write the script, read two bytes.                     *)
(*                                                                         *)
(* A signal handler that runs while a call blocks interrupts the call,     *)
(* since Ruby installs its handlers without SA_RESTART; MaxInterrupts      *)
(* bounds how many do.  A write to a socket whose other end is closed      *)
(* raises SIGPIPE, which run_main_vm_node has set to its default action:   *)
(* it ends the process.                                                    *)
(***************************************************************************)
EXTENDS CommChannel

CONSTANTS
  MaxInterrupts,   \* calls a signal may interrupt
  MayFailSpawn     \* pthread_create of a script thread may fail

ASSUME ScriptThreadsAssumption ==
  MaxInterrupts \in Nat /\ MayFailSpawn \in BOOLEAN

VARIABLES
  phase,       \* where the thread of each request is
  lock,        \* the requests whose thread holds socket_lock
  sent,        \* lines of the script its holder has written
  result,      \* what each thread has read, as a set of at most one answer
  interrupts,  \* calls interrupted so far
  hostAlive,   \* the process is running
  enqueued,    \* requests in the order of the calls of ruby_vm_enqueue
  granted      \* requests in the order their threads took socket_lock

threadVars ==
  <<phase, lock, sent, result, interrupts, hostAlive, enqueued, granted>>

Phase == {"idle", "lost", "waiting", "prefix", "body", "reading", "unlocking",
          "completing", "done"}

\* The phases between pthread_mutex_lock and pthread_mutex_unlock.
Transaction == {"prefix", "body", "reading", "unlocking"}

ScriptThreadsTypeOK ==
  /\ phase \in [Requests -> Phase]
  /\ lock \in SUBSET Requests
  /\ sent \in Nat
  /\ result \in [Requests -> SUBSET Answer]
  /\ interrupts \in 0..MaxInterrupts
  /\ hostAlive \in BOOLEAN
  /\ enqueued \in Seq(Requests) /\ granted \in Seq(Requests)

ScriptThreadsInit ==
  /\ phase = [r \in Requests |-> "idle"]
  /\ lock = {} /\ sent = 0
  /\ result = [r \in Requests |-> {}]
  /\ interrupts = 0
  /\ hostAlive = TRUE
  /\ enqueued = <<>> /\ granted = <<>>

Goto(r, p) == phase' = [phase EXCEPT ![r] = p]

\* The exit code when read does not give two bytes: char result = 1.
Failure(r) == [code |-> 1, of |-> r]

-----------------------------------------------------------------------------
(* ruby_vm_enqueue.                                                        *)

Enqueue(r) ==
  /\ phase[r] = "idle"
  /\ Goto(r, "waiting")
  /\ enqueued' = Append(enqueued, r)
  /\ UNCHANGED <<channelVars, lock, sent, result, interrupts, hostAlive, granted>>

\* The result of pthread_create is not looked at: no thread will ever run
\* the request or its callback.  pthread_detach then gets a thread that was
\* never set, which is undefined: it may go unnoticed or end the process.
EnqueueLoses(r) ==
  /\ phase[r] = "idle" /\ MayFailSpawn
  /\ Goto(r, "lost")
  /\ enqueued' = Append(enqueued, r)
  /\ hostAlive' \in BOOLEAN
  /\ UNCHANGED <<channelVars, lock, sent, result, interrupts, granted>>

-----------------------------------------------------------------------------
(* script_thread_func.                                                     *)

\* Variant: the mutex keeps nobody out.
LockAtOnce(r) ==
  /\ phase[r] = "waiting"
  /\ lock' = lock \union {r} /\ sent' = 0
  /\ Goto(r, "prefix")
  /\ granted' = Append(granted, r)
  /\ UNCHANGED <<channelVars, result, interrupts, hostAlive, enqueued>>

\* pthread_mutex_lock lets any one of the waiting threads in.
Lock(r) ==
  /\ phase[r] = "waiting" /\ lock = {}
  /\ lock' = {r} /\ sent' = 0
  /\ Goto(r, "prefix")
  /\ granted' = Append(granted, r)
  /\ UNCHANGED <<channelVars, result, interrupts, hostAlive, enqueued>>

\* Variant: the lock covers the prefix alone.
WritePrefixThenUnlock(r) ==
  /\ phase[r] = "prefix"
  /\ WriteUnit(Prefix(r))
  /\ Goto(r, IF Body[r] = <<>> THEN "reading" ELSE "body")
  /\ lock' = {}
  /\ UNCHANGED <<toC, rubyOpen, sent, result, interrupts, hostAlive,
                 enqueued, granted>>

\* The second write of an empty script writes nothing.
WritePrefix(r) ==
  /\ phase[r] = "prefix"
  /\ WriteUnit(Prefix(r))
  /\ Goto(r, IF Body[r] = <<>> THEN "reading" ELSE "body")
  /\ UNCHANGED <<toC, rubyOpen, lock, sent, result, interrupts, hostAlive,
                 enqueued, granted>>

\* Variant: the lock covers the writes but not the read.
WriteBodyThenUnlock(r) ==
  /\ phase[r] = "body"
  /\ WriteUnit([of |-> r, pos |-> sent + 1])
  /\ sent' = sent + 1
  /\ Goto(r, IF sent + 1 = Len(Body[r]) THEN "reading" ELSE "body")
  /\ lock' = IF sent + 1 = Len(Body[r]) THEN {} ELSE lock
  /\ UNCHANGED <<toC, rubyOpen, result, interrupts, hostAlive, enqueued, granted>>

\* The kernel takes the script as room appears; write returns at the end.
WriteBody(r) ==
  /\ phase[r] = "body"
  /\ WriteUnit([of |-> r, pos |-> sent + 1])
  /\ sent' = sent + 1
  /\ Goto(r, IF sent + 1 = Len(Body[r]) THEN "reading" ELSE "body")
  /\ UNCHANGED <<toC, rubyOpen, lock, result, interrupts, hostAlive,
                 enqueued, granted>>

\* Variant: SIGPIPE is ignored, the failed write is reported and the answer read.
BrokenPipeIgnored(r) ==
  /\ ~rubyOpen
  /\ phase[r] = "prefix" \/ (phase[r] = "body" /\ sent = 0)
  /\ Goto(r, "reading")
  /\ UNCHANGED <<channelVars, lock, sent, result, interrupts, hostAlive,
                 enqueued, granted>>

\* write finds the other end closed with nothing written: SIGPIPE.
BrokenPipe(r) ==
  /\ ~rubyOpen
  /\ phase[r] = "prefix" \/ (phase[r] = "body" /\ sent = 0)
  /\ hostAlive' = FALSE
  /\ UNCHANGED <<channelVars, phase, lock, sent, result, interrupts,
                 enqueued, granted>>

\* The other end closes during the write: a short count, which
\* send_script_to_ruby reports and its caller ignores.
ShortWrite(r) ==
  /\ ~rubyOpen
  /\ phase[r] = "body" /\ sent > 0
  /\ Goto(r, "reading")
  /\ UNCHANGED <<channelVars, lock, sent, result, interrupts, hostAlive,
                 enqueued, granted>>

\* A signal interrupts a write that blocks: -1 or a short count, reported
\* and ignored as above.
InterruptedWrite(r) ==
  /\ interrupts < MaxInterrupts
  /\ phase[r] \in {"prefix", "body"} /\ rubyOpen /\ ToRubyFull
  /\ interrupts' = interrupts + 1
  /\ Goto(r, "reading")
  /\ UNCHANGED <<channelVars, lock, sent, result, hostAlive, enqueued, granted>>

\* read takes the oldest answer on the socket, whoever it was meant for.
ReadAnswer(r) ==
  /\ phase[r] = "reading" /\ toC # <<>>
  /\ toC' = Tail(toC)
  /\ result' = [result EXCEPT ![r] = {Head(toC)}]
  /\ Goto(r, "unlocking")
  /\ UNCHANGED <<toRuby, rubyOpen, lock, sent, interrupts, hostAlive,
                 enqueued, granted>>

\* Variant: the exit code defaults to success.
ReadFailsUnnoticed(r) ==
  /\ phase[r] = "reading" /\ toC = <<>> /\ ~rubyOpen
  /\ result' = [result EXCEPT ![r] = {[code |-> 0, of |-> r]}]
  /\ Goto(r, "unlocking")
  /\ UNCHANGED <<channelVars, lock, sent, interrupts, hostAlive, enqueued, granted>>

\* The other end is closed: read returns 0, or -1 with ECONNRESET.
ReadFails(r) ==
  /\ phase[r] = "reading" /\ toC = <<>> /\ ~rubyOpen
  /\ result' = [result EXCEPT ![r] = {Failure(r)}]
  /\ Goto(r, "unlocking")
  /\ UNCHANGED <<channelVars, lock, sent, interrupts, hostAlive, enqueued, granted>>

\* A signal interrupts a read that blocks: -1 with EINTR.
InterruptedRead(r) ==
  /\ interrupts < MaxInterrupts
  /\ phase[r] = "reading" /\ toC = <<>> /\ rubyOpen
  /\ interrupts' = interrupts + 1
  /\ result' = [result EXCEPT ![r] = {Failure(r)}]
  /\ Goto(r, "unlocking")
  /\ UNCHANGED <<channelVars, lock, sent, hostAlive, enqueued, granted>>

Unlock(r) ==
  /\ phase[r] = "unlocking"
  /\ lock' = lock \ {r}
  /\ Goto(r, "completing")
  /\ UNCHANGED <<channelVars, sent, result, interrupts, hostAlive, enqueued, granted>>

\* on_complete is invoked outside the lock, then the arguments are freed.
Complete(r) ==
  /\ phase[r] = "completing"
  /\ Goto(r, "done")
  /\ UNCHANGED <<channelVars, lock, sent, result, interrupts, hostAlive,
                 enqueued, granted>>

ThreadStep(r) ==
  \/ Lock(r) \/ WritePrefix(r) \/ WriteBody(r) \/ BrokenPipe(r) \/ ShortWrite(r)
  \/ ReadAnswer(r) \/ ReadFails(r) \/ Unlock(r) \/ Complete(r)

ClientStep(r) == Enqueue(r) \/ EnqueueLoses(r)

Interrupt(r) == InterruptedWrite(r) \/ InterruptedRead(r)
=============================================================================
