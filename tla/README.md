# Verification of embedded-ruby-vm

TLA+ modules of the C core, the Ruby loop and the JNI bridge of
embedded-ruby-vm, the TLC configurations that check them on small instances,
and theorems that TLAPS proves for every instance. Paths are relative to `src/`.

## 1. The system

One process embeds one Ruby VM. A client (Kotlin, Java or C) gives scripts to a
`RubyInterpreter`; each script is run by the VM, and a callback gets its exit
code. What is written on stdout and stderr may be captured and handed over line
by line.

```
 Kotlin client ── ruby_vm_jni.c ── ruby-interpreter.c ── g_global_vm: RubyVM
                     contexts            enqueue             │ ruby_vm_enqueue
                                                             ▼
                          script threads (one per script), socket_lock
                                                             │ main_fd
                                                     stream socket pair
                                                             │ second_fd
                          VM thread: install files, ruby_init, fifo_interpreter.rb
 stdout, stderr ── socket pairs ── log pump (logging.c) ── log listener ── Kotlin
```

| Part | State | Operations | Shared with | What makes it correct |
|---|---|---|---|---|
| `core/ruby-vm/ruby-comm-channel.c` | the socket pair | create, close | script threads, VM thread | order kept, nothing mixed |
| `core/ruby-vm/ruby-vm.c` | `RubyVM`: started, channel, `socket_lock`, last error, listener | create, start, enqueue, script thread, logging callbacks | everything | one transaction at a time, each thread reads its own answer, every callback comes |
| `core/assets/files/fifo_interpreter.rb` | where the loop is, what it has read | read a length, read a script, evaluate, answer | the channel | evaluates each script whole, answers once |
| `core/ruby-vm/exec-main-vm.c` | signal actions and the host's saved ones | install, boot, run, end | the process, the installer | the host goes on hearing of its children; a VM boots on whole files |
| `core/ruby-vm/ruby-interpreter.c` | `g_global_vm` | create, enqueue, destroy | all interpreters of the process | one VM per process, failures reported once |
| `jni/ruby_vm_jni.c` | completion contexts, listener contexts | create, enqueue, destroy, enable logging, callbacks | Kotlin, script threads, log pump | nothing used after it was freed, Kotlin told once |
| `core/logging/logging.c` | stream sockets, the pump, its buffers | run, stop, select, read, cut into lines | writers of stdout and stderr | each line once and whole; stop returns, but for a pump stuck in `read` |
| `core/assets/install.c` | the file tree | unpack two archives, write the loop's script | VM threads, earlier boots | the tree is made whole at each boot, and what is on it already never makes the boot fail |
| `core/assets/use_direct_memory.c`, `core/ruby-vm/ruby-script.c` | the text of a script | copy, measure | bridge, Kotlin/Native, `send_script_to_ruby` | the text arrives, and the length announced is that of the bytes sent |
| Kotlin classes (`kmp/`), JVM and native | `isDestroyed`, the context of a callback | create, enqueue, destroy, enable and disable logging | bridge or C core | each object destroyed once, the callback told once |

The rest (`env.c`, `jni_logging.c`, `jni_ruby_info.c`, `jni/android`, the
library loader) keeps no state that interacts, and is listed in PROJECT.json.

### Where it is hard

- **Threads race.** Each script has a thread of its own; the mutex grants the
  socket to any of them. `g_global_vm` has no lock at all.
- **The protocol has no identity.** Nothing on the wire says whose answer an
  answer is; it rests on the lock and on exactly one answer per script. A refused
  length, an interrupted read, or a `STDOUT.puts` that raises breaks that.
- **Nobody times out.** A read under `socket_lock` waits forever for a VM that
  hangs or was never installed. A script that ends the VM leaves a broken pipe,
  and the next script ends the process.
- **Failures are told twice or not at all.** The interpreter both invokes the
  completion task and returns an error; `pthread_create` and
  `send_script_to_ruby` have results nobody looks at.
- **Lifetimes cross threads.** Scripts, completion contexts and listener
  contexts are freed by the client while native threads still know them.
- **The log pump** reads descriptors another thread closes, what it reads is cut
  anywhere, and a pump that starts late reads the sockets of the next run.
- **The installation** starts on whatever a killed process has left, may share
  the tree with another VM thread, and passes over most of its own failures.
- **Signal actions** belong to the process: Ruby overwrites them, the boot saves
  and restores them in statics that a second VM overwrites.
- **A text has three lengths**: UTF-16 units, bytes of UTF-8 and bytes of JNI's
  encoding; the stream needs the right one.

Each is listed as a hazard in PROJECT.json, at its line.

## 2. Modules

| Module | Models | Lines of code |
|---|---|---|
| `CommChannel` | the socket pair and the units on it | ruby-comm-channel.c, the framing of ruby-vm.c |
| `FifoInterpreter` | VM thread: boot, the loop, the evaluation, the answer, the end | exec-main-vm.c, fifo_interpreter.rb |
| `ScriptThreads` | `ruby_vm_enqueue` and `script_thread_func` | ruby-vm.c |
| `ScriptTransaction` | both ends composed; the properties; the refinement | |
| `SerialExecutor` | abstract: scripts run one at a time, each gets its own exit code | what RubyInterpreter.kt promises, less the order |
| `ScriptTransactionInvariants` | the inductive invariants | |
| `GlobalInterpreter` | `g_global_vm` under concurrent first calls, `ruby_vm_start` and its failures | ruby-interpreter.c, ruby-vm.c |
| `JniBridge` | extends `GlobalInterpreter` with what the two bindings (JNI, Kotlin/Native) lend and free | ruby_vm_jni.c, the Kotlin classes |
| `LogPump` | redirection, pump, stop | logging.c |
| `Installer` | the installation on a tree that outlives the process | install.c |
| `VMThread` | extends `Installer` with the boot, the signal actions and the death and restart of the process | exec-main-vm.c |
| `ScriptContent` | a text on its way to Ruby and back | ruby_vm_jni.c, RubyScript.native.kt, ruby-script.c, use_direct_memory.c |
| `MC...` | instances for TLC | |
| `...Proofs` | theorems | |

Several definitions come with a "Variant": a mutated form that no
specification uses. Each stands for a plausible mistake in the code and shows,
as a mutant in PROJECT.json, that a property would notice it.

### Script transaction

- The unit of the stream is a **line** of a script, not a byte: position 0 is the
  prefix `<length>\n`, position k the k-th line. A line is a number (what the loop
  would take for a length), `Blank`, `Text`, or `Unended` (no newline: `gets`
  glues it to what follows: what the two read as together, a numeral say, is
  open, `Readings`). Lengths, `MaxLength` and the capacities count lines. That is
  all the loop can tell apart when it reads a script for lengths.
- The owner of a unit and of an answer is a ghost: no guard reads it.
- `phase[r]` is where the thread of request r is, one action per call of
  `script_thread_func`: `Lock`, `WritePrefix`, `WriteBody` (as room appears),
  `ReadAnswer`, `Unlock`, `Complete`, and the ways these fail: `BrokenPipe`
  (SIGPIPE with its default action, exec-main-vm.c:211-213), `ShortWrite`,
  `ReadFails`, `InterruptedWrite`, `InterruptedRead` (Ruby's handlers have no
  SA_RESTART). `EnqueueLoses` is `pthread_create` failing unseen; the
  `pthread_detach` that follows is undefined, so the process may or may not
  survive it.
- `rb` is where the VM thread is. An evaluation may return, raise, exit the VM
  (`exit`), end the process (`exit!`, `exec`; `Kill`) or hang; `Outcomes` says
  which. Whatever it does, it may leave STDOUT or STDERR closed where `MayClose`
  says so (`outputs`). Each `puts` of the loop on a closed output raises: before
  the evaluation it ends the VM (`AnnounceRaises`), after the answer it makes a
  second answer (`Confirm`), inside a rescue clause it ends the VM with no
  answer (`FailureRaises`); so does `strip` on bytes that are no text
  (`GetsRaises`).
- `verdict` is a ghost: what Ruby first concluded about each request.
- `Stuck` names the states in which nobody will ever answer again: the files
  were not installed, a script hangs, or the process is gone. `Derailed` says
  that a call has been interrupted or a script over the limit has been granted
  the lock: the two sides may then block each other, each in a write.
- Refinement: `Executor` maps the phases to the states of `SerialExecutor`;
  `RunsSerially` says that every behaviour of the threads and the loop is one of
  the serial executor.

### Shared interpreter

A call of `ruby_interpreter_enqueue` is a thread of its own; `at[c]` is between
which two accesses of `g_global_vm` it is. Where the code reads `g_global_vm`
again just after writing it, the value read may be the one written or the
current one (`Reloaded`): it is a plain static, and a build may do either. The
store of what `ruby_vm_create` gives, be it NULL (`Create`, `CreateNull`), the
test of the global again (`TestVM`, `TestNull`) and the return are steps of
their own: another call may come in between and follow the NULL, or put its VM
there. A VM is named by the call that created it. `MaxFailures` bounds how many
allocations, sockets and threads are refused. `overlap` is a ghost: a call has
come while another was between the null check and the end of `ruby_vm_start`.

After the hand-over a script is "queued", "sent", "over"; what happens in
between is the subject of `ScriptTransaction`.

### JNI bridge

`JniBridge` runs the calls of `GlobalInterpreter` inside `enqueueScript`, and
follows the memory: `context[c]` (completion context), `scriptAlive[c]`, `alive`
(interpreters with their listener contexts), and the copy of the listener that
each VM keeps. A failure to make the context tells Kotlin, or does not when the
callback's method cannot be looked up (`ContextFails`). A use after free, or a
null VM followed, is put in `fault` and the model stops there. The constant
`Careful` chooses between a client that keeps to four rules the code never
states (they are in the module's header) and one that only does what the Kotlin
classes allow.

`binding` is chosen at the start. Through JNI the context is a malloc'ed struct
that enqueueScript and the callback both free; on Kotlin/Native it is a
`StableRef` that only the callback disposes of, the result of
`ruby_interpreter_enqueue` is not looked at, `enableLogging` is checked for a
null VM, and `disableLogging` exists. Interpreters are created (or refused) and
destroyed; the VM goes on with the listener of the last one that was adopted.

### Log pump

A run is a call of `logging_thread_run` and numbers what it makes. The pump is
one action per system call: `Turn` (the flag and the fd set), `SelectReady`,
`SelectTimeout`, `SelectInterrupted`, `ReadChunk`, `ReadBlocks`, `ReadEnd`,
`ReadFails`, `ReadInterrupted`, `End`. A read of an empty socket is at the end
of the stream when the write end is gone, and waits otherwise. It comes to that
when two pumps read one socket, because the pump of the first run has looked at
`stream_pfd` only after the second run has filled it in; closing the descriptor
does not wake the pump that waits (`PumpStuck`). A file outlives its descriptor
while a call waits for it (`Exists`). `Listen` is the listener, which may call
`logging_thread_stop` on the pump that delivers a line to it: a pump cannot join
itself, and the stop returns an error and keeps the handle (`JoinFails`).
`Unset` are the descriptors that are -1, of which `FD_SET` may make anything.
`Cut` is `process_stream_data` on pieces of text: `TakePiece` is one turn of its
loop, `Cutting` folds it over what a read has brought. `Stop`, `CloseReadEnds`
and `Join` are the three parts of `logging_thread_stop`, which the pump
interleaves with. `RunFails` allows `socketpair`, `dup2` and `pthread_create` to
fail. As committed, line 375 reads `NULfunction_L`, which does not compile; it
is taken for `NULL`. The flag `g_logging_thread_continue` is never raised again:
the pump of a run made after a stop ends at its first turn (`PumpsEnd`), and its
streams then fill up.

### Installation and boot

`Installer` has one action per call of `extract_zip_from_memory` that can fail
or be interleaved: open a job, make a directory, open a file, write a chunk,
end. A *job* is one of the two archives or the script written by
`write_binary_file`. Files are the sets of their chunks on the disk: `fopen`
with "wb" empties a file, and writers put chunks at their own places, so two
writers of the same contents complete each other. `dirs` and `files` outlive
the process; `at`, `pos`, `error` are those of one VM thread. A refusal is any
call of the system or of the zip reader that fails, with what the code makes of
it: an entry is passed over, a missing reader counts as a success
(install.c:69-74), the script is not passed over. `refused` is a ghost.

`VMThread` goes on from there: save the actions, `ruby_init` (which overwrites
them), restore SIGPIPE, chain SIGCHLD, then `Signal.trap('PIPE',
'SYSTEM_DEFAULT')` and the loop. The statics start as `SIG_DFL`. `Crash` kills
the process anywhere and starts it again on the same tree.

### Script content

A text is a sequence of characters of six kinds: a space, ASCII, NUL, and those
of two, three and four bytes in UTF-8. A byte is the character it belongs to,
its encoding and its place, so that two byte strings are equal exactly when
they are. The operators `Bytes` and `Size` are the two arguments of
`ruby_script_create_from_content` from each of its three callers; `Strndup`
and `CString` cut at NUL; `Send` and `Receive` frame. `Show` is the way back:
`NewStringUTF` reads JNI's encoding where Ruby writes UTF-8. A decoding that
has no text is `Garbled`.

## 3. Runs

| Run | Instance | Shows |
|---|---|---|
| `Transaction.cfg` | 3 scripts within the limit (one without final newline, one empty, one whose first line is a numeral), room for 2 lines and 1 answer; scripts may raise, exit, end the process and hang, installation and thread creation may fail | the socket is empty between transactions, scripts are evaluated whole, exit codes are the scripts' own, Ruby never turns to a script before the last answer is read, every callback comes unless nobody can answer, the serial executor is implemented; the process ends for three reasons only, and does end when a script waits and the VM is over |
| `Faults.cfg` | 3 scripts, one longer than the limit, scripts may close STDOUT and STDERR, one interruption | scripts are never mixed and answers are never early, even then; a closed output loses no callback, only an interruption or an oversize script may |
| `Start.cfg` | 3 calls, 2 on one interpreter, 1 refusal | one Ruby VM unless first calls overlap; a script goes to a dead VM only when `last_error` says why; the task is told once; a null VM is followed only after an overlap and a NULL stored over a VM |
| `Bridge.cfg` | the same with a careful client, on either binding | the one fault left is the context used twice, on the JVM; Kotlin is told once, at once, and always if Ruby answers, unless the JVM refuses something; contexts outlive their scripts |
| `Log.cfg` | 1 run and 3 pieces, or 2 runs and 2 pieces, on either stream, 1 refusal or interruption, stops by anyone | lines are handed over whole and once, nothing stays unread; a stop returns and every pump ends after it, unless a pump waits in `read` for what another has taken; SIGPIPE needs a failure or a stop, and after either the output is never normal again |
| `Boot.cfg` | 2 VM threads, an archive with a directory and a file in it, one with a file whose directory no entry names, the script; files of 2 chunks, 1 refusal, 1 restart | a VM boots on whole files when nothing was refused and nobody else is still installing; a failure was refused something; SIGCHLD reaches the host; every VM thread gets to an end |
| `Content.cfg` | every text of up to 3 characters of the six kinds, a limit of 6 bytes, the three ways | exactly which texts arrive and come back as they were, and the one that the loop refuses |
| `Order.cfg` | | **violated**: scripts may run out of order |
| `StartRace.cfg` | | **violated**: two first calls start two Ruby VMs |
| `DoubleCallback.cfg` | | **violated**: the context is used after the callback freed it |
| `ReadmeExample.cfg` | | **violated**: destroying a script after enqueue, as in the README, frees it under its thread |
| `NativeText.cfg` | | **violated**: on Kotlin/Native a script that is not ASCII loses its end |

The violated runs state what a document, a comment or a message of the
repository says; the quotations are under "findings" in PROJECT.json. Four
findings more are about properties that hold and say the contrary of a line of
the repository:

| Property | What the code does | What the repository says |
|---|---|---|
| `EndOfVMEndsHost` | once a script has ended the VM, the script that waits ends the whole process | README.md:292 "Ruby crashes don't affect the main application" |
| `OutputNeverNormalAgain` | after a failed run, or a stop, stdout and stderr lead to sockets with no reader, and a write ends the process | ruby-vm.c:247, 262 "output will go to normal stdout/stderr" |
| `StopReturns`, exception `PumpStuck` | a pump in `read` on a socket that another pump has emptied is not woken, and the join waits for it | logging.c:394 "Close read ends to unblock the thread" |
| `ChainReachesHost` | the chained SIGCHLD handler calls the host's handler alone | exec-main-vm.c:140 "chains to both Ruby and Android" |

Other things the code does are in the properties that hold, as their
exceptions: an oversize script may block both sides for good (`Derailed` in
`CallbackInvoked`); a script that hangs, or files that were not installed, block
every later script (`Stuck`); a thread that cannot be attached to the JVM leaves
Kotlin in the dark (`Untold`); an installation to which something was refused may
report success on an incomplete tree (`BootsOnWholeFiles`); emoji and NUL do not
survive the JVM (`ArrivesWhenItSurvives`, `OutputOnTheJvm`). A script whose thread
was never created (ruby-vm.c:280) is lost with its callback; no property is about
it, and `RunsSerially` takes it for one still queued.

**Bounds.** Two requests suffice for every cross-talk (one leaves something
behind, the next finds it) and three let one wait meanwhile; the capacity of two
lines makes writes block within a script and the capacity of one answer makes
answers block. `MaxLength` of 3 lines (2 in `Faults.cfg`) has scripts on both
sides of it. `MayClose` and interruptions are in `Faults.cfg` alone, because
with them `OwnExitCode` and the like fail. Three calls allow a race of two and a
late third on the same interpreter. One refusal reaches each failure path by
itself; two failures in one behaviour are left to the theorems, which bound
neither. In `Log.cfg` three pieces make a line of two texts, lines split over
reads and several lines in a read; two runs make the end of a stream, the
closing of an earlier run's descriptors and two pumps on one socket. `MaxCalls`
bounds runs and pieces together, for time. In `Boot.cfg` two chunks tell an
empty, a short and a whole file apart; two VM threads are a race, and one
restart with one refusal puts a failure in the life before or in the same one.
In `Content.cfg` three characters allow one of trouble between two others, and a
limit of 6 bytes (10,000,000 in the code) has texts on both sides.

**Fairness.** `Transaction`, `Faults`: weak fairness of the VM thread and of
each script thread, which the scheduler gives to any thread that can run;
nothing for clients, signals, what a script does to the process or the order of
the mutex. (Weak fairness of `Lock` is enough because each thread enqueues once
and competitors are finitely many.) `Bridge`: weak fairness, for each call, of
the native steps its threads can take, but not of the answer of Ruby nor of the
script that waits for the channel: a script may hang. `KotlinTold` has as its
premise that Ruby answers (`RubyAnswers`), which is what `CallbackInvoked` calls
not `Stuck`. `Log`: weak fairness of the pump and of the caller in the middle of
a run or stop; not of writers. `Boot`: weak fairness of each VM thread once it
has begun; not of crashes, nor of the end of a VM.

**Deadlock** is checked in `Transaction.cfg` (a `Rest` step stands for the end
of the work, or for `Stuck`) and in `Order.cfg`. The other runs may stop: a
fault, the death of the host, or the end of the bounded work is final.

## 4. Proofs

TLAPS checks, for every value of the constants:

- `ScriptTransactionProofs`, with faults of any kind:
  - `TypeCorrect`: types. `TypeInv` adds that `socket.read` waits for something
    and that a working loop has a request.
  - `TransactionsExclude`: the lock is held exactly between `Lock` and `Unlock`,
    by one thread.
  - `ScriptsNotMixed`: the lines of a request lie together on the socket.
    The invariant `StreamInv` ties the end of the stream to what the holder
    has sent.
  - `ExitCodesNeverEarly`: an answer read was meant for a request granted the
    lock no later. `GrantInv` says that everything on the socket, and the
    request Ruby works for, has been granted, and that the holder was last.
- `OwnExitCodeProofs`, assuming `Clean` (no interruption, scripts within the
  limit, STDOUT and STDERR left open): `EveryScriptGetsItsOwnExitCode`,
  `SocketBelongsToHolder`, `WholeScriptEvaluated`. The invariant
  `TransactionInv` says in which stage the one transaction is and, for each
  stage, what Ruby has and what the socket holds. `OwnExitCode` alone is not
  inductive: it needs that an answer on the socket is the holder's, hence that
  nothing is left over. `Clean` cannot be dropped: without it all three fail.
- `OwnExitCodeProofs` also has `TransactionInvariant`, that invariant itself.
- `SerialExecutorProofs`, assuming `Clean` too, from `TransactionInv`:
  - `AnswersAreReadInTurn`: Ruby turns to the next request only when the last
    answer has been read. A step that changes `turn` finds a line on the socket,
    hence the holder has nothing waiting for it.
  - `ProcessEndsForAReason`: the process ends because a thread failed to start,
    because the script that runs ends it, or because a script follows one that
    ended the VM. `DeathInv` adds who has ended the VM: a script whose thread
    still waits for its answer, or one that has been reported as a failure.
  - `ImplementsSerialExecutor`: the refinement `RunsSerially`. The initial states
    map to initial states; each step is taken apart: a step of the loop is a
    stutter, or `SerialExecutor`'s conclusion when Ruby decides, a step of a
    thread is a stutter, or a submission, a start, a finish with the exit code of
    that script, or a delivery.
- `GlobalInterpreterProofs`: `SharedVMInvariant` (a call that starts the VM is
  alone, and once it is over the shared VM either runs or has a recorded error,
  as long as no call overlaps a start), and from it `OneVMPerProcess` and
  `FailedStartIsRecorded`. `TaskToldOnce`, overlaps included: `ToldInv` says for
  each call how far it and its script are and what its task has been told;
  `ToldOnce` alone does not say that a script in flight has a task not told yet.
  `CrashTakesOverlap`: a null VM is followed only after an overlap and after a
  failed creation has stored its NULL over a VM, whether or not the call that
  did so has returned; `LostVMInv` adds that a second call in the start is
  noticed, and that until a NULL has been stored over a VM nobody who relies on
  one loses it.
- `JniBridgeProofs`, for either binding:
  - `BridgeInvariant`, for any client: `BridgeInv` adds to `ToldInv` that the
    completion context of a call lives exactly until its task has been told, and
    that, until freed memory is used, Kotlin has been told what the task has
    been told, or, where the JVM has refused something, nothing. From it
    `BridgeTypesHold`, `KotlinToldAtMostOnce` and `ScriptThreadFreesContext`.
  - `CarefulClientMeetsOneFault`, assuming `Careful`: the only fault is the
    context used again by `enqueueScript` on the JVM after the interpreter has
    told the task and returned an error. `CarefulInv` adds that a script lives
    until Kotlin has been told, and that every interpreter a call is inside of,
    or a listener belongs to, is alive.
- `LogPumpProofs`, for any number of runs, pieces and failures, any room of the
  sockets and any length of a read:
  - `LogTypes`, which has that a line handed over is not empty.
  - `BrokenPipeTakesStop` (`OutputNeverNormalAgain`): without a failure only a
    stop closes read ends (`PipeInv`); and a stream that was redirected is tied
    to what `stream_pfd` knows or is broken already, at each point of a run
    (`TiesInv`), so that closing what `stream_pfd` knows breaks it.
  - `LinesArriveWhole`: until a stop or a second run, the lines handed over are
    those of the text, whole and in order. `FirstRunInv` says that what has been
    written is what has been handed over, is held, or is in the socket, in that
    order; `TakePieceLines` that one piece more keeps this.
  - `NothingHandedOverTwice`, with any number of pumps on the same sockets:
    `PlacesInv` says that a piece has one place, among the lines, in one pump's
    buffer or in one socket.
- `VMThreadProofs`, for any archives, VM threads, refusals and restarts:
  `ThreadTypes`, `FailuresAreRefusals`, `HostHearsOfItsChildren`, all from
  `ThreadInvariant`. The latter needs the saved action as well as the current
  one (`Signalled`): between saving and chaining it is the static that still
  knows the host. It assumes of the archives that they are sequences of entries
  with a path each.
- `VMThreadProofs` also has `FilesAreOwed` and from it
  `RacingInstallationsMakeWhole`. `BootsOnWholeFiles` says nothing of the middle
  of an installation; `WholeInv` does: when no VM thread of this process has been
  refused anything, a chunk missing on the disk is *owed*, either by a thread that
  has the file open and has not come to the chunk, or by each thread that has
  begun. A rival that empties a file takes over what it owes; a crash leaves
  everything to whoever begins next.
- `ScriptContentProofs`, for texts of any length and any limit:
  - `ContentInvariant`: at each stage what there is on the way is what
    `strndup` has made of the text (`ContentInv`).
  - `ArrivesExactlyWhenItSurvives`, `RefusedWhenEmptied`,
    `CutOrMangled`, `OutputComesBack` and `ContentTypes` follow from it and from
    lemmas about the encodings: both are injective (`EncodeInjective`), a text
    has no more UTF-16 units than bytes (`UnitsAtMostBytes`) and a C string ends
    at the first NUL (`CStringCut`).

What an encoding or the cutting into lines computes is shown by induction on the
text. The induction theorems of the library take a predicate, which the provers
cannot instantiate, so these proofs put a set in its place: the set of lengths at
which a statement fails would have a least element (`LeastNatural`), from the
well-foundedness of `<` on the naturals, and it has none.

The assumptions on constants are the `ASSUME`s of the modules, which TLC
evaluates for each instance; beyond them a theorem assumes only `Clean` or
`Careful`, where its statement says so. TLC has checked each inductive invariant
before its proof: `TransactionInv` and `SharedVMInv` are invariants of
`Transaction.cfg` and `Start.cfg`; `DeathInv` was checked on the instance of
`Transaction.cfg`, `TypeInv`, `StreamInv` and `GrantInv` on that of
`Faults.cfg`, `ToldInv` and `LostVMInv` on that of `Start.cfg`, `BridgeInv` and
`CarefulInv` on that of `Bridge.cfg`, `PipeInv`, `TiesInv`, `FirstRunInv` and
`PlacesInv` on that of `Log.cfg` (and with five runs and pieces), `ThreadInv`
and `WholeInv` on that of `Boot.cfg`, `ContentInv` on that of `Content.cfg`.

Only model-checked: liveness (`CallbackInvoked`, `EndOfVMEndsHost`,
`KotlinTold`, `StopReturns`, `PumpsEnd`, `PiecesRead`, `BootEnds`). It rests on
fairness, hence on ENABLED, which the prover does not reach. Every other
property of a passing run is stated by a theorem. What the violated runs show is
shown by their counterexamples alone.

## 5. Not modelled

- `fifo_interpreter.rb:36-40` and `68-73`: the end of file on the socket needs
  `main_fd` closed; only `ruby_vm_destroy` closes it, and nothing calls that.
  For the same reason `ruby_vm_destroy` and `close_comm_channel` are left out.
- A script that reads or closes the loop's own `socket`.
- The main script that a call whose creation seems to have failed destroys
  (ruby-interpreter.c:62) while the VM of another call may have been given it: the
  scripts of the VM threads are not followed as memory.
- `malloc` failing in `ruby_vm_enqueue` and in the pump.
- The copy of the `LogListener` struct is one step with the assignment of `vm`
  after it (ruby-interpreter.c:81-82). Listeners of the bridge differ in one word,
  so a torn copy is the old one or the new one; a C client whose listeners have
  different functions is not modelled.
- Runs and stops of the log from several threads at once.
- Descriptor numbers: a closed descriptor is not reused. The lifetime of
  `log_tag`.
- The exit code is 0 or 1: the loop writes nothing else.
- `SetupRubyEnv` (environment variables), a `sigaction` that fails, SIGSEGV
  beyond being saved, paths longer than the 1024 bytes of install.c's buffers,
  and `get_default_install_dir` and `installation_needed`, which nothing calls.
- Bytes that Ruby takes for another encoding: `socket.read` returns a binary
  string, and what `eval` makes of bytes beyond ASCII is Ruby's affair; the
  model says which bytes arrive.
- The attachment of threads to the JVM, except that it may be refused;
  exceptions thrown by Kotlin callbacks; `isDestroyed` as a race.
- `updateEnvLocations` and env.c, the logging of the bridge, the loader of
  native libraries, the location of a script: I/O without state.

## 6. Plan

Done: script transaction, shared interpreter, both bindings of the bridge, log
pump, installation and boot, script content. Every safety invariant, action
property and refinement of a passing run has its theorem.

Next:

1. `EveryScriptGetsItsOwnExitCode` under less than `Clean`: with scripts over the
   limit or a closed output the property fails from the first such script on, so
   the statement is about the requests granted the lock before it.
2. `LinesArriveWhole` beyond the first run: with a stop between, as long as the
   pump of the stopped run has ended.
3. What liveness rests on: that in each state that is not `Stuck` some step of a
   thread or of the loop can be taken, as a state predicate without ENABLED.
