------------------------------- MODULE LogPump -------------------------------
(***************************************************************************)
(* logging.c: logging_thread_run makes stdout and stderr of the process    *)
(* the write ends of two socket pairs, and a thread, the pump, reads them  *)
(* with select and hands over what it reads line by line.                  *)
(* logging_thread_stop ends the pump.                                      *)
(*                                                                         *)
(* A run is a call of logging_thread_run.  What the run makes (its socket  *)
(* pairs, its pump) bears its number; 0 stands for a descriptor of -1 and, *)
(* in fd, for where the output went before any run.  What is written is a  *)
(* sequence of pieces: NL, a newline, or a number, text with none in it.   *)
(*                                                                         *)
(* Runs and stops come one at a time, from any thread: the listener may    *)
(* stop the log while a line is delivered to it, and so on a pump.         *)
(* A descriptor that is closed under the pump is not reused for another    *)
(* file while the pump has it; a file that a read or a select waits for    *)
(* outlives its descriptor.  A pthread_create that fails leaves            *)
(* g_logging_thread as it was; SIGPIPE has the default action that         *)
(* run_main_vm_node gives it.  The line of dashes the pump hands over      *)
(* last, and malloc failing, are left out.                                 *)
(***************************************************************************)
EXTENDS Naturals, Sequences, FiniteSets

CONSTANTS
  MaxRuns,      \* calls of logging_thread_run
  MaxCalls,     \* calls of logging_thread_run and pieces written, together
  Room,         \* pieces a socket holds
  Chunk,        \* pieces a read takes at the most: the LOG_BUFFER_SIZE of buf
  MaxFailures   \* calls that are refused, or interrupted

ASSUME LogPumpAssumption ==
  /\ MaxRuns \in Nat \ {0} /\ MaxCalls \in Nat
  /\ Room \in Nat \ {0} /\ Chunk \in Nat \ {0}
  /\ MaxFailures \in Nat

VARIABLES
  fd,         \* the run whose pair STDOUT_FILENO and STDERR_FILENO lead to
  buf,        \* pieces on the socket of each stream and run
  readEnd,    \* its read end is open
  pfd,        \* stream_pfd[..][0]: the run whose read end it is
  runs,       \* runs so far
  continue,   \* g_logging_thread_continue
  handle,     \* g_logging_thread
  ctl,        \* where the thread that runs or stops the log is
  caller,     \* the run whose pump that thread is, in a stop by the listener
  failed,     \* the last run has returned an error
  pump,       \* where the pump of each run is
  reads,      \* the pairs each pump reads
  open,       \* the streams each pump has open
  ready,      \* the streams select has reported to it
  held,       \* the pieces of a line it has got
  written,    \* the pieces written on the sockets of each stream
  out,        \* the lines handed over, of each stream
  alive,      \* the process has not been ended by SIGPIPE
  failures    \* refusals and interruptions so far

ctlVars == <<pfd, runs, handle, ctl, caller, failed>>
pumpVars == <<pump, reads, open, ready, held>>
logVars == <<fd, buf, readEnd, ctlVars, continue, pumpVars, written, out, alive,
             failures>>

NL == 0
Streams == {"stdout", "stderr"}
Runs == 1..MaxRuns
Piece == 0..MaxCalls

LogTypeOK ==
  /\ fd \in [Streams -> 0..MaxRuns] /\ pfd \in [Streams -> 0..MaxRuns]
  /\ buf \in [Streams -> [Runs -> Seq(Piece)]]
  /\ \A s \in Streams : \A g \in Runs : Len(buf[s][g]) <= Room
  /\ readEnd \in [Streams -> [Runs -> BOOLEAN]]
  /\ runs \in 0..MaxRuns /\ handle \in 0..MaxRuns /\ caller \in 0..MaxRuns
  /\ continue \in BOOLEAN /\ failed \in BOOLEAN /\ alive \in BOOLEAN
  /\ ctl \in {"idle", "stdout", "stderr", "spawning", "closing", "joining"}
  /\ pump \in [Runs -> {"none", "new", "loop", "select", "process", "reading",
                        "flush", "ended"}]
  /\ reads \in [Runs -> [Streams -> 0..MaxRuns]]
  /\ open \in [Runs -> SUBSET Streams] /\ ready \in [Runs -> SUBSET Streams]
  /\ held \in [Runs -> [Streams -> Seq(Piece \ {NL})]]
  /\ written \in [Streams -> Seq(Piece)]
  /\ out \in [Streams -> Seq(Seq(Piece \ {NL}) \ {<<>>})]
  /\ failures \in 0..MaxFailures

LogInit ==
  /\ fd = [s \in Streams |-> 0] /\ pfd = [s \in Streams |-> 0]
  /\ buf = [s \in Streams |-> [g \in Runs |-> <<>>]]
  /\ readEnd = [s \in Streams |-> [g \in Runs |-> FALSE]]
  /\ runs = 0 /\ handle = 0 /\ caller = 0
  /\ continue = TRUE /\ failed = FALSE /\ alive = TRUE
  /\ ctl = "idle"
  /\ pump = [g \in Runs |-> "none"]
  /\ reads = [g \in Runs |-> [s \in Streams |-> 0]]
  /\ open = [g \in Runs |-> {}] /\ ready = [g \in Runs |-> {}]
  /\ held = [g \in Runs |-> [s \in Streams |-> <<>>]]
  /\ written = [s \in Streams |-> <<>>]
  /\ out = [s \in Streams |-> <<>>]
  /\ failures = 0

Calls == runs + Len(written.stdout) + Len(written.stderr)

Refuse == failures < MaxFailures /\ failures' = failures + 1

-----------------------------------------------------------------------------
(* logging_thread_run.                                                     *)

Run ==
  /\ ctl = "idle" /\ runs < MaxRuns /\ Calls < MaxCalls
  /\ runs' = runs + 1
  /\ ctl' = "stdout"
  /\ UNCHANGED <<fd, buf, readEnd, pfd, handle, caller, failed, continue, pumpVars,
                 written, out, alive, failures>>

\* create_and_redirect_stream: socketpair, dup2, and the spare end closed.
Redirect(s) ==
  /\ ctl = s
  /\ fd' = [fd EXCEPT ![s] = runs] /\ pfd' = [pfd EXCEPT ![s] = runs]
  /\ readEnd' = [readEnd EXCEPT ![s][runs] = TRUE]
  /\ ctl' = IF s = "stdout" THEN "stderr" ELSE "spawning"
  /\ UNCHANGED <<buf, runs, handle, caller, failed, continue, pumpVars, written, out,
                 alive, failures>>

\* Variant: the descriptors are forgotten and stay open.
CleanupStreamsLeaking(known) ==
  /\ pfd' = [s \in Streams |-> 0]
  /\ UNCHANGED readEnd

\* cleanup_streams closes every read end that stream_pfd knows, those of an
\* earlier run as well.  Nothing puts stdout and stderr back.
CleanupStreams(known) ==
  /\ readEnd' = [s \in Streams |->
                   [g \in Runs |-> readEnd[s][g] /\ g # known[s]]]
  /\ pfd' = [s \in Streams |-> 0]

\* socketpair or pthread_create fails, or dup2, after socketpair has filled
\* in stream_pfd.
RunFails ==
  /\ ctl \in {"stdout", "stderr", "spawning"} /\ Refuse
  /\ \/ CleanupStreams(pfd)
     \/ ctl \in Streams /\ CleanupStreams([pfd EXCEPT ![ctl] = runs])
  /\ ctl' = "idle" /\ failed' = TRUE
  /\ UNCHANGED <<fd, buf, runs, handle, caller, continue, pumpVars, written, out, alive>>

Spawn ==
  /\ ctl = "spawning"
  /\ pump' = [pump EXCEPT ![runs] = "new"]
  /\ handle' = runs
  /\ ctl' = "idle" /\ failed' = FALSE
  /\ UNCHANGED <<fd, buf, readEnd, pfd, runs, caller, continue, reads, open, ready, held,
                 written, out, alive, failures>>

-----------------------------------------------------------------------------
(* logging_thread_stop: with no pump it does nothing.                      *)

\* Variant: the pump is not told.
StopUntold ==
  /\ ctl = "idle" /\ handle # 0
  /\ ctl' = "closing"
  /\ UNCHANGED <<fd, buf, readEnd, pfd, runs, handle, caller, failed, continue, pumpVars,
                 written, out, alive, failures>>

\* g_logging_thread_continue = 0; nothing ever sets it to 1 again.
Stop ==
  /\ ctl = "idle" /\ handle # 0
  /\ continue' = FALSE
  /\ ctl' = "closing"
  /\ UNCHANGED <<fd, buf, readEnd, pfd, runs, handle, caller, failed, pumpVars, written,
                 out, alive, failures>>

CloseReadEnds ==
  /\ ctl = "closing"
  /\ CleanupStreams(pfd)
  /\ ctl' = "joining"
  /\ UNCHANGED <<fd, buf, runs, handle, caller, failed, continue, pumpVars, written, out,
                 alive, failures>>

Join ==
  /\ ctl = "joining" /\ caller # handle /\ pump[handle] = "ended"
  /\ handle' = 0
  /\ ctl' = "idle" /\ caller' = 0
  /\ UNCHANGED <<fd, buf, readEnd, pfd, runs, failed, continue, pumpVars, written,
                 out, alive, failures>>

\* A pump cannot join itself: the stop returns an error, g_logging_thread stays.
JoinFails ==
  /\ ctl = "joining" /\ caller = handle
  /\ ctl' = "idle" /\ caller' = 0
  /\ UNCHANGED <<fd, buf, readEnd, pfd, runs, handle, failed, continue, pumpVars,
                 written, out, alive, failures>>

-----------------------------------------------------------------------------
(* The streams: any thread of the process writes on them, Ruby's included. *)

At(g, place) == pump[g] = place

\* process_stream_data of s is the next thing the pump of g does, or does:
\* stdout comes before stderr.
Next(g, s) ==
  /\ At(g, "process") \/ At(g, "reading")
  /\ s \in ready[g] /\ (s = "stderr" => "stdout" \notin ready[g])

Blocked(g, s) == At(g, "reading") /\ Next(g, s)

\* The file of the read end exists: it is open, or a pump waits for it.
Exists(s, k) ==
  \/ readEnd[s][k]
  \/ \E g \in Runs : /\ reads[g][s] = k
                     /\ \/ At(g, "select") /\ s \in open[g]
                        \/ Blocked(g, s)

\* A write on a redirected stream; one that finds the socket full blocks.
Write(s, p) ==
  /\ Calls < MaxCalls
  /\ p \in {NL, Len(written[s]) + 1}
  /\ LET g == fd[s] IN
       /\ g # 0 /\ Exists(s, g) /\ Len(buf[s][g]) < Room
       /\ buf' = [buf EXCEPT ![s][g] = Append(buf[s][g], p)]
  /\ written' = [written EXCEPT ![s] = Append(written[s], p)]
  /\ UNCHANGED <<fd, readEnd, ctlVars, continue, pumpVars, out, alive, failures>>

\* A write on a socket whose read end is gone: SIGPIPE.
BrokenPipe(s) ==
  /\ Calls < MaxCalls
  /\ fd[s] # 0 /\ ~Exists(s, fd[s])
  /\ alive' = FALSE
  /\ UNCHANGED <<fd, buf, readEnd, ctlVars, continue, pumpVars, written, out,
                 failures>>

-----------------------------------------------------------------------------
(* logging_function_thread.                                                *)

PumpTo(g, place) == pump' = [pump EXCEPT ![g] = place]

\* The thread reads stream_pfd for itself.
Begin(g) ==
  /\ At(g, "new")
  /\ reads' = [reads EXCEPT ![g] = pfd]
  /\ open' = [open EXCEPT ![g] = Streams]
  /\ PumpTo(g, "loop")
  /\ UNCHANGED <<fd, buf, readEnd, ctlVars, continue, ready, held, written, out,
                 alive, failures>>

Readable(g, s) ==
  LET k == reads[g][s] IN
    k # 0 /\ readEnd[s][k] /\ (buf[s][k] # <<>> \/ fd[s] # k)

Closed(g, s) == \A k \in Runs : k = reads[g][s] => ~readEnd[s][k]

\* Variant: the flag is looked at when select fails only.
TurnUntilError(g) ==
  /\ At(g, "loop")
  /\ PumpTo(g, IF \/ open[g] = {}
                  \/ \E s \in open[g] : Closed(g, s)
               THEN "flush" ELSE "select")
  /\ UNCHANGED <<fd, buf, readEnd, ctlVars, continue, reads, open, ready, held,
                 written, out, alive, failures>>

\* The streams whose descriptor is -1: what FD_SET makes of it is undefined.
Unset(g) == {s \in open[g] : reads[g][s] = 0}

\* The head of the loop, up to the call of select, which fails when one of
\* the descriptors is closed; -1 may be taken for such a one, or not.
Turn(g) ==
  /\ At(g, "loop")
  /\ \/ /\ ~continue \/ open[g] = {} \/ \E s \in open[g] : Closed(g, s)
        /\ PumpTo(g, "flush")
     \/ /\ continue /\ open[g] # {} /\ \A s \in open[g] \ Unset(g) : ~Closed(g, s)
        /\ PumpTo(g, "select")
  /\ UNCHANGED <<fd, buf, readEnd, ctlVars, continue, reads, open, ready, held,
                 written, out, alive, failures>>

SelectReady(g) ==
  /\ At(g, "select")
  /\ \E odd \in SUBSET Unset(g) :
       ready' = [ready EXCEPT ![g] = {s \in open[g] : Readable(g, s)} \union odd]
  /\ ready'[g] # {}
  /\ PumpTo(g, "process")
  /\ UNCHANGED <<fd, buf, readEnd, ctlVars, continue, reads, open, held, written,
                 out, alive, failures>>

\* Variant: select waits without a limit.
SelectTimeoutNever(g) == At(g, "select") /\ FALSE

\* Nothing to read for a second: the loop goes round.
SelectTimeout(g) ==
  /\ At(g, "select")
  /\ \A s \in open[g] : ~Readable(g, s)
  /\ PumpTo(g, "loop")
  /\ UNCHANGED <<fd, buf, readEnd, ctlVars, continue, reads, open, ready, held,
                 written, out, alive, failures>>

\* Variant: EINTR ends the loop as the other errors do.
SelectInterruptedEnding(g) ==
  /\ At(g, "select") /\ Refuse
  /\ PumpTo(g, "flush")
  /\ UNCHANGED <<fd, buf, readEnd, ctlVars, continue, reads, open, ready, held,
                 written, out, alive>>

\* EINTR: continue, as after the timeout.
SelectInterrupted(g) ==
  /\ At(g, "select") /\ Refuse
  /\ PumpTo(g, "loop")
  /\ UNCHANGED <<fd, buf, readEnd, ctlVars, continue, reads, open, ready, held,
                 written, out, alive>>

\* Variant: the next line starts at the newline, not after it.
TakeFromNewline(acc, p) ==
  IF p # NL THEN [acc EXCEPT !.held = Append(acc.held, p)]
  ELSE IF acc.held = <<>> THEN [acc EXCEPT !.held = <<NL>>]
  ELSE [held |-> <<NL>>, lines |-> Append(acc.lines, acc.held)]

\* A newline hands over what is held; an empty line is not handed over.
TakePiece(acc, p) ==
  IF p # NL THEN [held |-> Append(acc.held, p), lines |-> acc.lines]
  ELSE IF acc.held = <<>> THEN acc
  ELSE [held |-> <<>>, lines |-> Append(acc.lines, acc.held)]

\* process_stream_data, piece by piece: what is held and handed over after n.
Cutting(partial, pieces) ==
  LET cut[n \in 0..Len(pieces)] ==
        IF n = 0 THEN [held |-> partial, lines |-> <<>>]
        ELSE TakePiece(cut[n - 1], pieces[n])
  IN cut

\* Variant: what was held before the read is dropped.
CutDropping(partial, pieces) == Cutting(<<>>, pieces)[Len(pieces)]

Cut(partial, pieces) == Cutting(partial, pieces)[Len(pieces)]

Least(m, n) == IF m < n THEN m ELSE n

Processes(g, s) ==
  /\ Next(g, s)
  /\ ready' = [ready EXCEPT ![g] = ready[g] \ {s}]
  /\ PumpTo(g, IF ready[g] = {s} THEN "loop" ELSE "process")

\* What the pump of g gets from a read that is made, or goes on, now: an error
\* when the descriptor is closed before the read is made.
Failing(g, s) == reads[g][s] = 0 \/ (At(g, "process") /\ Closed(g, s))

\* Nobody has the write end of what it reads any more.
AtEnd(g, s) == fd[s] # reads[g][s] /\ buf[s][reads[g][s]] = <<>>

\* The listener, while lines are delivered to it, may call logging_thread_stop.
Listen(g, lines) ==
  /\ \/ UNCHANGED <<continue, ctl, caller>>
     \/ /\ lines # <<>> /\ ctl = "idle" /\ handle # 0
        /\ continue' = FALSE /\ ctl' = "closing" /\ caller' = g
  /\ UNCHANGED <<pfd, runs, handle, failed>>

\* A read of one chunk: its lines are handed over, the rest is held.
ReadChunk(g, s) ==
  /\ Processes(g, s) /\ ~Failing(g, s)
  /\ LET k == reads[g][s]
         n == Least(Chunk, Len(buf[s][k]))
         cut == Cut(held[g][s], SubSeq(buf[s][k], 1, n)) IN
       /\ n > 0
       /\ buf' = [buf EXCEPT ![s][k] = SubSeq(buf[s][k], n + 1, Len(buf[s][k]))]
       /\ held' = [held EXCEPT ![g][s] = cut.held]
       /\ out' = [out EXCEPT ![s] = out[s] \o cut.lines]
       /\ Listen(g, cut.lines)
  /\ UNCHANGED <<fd, readEnd, reads, open, written, alive, failures>>

\* Another pump has taken what select reported: the read waits.
ReadBlocks(g, s) ==
  /\ At(g, "process") /\ Next(g, s) /\ ~Failing(g, s)
  /\ fd[s] = reads[g][s] /\ buf[s][reads[g][s]] = <<>>
  /\ PumpTo(g, "reading")
  /\ UNCHANGED <<fd, buf, readEnd, ctlVars, continue, reads, open, ready, held,
                 written, out, alive, failures>>

\* What is held is handed over as a line.
FlushOf(partial) == IF partial = <<>> THEN <<>> ELSE <<partial>>

\* Variant: what is held is handed over and kept.
ReadEndKeeping(g, s) ==
  /\ Processes(g, s) /\ ~Failing(g, s) /\ AtEnd(g, s)
  /\ out' = [out EXCEPT ![s] = out[s] \o FlushOf(held[g][s])]
  /\ Listen(g, FlushOf(held[g][s]))
  /\ open' = [open EXCEPT ![g] = open[g] \ {s}]
  /\ UNCHANGED <<fd, buf, readEnd, reads, held, written, alive, failures>>

\* The end of the stream.
ReadEnd(g, s) ==
  /\ Processes(g, s) /\ ~Failing(g, s) /\ AtEnd(g, s)
  /\ out' = [out EXCEPT ![s] = out[s] \o FlushOf(held[g][s])]
  /\ held' = [held EXCEPT ![g][s] = <<>>]
  /\ Listen(g, FlushOf(held[g][s]))
  /\ open' = [open EXCEPT ![g] = open[g] \ {s}]
  /\ UNCHANGED <<fd, buf, readEnd, reads, written, alive, failures>>

\* The stream is given up, what is held of it stays.
GiveUp(g, s) ==
  /\ Processes(g, s)
  /\ open' = [open EXCEPT ![g] = open[g] \ {s}]
  /\ UNCHANGED <<fd, buf, readEnd, ctlVars, continue, reads, held, written, out, alive>>

ReadFails(g, s) == Failing(g, s) /\ GiveUp(g, s) /\ UNCHANGED failures

\* EINTR is an error to process_stream_data.
ReadInterrupted(g, s) == Blocked(g, s) /\ Refuse /\ GiveUp(g, s)

End(g) ==
  /\ At(g, "flush")
  /\ out' = [s \in Streams |-> out[s] \o FlushOf(held[g][s])]
  /\ held' = [held EXCEPT ![g] = [s \in Streams |-> <<>>]]
  /\ Listen(g, FlushOf(held[g].stdout) \o FlushOf(held[g].stderr))
  /\ PumpTo(g, "ended")
  /\ UNCHANGED <<fd, buf, readEnd, reads, open, ready, written, alive, failures>>

PumpStep(g) ==
  \/ Begin(g) \/ Turn(g) \/ SelectReady(g) \/ SelectTimeout(g) \/ End(g)
  \/ \E s \in Streams :
       ReadChunk(g, s) \/ ReadBlocks(g, s) \/ ReadEnd(g, s) \/ ReadFails(g, s)

\* A signal comes.
Interrupted(g) == SelectInterrupted(g) \/ \E s \in Streams : ReadInterrupted(g, s)

\* What the caller of a run or a stop goes on to do.
CtlStep ==
  (\E s \in Streams : Redirect(s)) \/ Spawn \/ CloseReadEnds \/ Join \/ JoinFails

\* A pump goes on unless the listener it has called is in a stop.
Goes(g) == alive /\ caller # g

LogNext ==
  \/ alive /\ CtlStep
  \/ alive /\ (Run \/ RunFails \/ Stop)
  \/ alive /\ \E s \in Streams : BrokenPipe(s) \/ \E p \in Piece : Write(s, p)
  \/ \E g \in Runs : Goes(g) /\ PumpStep(g)
  \/ \E g \in Runs : Goes(g) /\ Interrupted(g)

LogSpec == LogInit /\ [][LogNext]_logVars

\* The pumps and the caller of a run or a stop are scheduled; whether anybody
\* writes, runs or stops the pump is up to them.
LogFairSpec ==
  /\ LogSpec
  /\ WF_logVars(alive /\ CtlStep)
  /\ \A g \in Runs : WF_logVars(Goes(g) /\ PumpStep(g))

-----------------------------------------------------------------------------
(* What a reader of the log may rely on.                                   *)

\* The lines of a text end at the newlines that follow something else: each is
\* the longest stretch with no newline in it that comes before.
EndsOf(text) == {i \in 2..Len(text) : text[i] = NL /\ text[i - 1] # NL}

IsLineEndingAt(line, text, i) ==
  \E j \in 1..i - 1 :
    /\ j = 1 \/ text[j - 1] = NL
    /\ \A k \in j..i - 1 : text[k] # NL
    /\ line = SubSeq(text, j, i - 1)

AreLinesOf(lines, text) ==
  /\ Len(lines) = Cardinality(EndsOf(text))
  /\ \A i \in EndsOf(text) :
       IsLineEndingAt(lines[Cardinality(EndsOf(text) \cap (1..i))], text, i)

\* What has been taken from the socket of the first run.
Taken(s) == SubSeq(written[s], 1, Len(written[s]) - Len(buf[s][1]))

\* Safety: until a stop or a second run, the lines handed over of a stream are
\* those of the text its pump has taken from the socket, in their order: no
\* line is lost, split or made of two, however the reads cut the text.
LinesFaithful ==
  runs = 1 /\ continue => \A s \in Streams : AreLinesOf(out[s], Taken(s))

\* Safety: no piece of text is handed over twice, whatever is run and stopped.
NothingTwice ==
  \A s \in Streams :
    \A i, j \in DOMAIN out[s] :
      \A a \in DOMAIN out[s][i] : \A b \in DOMAIN out[s][j] :
        out[s][i][a] = out[s][j][b] => i = j /\ a = b

\* What is written on the stream next, or once no pump waits for it, ends the
\* process.
Broken(s) == fd[s] # 0 /\ ~readEnd[s][fd[s]]

\* Safety: a write ends the process only once a run has failed or the pump
\* has been told to stop; and then it does.  Where logging has failed, been
\* stopped or could not be stopped, a stream that was ever redirected does not
\* lead to the normal output again: it is broken, or, where dup2 failed, still
\* leads to the pump of an earlier run, and the other one is broken.
OutputNeverNormalAgain ==
  /\ ~alive => ~continue \/ failures > 0
  /\ ctl = "idle" /\ pfd = [s \in Streams |-> 0] =>
       \A s \in Streams : fd[s] # 0 =>
         Broken(s) \/ (failed /\ \E t \in Streams \ {s} : Broken(t))

\* A pump waits in a read for text that another pump has taken from the socket
\* which both read: a pump that started late, and that of the next run.
PumpStuck(g) ==
  \E s \in Streams : \E h \in Runs \ {g} :
    Blocked(g, s) /\ reads[g][s] = reads[h][s]

\* Liveness: logging_thread_stop returns, unless the pump it joins waits for
\* text that another pump has taken.
StopReturns ==
  ctl = "closing" ~>
    ctl = "idle" \/ ~alive \/ \E g \in Runs : g = handle /\ PumpStuck(g)

\* Liveness: once a stop has been called every pump ends, that of an earlier run
\* and that of a run made after the stop, which finds the flag still down,
\* unless it waits for text that another pump has taken, or its listener has
\* called a stop that joins a pump which does.
PumpsEnd ==
  \A g \in Runs :
    pump[g] # "none" /\ ~continue ~>
      \/ pump[g] = "ended" \/ ~alive
      \/ \E h \in Runs : PumpStuck(h) /\ (h = g \/ (g = caller /\ h = handle))

\* Liveness: while the first run lasts, every piece written to it is read.
PiecesRead ==
  \A s \in Streams :
    (runs = 1 /\ handle = 1 /\ buf[s][1] # <<>>)
      ~> (buf[s][1] = <<>> \/ ~continue \/ runs > 1 \/ ~alive)

=============================================================================
