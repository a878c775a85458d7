------------------------------ MODULE Installer ------------------------------
(***************************************************************************)
(* install.c: install_embedded_files unpacks two archives and writes the   *)
(* loop's script, each time a VM boots, over whatever an earlier boot has  *)
(* left, and while another VM thread of the process may do the same.       *)
(*                                                                         *)
(* A job is an archive, or the script as the last one; an entry of a job   *)
(* is a directory or a file, at a path relative to install_dir (<<>>).  A  *)
(* file is the set of its chunks that are on the disk: fopen "wb" empties  *)
(* it, and a writer adds its chunks in order, at their own places.         *)
(***************************************************************************)
EXTENDS Integers, Sequences, SequencesExt

CONSTANTS
  Boots,          \* VM threads, once in each life of the process
  Archives,       \* the entries of each archive: [path, dir]
  Chunks,         \* writes that make up a file
  MaxRefusals     \* calls of the system or of the archive reader that may fail

ScriptPath == <<"fifo_interpreter.rb">>

Jobs == Append(Archives, << [path |-> ScriptPath, dir |-> FALSE] >>)

Entries == UNION { ToSet(Jobs[j]) : j \in DOMAIN Jobs }

Paths == { e.path : e \in { d \in Entries : ~d.dir } }

\* The directories above a path, down to the nth.
Above(path, n) == { SubSeq(path, 1, k) : k \in 0..n }

Ancestors(path) == Above(path, Len(path) - 1)

Directories ==
  UNION { Ancestors(e.path) \union (IF e.dir THEN {e.path} ELSE {}) : e \in Entries }

ASSUME InstallerAssumption ==
  /\ Chunks \in Nat \ {0} /\ MaxRefusals \in Nat
  /\ Archives \in Seq(Seq([path: Seq(STRING), dir: BOOLEAN]))
  /\ \A a \in ToSet(Archives) : a # <<>>
  /\ \A e \in Entries : e.path # <<>>

VARIABLES
  dirs,       \* the directories there are
  files,      \* the chunks of each file on the disk
  at,         \* where each VM thread is
  pos,        \* the job, the entry and the chunk it is at
  error,      \* its result is -1
  refusals,   \* calls refused so far
  refused     \* VM threads that were refused one in this life

diskVars == <<dirs, files>>
installVars == <<diskVars, at, pos, error, refusals, refused>>

Installing == {"opening", "entry", "writing"}

Position == [job: DOMAIN Jobs, item: Nat \ {0}, chunk: 1..Chunks]

InstallerTypeOK(places) ==
  /\ dirs \subseteq Directories
  /\ files \in [Paths -> SUBSET (1..Chunks)]
  /\ at \in [Boots -> Installing \union places]
  /\ pos \in [Boots -> Position]
  /\ error \in [Boots -> BOOLEAN]
  /\ refusals \in 0..MaxRefusals /\ refused \subseteq Boots

\* Where a VM thread begins.
FirstChunk(job, item) == [job |-> job, item |-> item, chunk |-> 1]
Idle == [b \in Boots |-> "idle"]
AtStart == [b \in Boots |-> FirstChunk(1, 1)]
NoError == [b \in Boots |-> FALSE]

InstallerInit ==
  /\ dirs = {} /\ files = [p \in Paths |-> {}]
  /\ at = Idle /\ pos = AtStart /\ error = NoError
  /\ refusals = 0 /\ refused = {}

Job(b) == Jobs[pos[b].job]
IsScript(b) == pos[b].job = Len(Jobs)
AtEntry(b) == at[b] = "entry" /\ pos[b].item <= Len(Job(b))
Entry(b) == Job(b)[pos[b].item]

GoTo(b, place) == at' = [at EXCEPT ![b] = place]

Refuse(b) ==
  /\ refusals < MaxRefusals
  /\ refusals' = refusals + 1
  /\ refused' = refused \union {b}

Grant == UNCHANGED <<refusals, refused>>

\* The result accumulates: a later success does not clear it.
Report(b, failed) == error' = [error EXCEPT ![b] = @ \/ failed]

Advance(b, failed) ==
  /\ Report(b, failed)
  /\ pos' = [pos EXCEPT ![b] = FirstChunk(pos[b].job, pos[b].item + 1)]
  /\ GoTo(b, "entry")

\* Variant: the script is not taken for the last job.
FinishPastScript(b, failed) ==
  /\ Report(b, failed)
  /\ pos' = [pos EXCEPT ![b] = FirstChunk(pos[b].job + 1, 1)]
  /\ GoTo(b, "opening")

\* The next job is done whatever became of this one.
Finish(b, failed) ==
  /\ Report(b, failed)
  /\ IF IsScript(b)
     THEN GoTo(b, IF error'[b] THEN "failed" ELSE "installed") /\ UNCHANGED pos
     ELSE /\ pos' = [pos EXCEPT ![b] = FirstChunk(pos[b].job + 1, 1)]
          /\ GoTo(b, "opening")

-----------------------------------------------------------------------------

\* Variant: a tree that has the script is taken for installed.
InstallIfNeeded(b) ==
  /\ at[b] = "idle"
  /\ dirs' = dirs \union {<<>>}
  /\ GoTo(b, IF files[ScriptPath] # {} THEN "installed" ELSE "opening")
  /\ Grant /\ UNCHANGED <<files, pos, error>>

\* mkdir(install_dir), which may be there already.
Install(b) ==
  /\ at[b] = "idle"
  /\ dirs' = dirs \union {<<>>}
  /\ GoTo(b, "opening")
  /\ Grant /\ UNCHANGED <<files, pos, error>>

InstallFails(b) ==
  /\ at[b] = "idle" /\ Refuse(b)
  /\ GoTo(b, "failed")
  /\ UNCHANGED <<diskVars, pos, error>>

\* The stream, the reader and the buffer of an archive; nothing for the script.
OpenJob(b) ==
  /\ at[b] = "opening"
  /\ GoTo(b, "entry")
  /\ Grant /\ UNCHANGED <<diskVars, pos, error>>

\* No stream, no buffer, or an archive that cannot be opened or gone through.
ArchiveFails(b) ==
  /\ at[b] \in {"opening", "entry"} /\ ~IsScript(b) /\ Refuse(b)
  /\ Finish(b, TRUE)
  /\ UNCHANGED diskVars

\* mz_zip_reader_create gives NULL: err is MZ_OK still, so the result is 0.
ReaderMissing(b) ==
  /\ at[b] = "opening" /\ ~IsScript(b) /\ Refuse(b)
  /\ Finish(b, FALSE)
  /\ UNCHANGED diskVars

\* Variant: a directory that is there already is a failure.
MakeNewDirectory(b) ==
  /\ AtEntry(b) /\ Entry(b).dir
  /\ dirs' = dirs \union {Entry(b).path}
  /\ Advance(b, Entry(b).path \in dirs)
  /\ Grant /\ UNCHANGED files

\* Variant: a directory is left without going to the next entry.
MakeDirectoryForever(b) ==
  /\ AtEntry(b) /\ Entry(b).dir
  /\ dirs' = dirs \union {Entry(b).path}
  /\ Grant /\ UNCHANGED <<files, at, pos, error>>

\* mkdir makes no parent, and its failures are passed over.
MakeDirectory(b) ==
  /\ AtEntry(b) /\ Entry(b).dir
  /\ dirs' = dirs \union { d \in {Entry(b).path} : Front(d) \in dirs }
  /\ Advance(b, FALSE)
  /\ Grant /\ UNCHANGED files

DirectoryFails(b) ==
  /\ AtEntry(b) /\ Entry(b).dir /\ Refuse(b)
  /\ Advance(b, FALSE)
  /\ UNCHANGED diskVars

\* create_directories, then fopen "wb".
OpenFile(b) ==
  /\ AtEntry(b) /\ ~Entry(b).dir
  /\ dirs' = dirs \union Ancestors(Entry(b).path)
  /\ files' = [files EXCEPT ![Entry(b).path] = {}]
  /\ GoTo(b, "writing")
  /\ Grant /\ UNCHANGED <<pos, error>>

\* A directory, the entry or the file cannot be opened: an entry of an archive
\* is passed over, the script is not.
OpenFileFails(b) ==
  /\ AtEntry(b) /\ ~Entry(b).dir /\ Refuse(b)
  /\ \E n \in 0..(Len(Entry(b).path) - 1) :
       dirs' = dirs \union Above(Entry(b).path, n)
  /\ Advance(b, IsScript(b))
  /\ UNCHANGED files

WriteChunk(b) ==
  /\ at[b] = "writing"
  /\ files' = [files EXCEPT ![Entry(b).path] = @ \union {pos[b].chunk}]
  /\ IF pos[b].chunk < Chunks
     THEN pos' = [pos EXCEPT ![b].chunk = @ + 1] /\ UNCHANGED <<at, error>>
     ELSE Advance(b, FALSE)
  /\ Grant /\ UNCHANGED dirs

\* A read or a write fails: the file is left as it is.
WriteFails(b) ==
  /\ at[b] = "writing" /\ Refuse(b)
  /\ Advance(b, IsScript(b))
  /\ UNCHANGED diskVars

\* What stdio still held is lost in fclose, whose result nobody looks at.
CloseFails(b) ==
  /\ at[b] = "writing" /\ pos[b].chunk = Chunks /\ Refuse(b)
  /\ Advance(b, FALSE)
  /\ UNCHANGED diskVars

EndJob(b) ==
  /\ at[b] = "entry" /\ pos[b].item > Len(Job(b))
  /\ Finish(b, FALSE)
  /\ Grant /\ UNCHANGED diskVars

InstallStep(b) ==
  \/ OpenJob(b) \/ ArchiveFails(b) \/ ReaderMissing(b)
  \/ MakeDirectory(b) \/ DirectoryFails(b)
  \/ OpenFile(b) \/ OpenFileFails(b)
  \/ WriteChunk(b) \/ WriteFails(b) \/ CloseFails(b) \/ EndJob(b)

Whole == \A p \in Paths : files[p] = 1..Chunks
=============================================================================
