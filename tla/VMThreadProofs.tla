---------------------------- MODULE VMThreadProofs ----------------------------
(***************************************************************************)
(* Theorems about VMThread, for any archives, any number of VM threads, of *)
(* refusals and of restarts.                                               *)
(***************************************************************************)
EXTENDS VMThread, SequenceTheorems, TLAPS

\* That a literal is in STRING is nothing the provers know.
Names == STRING \union {"fifo_interpreter.rb"}

EntryRecord == [path: Seq(Names), dir: BOOLEAN]

LEMMA JobsType ==
  /\ Jobs \in Seq(Seq(EntryRecord))
  /\ Len(Jobs) \in Nat \ {0}
  /\ DOMAIN Jobs = 1..Len(Jobs)
  /\ Jobs[Len(Jobs)] = << [path |-> ScriptPath, dir |-> FALSE] >>
  <1>1. << [path |-> ScriptPath, dir |-> FALSE] >> \in Seq(EntryRecord)
    <2>1. ScriptPath \in Seq(Names)
      BY DEF ScriptPath, Names
    <2>2. [path |-> ScriptPath, dir |-> FALSE] \in EntryRecord
      BY <2>1 DEF EntryRecord
    <2>3. QED
      BY <2>2
  <1>2. Archives \in Seq(Seq(EntryRecord))
    <2>1. Seq(STRING) \subseteq Seq(Names)
      BY DEF Names
    <2>2. [path: Seq(STRING), dir: BOOLEAN] \subseteq EntryRecord
      BY <2>1 DEF EntryRecord
    <2>3. \A S, T : S \subseteq T => Seq(Seq(S)) \subseteq Seq(Seq(T))
      <3>1. \A S, T : S \subseteq T => Seq(S) \subseteq Seq(T)
        OBVIOUS
      <3>2. QED
        BY <3>1
    <2>4. QED
      BY <2>2, <2>3, InstallerAssumption
  <1>3. /\ Jobs \in Seq(Seq(EntryRecord)) /\ Len(Jobs) = Len(Archives) + 1
        /\ Jobs[Len(Archives) + 1] = << [path |-> ScriptPath, dir |-> FALSE] >>
    BY <1>1, <1>2, AppendProperties DEF Jobs
  <1>4. Len(Archives) \in Nat
    BY <1>2
  <1>5. QED
    BY <1>3, <1>4

\* The entry a VM thread has come to is one of the archives or the script.
LEMMA EntryOfJob ==
  ASSUME ThreadTypeOK, NEW b \in Boots, AtEntry(b)
  PROVE  Entry(b) \in Entries /\ Entry(b).path \in Seq(Names)
  <1>1. pos[b].job \in 1..Len(Jobs) /\ pos[b].item \in Nat \ {0}
    BY JobsType DEF ThreadTypeOK, InstallerTypeOK, Position
  <1>2. Job(b) \in Seq(EntryRecord)
    BY <1>1, JobsType DEF Job
  <1>3. pos[b].item \in DOMAIN Job(b)
    BY <1>1, <1>2 DEF AtEntry
  <1>4. Entry(b) \in EntryRecord
    BY <1>2, <1>3 DEF Entry
  <1>5. Entry(b) \in ToSet(Job(b))
    BY <1>3 DEF Entry, ToSet
  <1>6. Entry(b) \in Entries
    BY <1>1, <1>5, JobsType DEF Entries, Job
  <1>7. QED
    BY <1>4, <1>6 DEF EntryRecord

\* The directories above an entry are among those the archives need.
LEMMA AncestorsKnown ==
  ASSUME NEW e \in Entries, e.path \in Seq(Names)
  PROVE  /\ Ancestors(e.path) \subseteq Directories
         /\ \A n \in 0..(Len(e.path) - 1) : Above(e.path, n) \subseteq Directories
         /\ e.dir => e.path \in Directories
  <1>1. Ancestors(e.path) \subseteq Directories
    BY DEF Directories
  <1>2. e.dir => e.path \in Directories
    BY DEF Directories
  <1>3. \A n \in 0..(Len(e.path) - 1) : Above(e.path, n) \subseteq Ancestors(e.path)
    <2>1. Len(e.path) \in Nat
      OBVIOUS
    <2>2. QED
      BY <2>1 DEF Above, Ancestors
  <1>4. QED
    BY <1>1, <1>2, <1>3

-----------------------------------------------------------------------------
(* Where a step of the installation takes a VM thread.                      *)

InstallPlaces == Installing \union {"installed", "failed"}

\* What a step of b leaves alone, and where b may be after it.
Moves(b) ==
  /\ at' \in [Boots -> Installing \union Booting \union Resting]
  /\ pos' \in [Boots -> Position]
  /\ error' \in [Boots -> BOOLEAN]
  /\ \A d \in Boots \ {b} : at'[d] = at[d] /\ error'[d] = error[d]
  /\ at'[b] \in InstallPlaces

LEMMA Moved ==
  ASSUME ThreadTypeOK, NEW b \in Boots, NEW place \in InstallPlaces, GoTo(b, place)
  PROVE  /\ at' \in [Boots -> Installing \union Booting \union Resting]
         /\ at'[b] = place
         /\ \A d \in Boots \ {b} : at'[d] = at[d]
  BY DEF ThreadTypeOK, InstallerTypeOK, GoTo, InstallPlaces, Booting, Resting

LEMMA Reported ==
  ASSUME ThreadTypeOK, NEW b \in Boots, NEW failed \in BOOLEAN, Report(b, failed)
  PROVE  /\ error' \in [Boots -> BOOLEAN]
         /\ error'[b] = (error[b] \/ failed)
         /\ \A d \in Boots \ {b} : error'[d] = error[d]
  <1>1. error \in [Boots -> BOOLEAN]
    BY DEF ThreadTypeOK, InstallerTypeOK
  <1>2. error' = [error EXCEPT ![b] = error[b] \/ failed]
    BY DEF Report
  <1>3. (error[b] \/ failed) \in BOOLEAN
    OBVIOUS
  <1>4. error'[b] = (error[b] \/ failed) /\ \A d \in Boots \ {b} : error'[d] = error[d]
    BY <1>1, <1>2
  <1>5. error' \in [Boots -> BOOLEAN]
    BY ONLY <1>1, <1>2, <1>3, ZenonT(30)
  <1>6. QED
    BY ONLY <1>4, <1>5, Zenon

LEMMA Advances ==
  ASSUME ThreadTypeOK, NEW b \in Boots, NEW failed \in BOOLEAN, Advance(b, failed)
  PROVE  Moves(b) /\ at'[b] = "entry" /\ error'[b] = (error[b] \/ failed)
  <1>1. "entry" \in InstallPlaces
    BY DEF InstallPlaces, Installing
  <1>2. pos' \in [Boots -> Position]
    <2>1. pos \in [Boots -> Position] /\ pos[b] \in Position
      BY DEF ThreadTypeOK, InstallerTypeOK
    <2>2. FirstChunk(pos[b].job, pos[b].item + 1) \in Position
      BY <2>1, InstallerAssumption DEF Position, FirstChunk
    <2>3. QED
      BY <2>1, <2>2 DEF Advance
  <1>3. QED
    BY <1>1, <1>2, Moved, Reported DEF Advance, Moves

LEMMA Finishes ==
  ASSUME ThreadTypeOK, NEW b \in Boots, NEW failed \in BOOLEAN, Finish(b, failed)
  PROVE  /\ Moves(b) /\ error'[b] = (error[b] \/ failed)
         /\ at'[b] = "failed" => error'[b]
  <1>1. Report(b, failed)
    BY DEF Finish
  <1>2. CASE IsScript(b)
    <2>1. PICK place \in {"failed", "installed"} :
            GoTo(b, place) /\ (place = "failed" => error'[b])
      <3>1. GoTo(b, IF error'[b] THEN "failed" ELSE "installed")
        BY <1>2 DEF Finish
      <3>2. CASE error'[b]
        BY <3>1, <3>2
      <3>3. CASE ~error'[b]
        <4>1. GoTo(b, "installed")
          BY <3>1, <3>3
        <4>2. QED
          BY <4>1
      <3>4. QED
        BY <3>2, <3>3
    <2>2. place \in InstallPlaces
      BY DEF InstallPlaces
    <2>3. pos' = pos
      BY <1>2 DEF Finish
    <2>4. QED
      BY <1>1, <2>1, <2>2, <2>3, Moved, Reported
         DEF Moves, ThreadTypeOK, InstallerTypeOK
  <1>3. CASE ~IsScript(b)
    <2>1. GoTo(b, "opening") /\ "opening" \in InstallPlaces
      BY <1>3 DEF Finish, InstallPlaces, Installing
    <2>2. pos[b].job + 1 \in DOMAIN Jobs
      BY <1>3, JobsType DEF IsScript, ThreadTypeOK, InstallerTypeOK, Position
    <2>3. pos' \in [Boots -> Position]
      <3>1. FirstChunk(pos[b].job + 1, 1) \in Position
        BY <2>2, InstallerAssumption DEF FirstChunk, Position
      <3>2. QED
        BY <1>3, <3>1 DEF Finish, ThreadTypeOK, InstallerTypeOK
    <2>4. at'[b] # "failed"
      BY <2>1, Moved
    <2>5. QED
      BY <1>1, <2>1, <2>3, <2>4, Moved, Reported DEF Moves
  <1>4. QED
    BY <1>2, <1>3

-----------------------------------------------------------------------------
(* What a step of the installation keeps.                                   *)

DiskOK ==
  /\ dirs \subseteq Directories
  /\ files \in [Paths -> SUBSET (1..Chunks)]

\* Refusals are counted and never forgotten.
RefusalsOK ==
  /\ refusals' \in 0..MaxRefusals /\ refused' \subseteq Boots
  /\ refused \subseteq refused'

LEMMA Refusing ==
  ASSUME ThreadTypeOK, NEW b \in Boots, Refuse(b)
  PROVE  RefusalsOK /\ b \in refused'
  BY InstallerAssumption DEF ThreadTypeOK, InstallerTypeOK, Refuse, RefusalsOK

LEMMA Granting ==
  ASSUME ThreadTypeOK, Grant
  PROVE  RefusalsOK /\ refused' = refused
  BY DEF ThreadTypeOK, InstallerTypeOK, Grant, RefusalsOK

LEMMA DiskKept ==
  ASSUME ThreadTypeOK, UNCHANGED diskVars
  PROVE  DiskOK'
  BY DEF ThreadTypeOK, InstallerTypeOK, diskVars, DiskOK

\* A step that goes to a place and leaves the position and the result alone.
LEMMA Goes ==
  ASSUME ThreadTypeOK, NEW b \in Boots, NEW place \in InstallPlaces,
         GoTo(b, place), UNCHANGED <<pos, error>>
  PROVE  Moves(b) /\ error'[b] = error[b] /\ at'[b] = place
  BY Moved DEF Moves, ThreadTypeOK, InstallerTypeOK

\* What one step of VM thread b does to the installation.
Installs(b) == DiskOK' /\ Moves(b) /\ RefusalsOK /\ Refused(b)'

LEMMA Opening ==
  ASSUME ThreadInv, NEW b \in Boots,
         Install(b) \/ InstallFails(b) \/ OpenJob(b)
  PROVE  Installs(b)
  <1>1. ThreadTypeOK /\ Refused(b)
    BY DEF ThreadInv
  <1>2. CASE Install(b)
    <2>1. "opening" \in InstallPlaces
      BY DEF InstallPlaces, Installing
    <2>2. Moves(b) /\ error'[b] = error[b] /\ at'[b] = "opening"
      BY <1>1, <1>2, <2>1, Goes DEF Install
    <2>3. RefusalsOK /\ refused' = refused
      BY <1>1, <1>2, Granting DEF Install
    <2>4. <<>> \in Directories
      <3>1. [path |-> ScriptPath, dir |-> FALSE] \in Entries
        <4>. DEFINE script == [path |-> ScriptPath, dir |-> FALSE]
        <4>1. <<script>> = Jobs[Len(Jobs)] /\ Len(Jobs) \in DOMAIN Jobs
          BY JobsType
        <4>2. script \in ToSet(<<script>>)
          <5>1. \A x : <<x>>[1] = x /\ 1 \in DOMAIN <<x>>
            OBVIOUS
          <5>2. QED
            BY <5>1 DEF ToSet
        <4>3. QED
          BY <4>1, <4>2 DEF Entries
      <3>2. <<>> \in Ancestors(ScriptPath)
        <4>1. Len(ScriptPath) = 1 /\ SubSeq(ScriptPath, 1, 0) = <<>>
          BY DEF ScriptPath
        <4>2. QED
          BY <4>1 DEF Ancestors, Above
      <3>3. QED
        BY <3>1, <3>2 DEF Directories
    <2>5. DiskOK'
      BY <1>1, <1>2, <2>4 DEF Install, DiskOK, ThreadTypeOK, InstallerTypeOK
    <2>6. QED
      BY <1>1, <2>2, <2>3, <2>5 DEF Installs, Refused
  <1>3. CASE InstallFails(b)
    <2>1. "failed" \in InstallPlaces
      BY DEF InstallPlaces
    <2>2. Moves(b) /\ RefusalsOK /\ b \in refused'
      BY <1>1, <1>3, <2>1, Goes, Refusing DEF InstallFails
    <2>3. DiskOK'
      BY <1>1, <1>3, DiskKept DEF InstallFails
    <2>4. QED
      BY <2>2, <2>3 DEF Installs, Refused
  <1>4. CASE OpenJob(b)
    <2>1. "entry" \in InstallPlaces
      BY DEF InstallPlaces, Installing
    <2>2. Moves(b) /\ error'[b] = error[b] /\ at'[b] = "entry"
      BY <1>1, <1>4, <2>1, Goes DEF OpenJob
    <2>3. RefusalsOK /\ refused' = refused /\ DiskOK'
      BY <1>1, <1>4, Granting, DiskKept DEF OpenJob
    <2>4. QED
      BY <1>1, <2>2, <2>3 DEF Installs, Refused
  <1>5. QED
    BY <1>2, <1>3, <1>4

\* A step at which a call is refused is a failure that is put down to it.
LEMMA Failing ==
  ASSUME ThreadInv, NEW b \in Boots,
         \/ ArchiveFails(b) \/ ReaderMissing(b) \/ DirectoryFails(b)
         \/ OpenFileFails(b) \/ WriteFails(b) \/ CloseFails(b)
  PROVE  Installs(b)
  <1>1. ThreadTypeOK
    BY DEF ThreadInv
  <1>2. Refuse(b)
    BY DEF ArchiveFails, ReaderMissing, DirectoryFails, OpenFileFails, WriteFails, CloseFails
  <1>3. RefusalsOK /\ b \in refused'
    BY <1>1, <1>2, Refusing
  <1>4. IsScript(b) \in BOOLEAN
    BY DEF IsScript
  <1>5. Moves(b)
    <2>1. CASE ArchiveFails(b) \/ ReaderMissing(b)
      BY <1>1, <2>1, Finishes DEF ArchiveFails, ReaderMissing
    <2>2. CASE DirectoryFails(b) \/ OpenFileFails(b) \/ WriteFails(b) \/ CloseFails(b)
      BY <1>1, <1>4, <2>2, Advances DEF DirectoryFails, OpenFileFails, WriteFails, CloseFails
    <2>3. QED
      BY <2>1, <2>2
  <1>6. DiskOK'
    <2>1. CASE OpenFileFails(b)
      <3>1. Entry(b) \in Entries /\ Entry(b).path \in Seq(Names)
        BY <1>1, <2>1, EntryOfJob DEF OpenFileFails
      <3>2. dirs' \subseteq Directories
        BY <1>1, <2>1, <3>1, AncestorsKnown DEF OpenFileFails, ThreadTypeOK, InstallerTypeOK
      <3>3. QED
        BY <1>1, <2>1, <3>2 DEF OpenFileFails, DiskOK, ThreadTypeOK, InstallerTypeOK
    <2>2. CASE ~OpenFileFails(b)
      BY <1>1, <2>2, DiskKept
         DEF ArchiveFails, ReaderMissing, DirectoryFails, WriteFails, CloseFails
    <2>3. QED
      BY <2>1, <2>2
  <1>7. QED
    BY <1>3, <1>5, <1>6 DEF Installs, Refused

LEMMA Unpacking ==
  ASSUME ThreadInv, NEW b \in Boots,
         MakeDirectory(b) \/ OpenFile(b) \/ WriteChunk(b) \/ EndJob(b)
  PROVE  Installs(b)
  <1>1. ThreadTypeOK /\ Refused(b)
    BY DEF ThreadInv
  <1>2. RefusalsOK /\ refused' = refused
    BY <1>1, Granting DEF MakeDirectory, OpenFile, WriteChunk, EndJob
  <1>3. CASE MakeDirectory(b)
    <2>1. Moves(b) /\ at'[b] = "entry" /\ error'[b] = error[b]
      BY <1>1, <1>3, Advances DEF MakeDirectory, ThreadTypeOK, InstallerTypeOK
    <2>2. Entry(b).path \in Directories
      BY <1>1, <1>3, EntryOfJob, AncestorsKnown DEF MakeDirectory
    <2>3. DiskOK'
      BY <1>1, <1>3, <2>2 DEF MakeDirectory, DiskOK, ThreadTypeOK, InstallerTypeOK
    <2>4. QED
      BY <1>1, <1>2, <2>1, <2>3 DEF Installs, Refused
  <1>4. CASE OpenFile(b)
    <2>1. "writing" \in InstallPlaces
      BY DEF InstallPlaces, Installing
    <2>2. Moves(b) /\ error'[b] = error[b] /\ at'[b] = "writing"
      BY <1>1, <1>4, <2>1, Goes DEF OpenFile
    <2>3. Ancestors(Entry(b).path) \subseteq Directories
      BY <1>1, <1>4, EntryOfJob, AncestorsKnown DEF OpenFile
    <2>4. DiskOK'
      BY <1>1, <1>4, <2>3 DEF OpenFile, DiskOK, ThreadTypeOK, InstallerTypeOK
    <2>5. QED
      BY <1>1, <1>2, <2>2, <2>4 DEF Installs, Refused
  <1>5. CASE WriteChunk(b)
    <2>1. pos \in [Boots -> Position] /\ pos[b] \in Position
      BY <1>1 DEF ThreadTypeOK, InstallerTypeOK
    <2>2. DiskOK'
      BY <1>1, <1>5, <2>1 DEF WriteChunk, DiskOK, ThreadTypeOK, InstallerTypeOK, Position
    <2>3. Moves(b) /\ at'[b] \in {"entry", "writing"} /\ error'[b] = error[b]
      <3>1. CASE pos[b].chunk < Chunks
        <4>1. pos' \in [Boots -> Position]
          <5>1. pos[b].chunk \in 1..Chunks
            BY <2>1 DEF Position
          <5>2. pos[b].chunk + 1 \in 1..Chunks
            BY <3>1, <5>1, InstallerAssumption
          <5>3. [pos[b] EXCEPT !.chunk = pos[b].chunk + 1] \in Position
            BY <2>1, <5>2 DEF Position
          <5>4. pos' = [pos EXCEPT ![b] = [pos[b] EXCEPT !.chunk = pos[b].chunk + 1]]
            BY <1>5, <3>1 DEF WriteChunk
          <5>5. QED
            BY <2>1, <5>3, <5>4
        <4>2. at' = at /\ error' = error /\ at[b] = "writing"
          BY <1>5, <3>1 DEF WriteChunk
        <4>3. QED
          BY <1>1, <4>1, <4>2
             DEF Moves, InstallPlaces, Installing, ThreadTypeOK, InstallerTypeOK
      <3>2. CASE ~(pos[b].chunk < Chunks)
        <4>1. Advance(b, FALSE)
          BY <1>5, <3>2 DEF WriteChunk
        <4>2. QED
          BY <1>1, <4>1, Advances DEF ThreadTypeOK, InstallerTypeOK
      <3>3. QED
        BY <3>1, <3>2
    <2>4. QED
      BY <1>1, <1>2, <2>2, <2>3 DEF Installs, Refused
  <1>6. CASE EndJob(b)
    <2>1. Moves(b) /\ error'[b] = (error[b] \/ FALSE) /\ (at'[b] = "failed" => error'[b])
      BY <1>1, <1>6, Finishes DEF EndJob
    <2>2. DiskOK'
      BY <1>1, <1>6, DiskKept DEF EndJob
    <2>3. QED
      BY <1>1, <1>2, <2>1, <2>2 DEF Installs, Refused
  <1>7. QED
    BY <1>3, <1>4, <1>5, <1>6

-----------------------------------------------------------------------------
(* The invariant is kept by the installation, the boot and a crash.         *)

Alone(b) == \A d \in Boots \ {b} : at[d] \in Unsaved

LEMMA PlacesApart ==
  /\ InstallPlaces \subseteq Unsaved
  /\ InstallPlaces \cap ((Booting \ {"installed"}) \union {"running"}) = {}
  /\ Unsaved \cap {"saved", "initialised", "restored", "chained", "running", "ended"} = {}
  BY DEF InstallPlaces, Installing, Unsaved, Booting

LEMMA InstallationKeeps ==
  ASSUME ThreadInv, NEW b \in Boots, Installs(b), at[b] \in Unsaved,
         UNCHANGED <<signalVars, crashes>>
  PROVE  ThreadInv'
  <1>1. ThreadTypeOK'
    BY DEF ThreadInv, ThreadTypeOK, InstallerTypeOK, Installs, DiskOK, Moves,
           RefusalsOK, signalVars
  <1>2. ASSUME NEW d \in Boots PROVE Refused(d)'
    BY DEF Installs, Moves, RefusalsOK, ThreadInv, Refused
  <1>3. ASSUME NEW e \in Boots, Alone(e)' PROVE Signalled(e)'
    <2>1. \A d \in Boots \ {b} : at'[d] = at[d]
      BY DEF Installs, Moves
    <2>2. Signalled(e)
      BY <1>3, <2>1 DEF Alone, ThreadInv
    <2>3. CASE e = b
      BY <2>2, <2>3, PlacesApart DEF Installs, Moves, Signalled, signalVars
    <2>4. CASE e # b
      BY <2>1, <2>2, <2>4 DEF Signalled, signalVars
    <2>5. QED
      BY <2>3, <2>4
  <1>4. QED
    BY <1>1, <1>2, <1>3 DEF ThreadInv, Alone

SignalStep(b) ==
  \/ SaveOriginals(b) \/ InitRuby(b) \/ RestoreCritical(b)
  \/ SetupCompromise(b) \/ TrapAndRun(b) \/ EndRuby(b)

\* What a step of the boot does to its place.
LEMMA BootMoves ==
  ASSUME ThreadTypeOK, NEW b \in Boots,
         NEW place, NEW next \in Booting \union Resting,
         From(b, place, next)
  PROVE  /\ at[b] = place /\ at'[b] = next
         /\ \A d \in Boots \ {b} : at'[d] = at[d]
         /\ at' \in [Boots -> Installing \union Booting \union Resting]
         /\ UNCHANGED <<diskVars, pos, error, refusals, refused, crashes>>
  BY DEF From, GoTo, ThreadTypeOK, InstallerTypeOK

LEMMA SignalTypes ==
  ASSUME ThreadTypeOK, NEW b \in Boots, SignalStep(b)
  PROVE  ThreadTypeOK'
  <1>1. /\ at' \in [Boots -> Installing \union Booting \union Resting]
        /\ UNCHANGED <<diskVars, pos, error, refusals, refused, crashes>>
    <2>1. \E place : \E next \in Booting \union Resting : From(b, place, next)
      BY DEF SignalStep, SaveOriginals, InitRuby, RestoreCritical, SetupCompromise,
             TrapAndRun, EndRuby, Booting, Resting
    <2>2. QED
      BY <2>1, BootMoves
  <1>2. action' \in [Signals -> Actions] /\ original' \in [Signals -> Actions]
    <2>1. action \in [Signals -> Actions] /\ original \in [Signals -> Actions]
      BY DEF ThreadTypeOK
    <2>2. "PIPE" \in Signals /\ {"ruby", "chained", "default"} \subseteq Actions
      BY DEF Signals, Actions
    <2>3. QED
      BY <2>1, <2>2 DEF SignalStep, SaveOriginals, InitRuby, RestoreCritical,
           SetupCompromise, TrapAndRun, EndRuby, signalVars
  <1>3. QED
    BY <1>1, <1>2 DEF ThreadTypeOK, InstallerTypeOK, diskVars

\* A step of the boot keeps the CHLD actions as they should be for b; for any
\* other VM thread there is nothing to show, b having touched the signals.
LEMMA SignalsKept ==
  ASSUME ThreadInv, NEW b \in Boots, SignalStep(b), Alone(b)
  PROVE  Signalled(b)'
  <1>1. ThreadTypeOK /\ Signalled(b)
    BY DEF ThreadInv, Alone
  <1>2. /\ action \in [Signals -> Actions] /\ {"PIPE", "CHLD"} \subseteq Signals
    BY <1>1 DEF ThreadTypeOK, Signals
  <1>3. "installed" \in Unsaved
    BY DEF Unsaved
  <1>4. {"saved", "initialised", "restored", "chained", "running", "ended"}
          \subseteq Booting \union Resting
    BY DEF Booting, Resting
  <1>5. {"saved", "initialised", "restored", "chained"} \subseteq Booting \ {"installed"}
    BY DEF Booting
  <1>6. "ended" \notin Booting
    BY DEF Booting
  <1>7. CASE SaveOriginals(b)
    <2>1. at[b] = "installed" /\ at'[b] = "saved"
      BY <1>1, <1>4, <1>7, BootMoves DEF SaveOriginals
    <2>2. original'["CHLD"] = "host"
      BY <1>1, <1>3, <1>7, <2>1 DEF SaveOriginals, Signalled
    <2>3. QED
      BY <2>1, <2>2, PlacesApart DEF Signalled
  <1>8. CASE InitRuby(b)
    <2>1. at[b] = "saved" /\ at'[b] = "initialised"
      BY <1>1, <1>4, <1>8, BootMoves DEF InitRuby
    <2>2. QED
      BY <1>1, <1>5, <1>8, <2>1, PlacesApart DEF InitRuby, Signalled
  <1>9. CASE RestoreCritical(b)
    <2>1. at[b] = "initialised" /\ at'[b] = "restored"
      BY <1>1, <1>4, <1>9, BootMoves DEF RestoreCritical
    <2>2. QED
      BY <1>1, <1>5, <1>9, <2>1, PlacesApart DEF RestoreCritical, Signalled
  <1>10. CASE SetupCompromise(b)
    <2>1. at[b] = "restored" /\ at'[b] = "chained"
      BY <1>1, <1>4, <1>10, BootMoves DEF SetupCompromise
    <2>2. action'["CHLD"] = "chained"
      BY <1>2, <1>10 DEF SetupCompromise
    <2>3. QED
      BY <1>1, <1>5, <1>10, <2>1, <2>2, PlacesApart DEF SetupCompromise, Signalled
  <1>11. CASE TrapAndRun(b)
    <2>1. at[b] = "chained" /\ at'[b] = "running"
      BY <1>1, <1>4, <1>11, BootMoves DEF TrapAndRun
    <2>2. action'["CHLD"] = action["CHLD"]
      BY <1>2, <1>11 DEF TrapAndRun
    <2>3. QED
      BY <1>1, <1>5, <1>11, <2>1, <2>2, PlacesApart DEF TrapAndRun, Signalled
  <1>12. CASE EndRuby(b)
    <2>1. at'[b] = "ended"
      BY <1>1, <1>4, <1>12, BootMoves DEF EndRuby
    <2>2. QED
      BY <1>6, <2>1, PlacesApart DEF Signalled
  <1>13. QED
    BY <1>7, <1>8, <1>9, <1>10, <1>11, <1>12 DEF SignalStep

LEMMA BootKeeps ==
  ASSUME ThreadInv, NEW b \in Boots, SignalStep(b)
  PROVE  ThreadInv'
  <1>1. ThreadTypeOK /\ ThreadTypeOK'
    BY SignalTypes DEF ThreadInv
  <1>2. /\ at'[b] \in {"saved", "initialised", "restored", "chained", "running", "ended"}
        /\ \A d \in Boots \ {b} : at'[d] = at[d]
        /\ UNCHANGED <<error, refused>>
    <2>1. \E place : \E next \in {"saved", "initialised", "restored", "chained", "running", "ended"} :
            From(b, place, next)
      BY DEF SignalStep, SaveOriginals, InitRuby, RestoreCritical, SetupCompromise,
             TrapAndRun, EndRuby
    <2>2. {"saved", "initialised", "restored", "chained", "running", "ended"}
            \subseteq Booting \union Resting
      BY DEF Booting, Resting
    <2>3. QED
      BY <1>1, <2>1, <2>2, BootMoves
  <1>3. ASSUME NEW d \in Boots PROVE Refused(d)'
    BY <1>2 DEF ThreadInv, Refused
  <1>4. at'[b] \notin Unsaved
    BY <1>2, PlacesApart
  <1>5. ASSUME NEW e \in Boots, Alone(e)' PROVE Signalled(e)'
    <2>1. e = b
      BY <1>4, <1>5 DEF Alone
    <2>2. Alone(b)
      BY <1>2, <1>5, <2>1 DEF Alone
    <2>3. QED
      BY <2>1, <2>2, SignalsKept
  <1>6. QED
    BY <1>1, <1>3, <1>5 DEF ThreadInv, Alone

\* What a process starts with is right, whatever the tree.
Fresh ==
  /\ at = Idle /\ pos = AtStart /\ error = NoError /\ refused = {}
  /\ action = FreshActions /\ original = FreshOriginals
  /\ DiskOK /\ refusals \in 0..MaxRefusals /\ crashes \in 0..MaxCrashes

LEMMA FreshProcess == Fresh => ThreadInv
  <1> SUFFICES ASSUME Fresh PROVE ThreadInv
    OBVIOUS
  <1> USE DEF Fresh
  <1>1. at \in [Boots -> Installing \union (Booting \union Resting)]
    BY DEF Idle, Resting
  <1>2. pos \in [Boots -> Position]
    <2>1. FirstChunk(1, 1) \in Position
      BY JobsType, InstallerAssumption DEF FirstChunk, Position
    <2>2. QED
      BY <2>1 DEF AtStart
  <1>3. error \in [Boots -> BOOLEAN]
    BY DEF NoError
  <1>4. action \in [Signals -> Actions] /\ original \in [Signals -> Actions]
    BY DEF FreshActions, FreshOriginals, Actions
  <1>5. ThreadTypeOK
    BY <1>1, <1>2, <1>3, <1>4 DEF ThreadTypeOK, InstallerTypeOK, DiskOK
  <1>6. ASSUME NEW b \in Boots PROVE Refused(b)
    BY DEF Refused, Idle, NoError
  <1>7. ASSUME NEW b \in Boots PROVE Signalled(b)
    <2>1. at[b] = "idle"
      BY DEF Idle
    <2>2. at[b] \in Unsaved
      BY <2>1 DEF Unsaved
    <2>3. action["CHLD"] = "host"
      BY DEF FreshActions, Signals
    <2>4. at[b] \notin Booting /\ at[b] \notin {"chained", "running"}
      BY <2>1 DEF Booting
    <2>5. QED
      BY <2>3, <2>4 DEF Signalled
  <1>8. QED
    BY <1>5, <1>6, <1>7 DEF ThreadInv

LEMMA ThreadInitially == ThreadInit => ThreadInv
  <1> SUFFICES ASSUME ThreadInit PROVE ThreadInv
    OBVIOUS
  <1>1. DiskOK
    BY DEF ThreadInit, InstallerInit, DiskOK
  <1>2. refusals \in 0..MaxRefusals /\ crashes \in 0..MaxCrashes
    BY InstallerAssumption, CrashAssumption DEF ThreadInit, InstallerInit
  <1>3. QED
    BY <1>1, <1>2, FreshProcess DEF ThreadInit, InstallerInit, Fresh

LEMMA CrashKeeps ==
  ASSUME ThreadInv, Crash
  PROVE  ThreadInv'
  <1>1. /\ at' = Idle /\ pos' = AtStart /\ error' = NoError /\ refused' = {}
        /\ action' = FreshActions /\ original' = FreshOriginals
    BY DEF Crash
  <1>2. DiskOK' /\ refusals' \in 0..MaxRefusals /\ crashes' \in 0..MaxCrashes
    BY CrashAssumption DEF Crash, ThreadInv, ThreadTypeOK, InstallerTypeOK, DiskOK, diskVars
  <1>3. Fresh'
    BY <1>1, <1>2 DEF Fresh, Idle, AtStart, NoError, FirstChunk, FreshActions,
                      FreshOriginals, Signals
  <1>4. Fresh' => ThreadInv'
    BY FreshProcess, PTL
  <1>5. QED
    BY <1>3, <1>4

LEMMA ThreadNextKeeps ==
  ASSUME ThreadInv, [ThreadNext]_threadVars
  PROVE  ThreadInv'
  <1>1. CASE UNCHANGED threadVars
    BY <1>1 DEF threadVars, installVars, diskVars, signalVars, ThreadInv, ThreadTypeOK,
                InstallerTypeOK, Refused, Signalled
  <1>2. CASE Crash
    BY <1>2, CrashKeeps
  <1>3. ASSUME NEW b \in Boots, Begin(b) \/ BootStep(b) \/ EndRuby(b)
        PROVE  ThreadInv'
    <2>1. CASE Begin(b)
      <3>1. at[b] \in Unsaved
        BY <2>1 DEF Begin, Install, InstallFails, Unsaved
      <3>2. QED
        BY <2>1, <3>1, Opening, InstallationKeeps DEF Begin
    <2>2. CASE InstallStep(b) /\ UNCHANGED <<signalVars, crashes>>
      <3>1. at[b] \in Unsaved
        BY <2>2 DEF InstallStep, OpenJob, ArchiveFails, ReaderMissing, MakeDirectory,
                    DirectoryFails, OpenFile, OpenFileFails, WriteChunk, WriteFails,
                    CloseFails, EndJob, AtEntry, Unsaved, Installing
      <3>2. Installs(b)
        BY <2>2, Opening, Failing, Unpacking DEF InstallStep
      <3>3. QED
        BY <2>2, <3>1, <3>2, InstallationKeeps
    <2>3. CASE SignalStep(b)
      BY <2>3, BootKeeps
    <2>4. QED
      BY <1>3, <2>1, <2>2, <2>3 DEF BootStep, SignalStep
  <1>4. QED
    BY <1>1, <1>2, <1>3 DEF ThreadNext

\* The types of the tree, of the VM threads and of the signals are kept by
\* every step, every refusal and every restart; a result of -1 was refused.
THEOREM ThreadInvariant == ThreadSpec => []ThreadInv
  BY ThreadInitially, ThreadNextKeeps, PTL DEF ThreadSpec

\* Type correctness, for any archives.
THEOREM ThreadTypes == ThreadSpec => []ThreadTypeOK
  <1>1. ThreadInv => ThreadTypeOK
    BY DEF ThreadInv
  <1>2. QED
    BY <1>1, ThreadInvariant, PTL

\* install_embedded_files fails only in a VM thread that was refused a call:
\* what is on the disk already, or what a rival does, never makes it fail.
THEOREM FailuresAreRefusals == ThreadSpec => []FailureExplained
  <1>1. ThreadInv => FailureExplained
    BY DEF ThreadInv, Refused, FailureExplained
  <1>2. QED
    BY <1>1, ThreadInvariant, PTL

\* With Ruby running in one VM thread and the signals untouched by the others,
\* SIGCHLD goes to the chained handler and from it to the host's.
THEOREM HostHearsOfItsChildren == ThreadSpec => []ChainReachesHost
  <1>1. ASSUME ThreadInv, NEW b \in Boots, at[b] = "running",
               \A d \in Rivals(b) : at[d] \in Installing \union {"installed", "failed"}
        PROVE  action["CHLD"] = "chained" /\ Chain = {"host"}
    <2>1. \A d \in Boots \ {b} : at[d] \in Unsaved
      BY <1>1 DEF Rivals, Unsaved
    <2>2. Signalled(b)
      BY <1>1, <2>1 DEF ThreadInv
    <2>3. action["CHLD"] = "chained" /\ original["CHLD"] = "host"
      BY <1>1, <2>2 DEF Signalled
    <2>4. QED
      BY <2>3 DEF Chain
  <1>2. ThreadInv => ChainReachesHost
    BY <1>1 DEF ChainReachesHost
  <1>3. QED
    BY <1>2, ThreadInvariant, PTL

-----------------------------------------------------------------------------
(* A VM boots on whole files.                                               *)

\* What a step of b does to the others, and to what it owes of each file.
Repays(b) ==
  /\ at'[b] # "idle" /\ Placed(b)'
  /\ \A d \in Boots \ {b} : at'[d] = at[d] /\ pos'[d] = pos[d]
  /\ refused' \subseteq refused \union {b}
  /\ refused' = {} => \A p \in Paths : \A c \in 1..Chunks :
       /\ c \in files[p] \/ Writing(b, p, c) => c \in files'[p] \/ Writing(b, p, c)'
       /\ at[b] = "idle" \/ ToCome(b, p) => ToCome(b, p)' \/ Writing(b, p, c)'

LEMMA RepaidKeepsWhole ==
  ASSUME WholeInv, NEW b \in Boots, Repays(b), refused \subseteq refused'
  PROVE  WholeInv'
  <1>1. ASSUME NEW d \in Boots PROVE Placed(d)'
    <2>1. CASE d = b
      BY <2>1 DEF Repays
    <2>2. CASE d # b
      BY <2>2 DEF Repays, WholeInv, Placed, FirstChunk
    <2>3. QED
      BY <2>1, <2>2
  <1>2. ASSUME refused' = {}, NEW p \in Paths, NEW c \in 1..Chunks
        PROVE  Owed(p, c)'
    <2>1. Owed(p, c)
      BY <1>2 DEF WholeInv
    <2>2. ASSUME NEW d \in Boots \ {b}
          PROVE  /\ Writing(d, p, c) => Writing(d, p, c)'
                 /\ ToCome(d, p) => ToCome(d, p)'
                 /\ at'[d] = at[d]
      BY DEF Repays, Writing, ToCome, Entry, Job
    <2>3. CASE c \in files[p] \/ Writing(b, p, c)
      BY <1>2, <2>3 DEF Repays, Owed
    <2>4. CASE \E d \in Boots \ {b} : Writing(d, p, c)
      BY <2>2, <2>4 DEF Owed
    <2>5. CASE \A d \in Boots : at[d] # "idle" => ToCome(d, p)
      <3>1. ToCome(b, p)' \/ Writing(b, p, c)'
        BY <1>2, <2>5 DEF Repays
      <3>2. QED
        BY <2>2, <2>5, <3>1 DEF Owed
    <2>6. QED
      BY <2>1, <2>3, <2>4, <2>5 DEF Owed
  <1>3. QED
    BY <1>1, <1>2 DEF WholeInv


\* Every file of an archive is an entry of some job.
LEMMA FileHasEntry ==
  ASSUME NEW p \in Paths
  PROVE  \E j \in DOMAIN Jobs : \E i \in DOMAIN Jobs[j] :
           ~Jobs[j][i].dir /\ Jobs[j][i].path = p
  BY DEF Paths, Entries, ToSet

\* An entry of a job is numbered from 1 to its length.
LEMMA EntryNumbers ==
  ASSUME NEW j \in DOMAIN Jobs
  PROVE  /\ j \in 1..Len(Jobs)
         /\ Len(Jobs[j]) \in Nat /\ DOMAIN Jobs[j] = 1..Len(Jobs[j])
  <1>1. Jobs[j] \in Seq(EntryRecord)
    BY JobsType
  <1>2. QED
    BY <1>1, JobsType

\* A VM thread that goes on to the first entry of the next job, or to the next
\* entry of this one, is at a first chunk.
LEMMA AtFirstChunk ==
  ASSUME NEW b \in Boots, NEW job, NEW item, pos'[b] = FirstChunk(job, item),
         at'[b] # "idle"
  PROVE  Placed(b)'
  BY DEF Placed, FirstChunk

LEMMA AdvancesPosition ==
  ASSUME ThreadTypeOK, NEW b \in Boots, NEW failed \in BOOLEAN, Advance(b, failed)
  PROVE  /\ pos'[b] = FirstChunk(pos[b].job, pos[b].item + 1)
         /\ \A d \in Boots \ {b} : pos'[d] = pos[d]
         /\ at'[b] = "entry" /\ \A d \in Boots \ {b} : at'[d] = at[d]
  BY DEF Advance, GoTo, ThreadTypeOK, InstallerTypeOK

LEMMA FinishesPosition ==
  ASSUME ThreadTypeOK, NEW b \in Boots, NEW failed \in BOOLEAN, Finish(b, failed)
  PROVE  /\ \A d \in Boots \ {b} : pos'[d] = pos[d] /\ at'[d] = at[d]
         /\ IF IsScript(b)
            THEN at'[b] \in {"failed", "installed"}
            ELSE at'[b] = "opening" /\ pos'[b] = FirstChunk(pos[b].job + 1, 1)
  <1>1. at \in [Boots -> Installing \union Booting \union Resting] /\ pos \in [Boots -> Position]
    BY DEF ThreadTypeOK, InstallerTypeOK
  <1>2. CASE IsScript(b)
    <2>1. /\ GoTo(b, IF error'[b] THEN "failed" ELSE "installed")
          /\ pos' = pos
      BY <1>2 DEF Finish
    <2>2. QED
      BY <1>1, <1>2, <2>1 DEF GoTo
  <1>3. CASE ~IsScript(b)
    BY <1>1, <1>3 DEF Finish, GoTo
  <1>4. QED
    BY <1>2, <1>3

\* A step that is refused something leaves nothing to be shown but places.
LEMMA FailingRepays ==
  ASSUME ThreadTypeOK, NEW b \in Boots,
         \/ ArchiveFails(b) \/ ReaderMissing(b) \/ DirectoryFails(b)
         \/ OpenFileFails(b) \/ WriteFails(b) \/ CloseFails(b)
         \/ InstallFails(b)
  PROVE  Repays(b)
  <1>1. refused' = refused \union {b}
    BY DEF ArchiveFails, ReaderMissing, DirectoryFails, OpenFileFails, WriteFails,
           CloseFails, InstallFails, Refuse
  <1>2. /\ at'[b] # "idle" /\ Placed(b)'
        /\ \A d \in Boots \ {b} : at'[d] = at[d] /\ pos'[d] = pos[d]
    <2>1. CASE InstallFails(b)
      <3>1. GoTo(b, "failed") /\ pos' = pos
        BY <2>1 DEF InstallFails
      <3>2. at'[b] = "failed" /\ \A d \in Boots \ {b} : at'[d] = at[d]
        BY <3>1 DEF GoTo, ThreadTypeOK, InstallerTypeOK
      <3>3. QED
        BY <3>1, <3>2 DEF Placed
    <2>2. CASE ArchiveFails(b) \/ ReaderMissing(b)
      <3>1. ~IsScript(b) /\ \E failed \in BOOLEAN : Finish(b, failed)
        BY <2>2 DEF ArchiveFails, ReaderMissing
      <3>2. QED
        BY <3>1, FinishesPosition, AtFirstChunk
    <2>3. CASE DirectoryFails(b) \/ OpenFileFails(b) \/ WriteFails(b) \/ CloseFails(b)
      <3>1. \E failed \in BOOLEAN : Advance(b, failed)
        BY <2>3 DEF DirectoryFails, OpenFileFails, WriteFails, CloseFails, IsScript
      <3>2. QED
        BY <3>1, AdvancesPosition, AtFirstChunk
    <2>4. QED
      BY <2>1, <2>2, <2>3
  <1>3. QED
    BY <1>1, <1>2 DEF Repays


\* A step of b that was refused nothing and leaves the disk alone repays what
\* b owed if every file that was to come still is.
LEMMA QuietRepays ==
  ASSUME NEW b \in Boots, at'[b] # "idle", Placed(b)',
         \A d \in Boots \ {b} : at'[d] = at[d] /\ pos'[d] = pos[d],
         refused' = refused, files' = files, at[b] # "writing",
         \A p \in Paths : at[b] = "idle" \/ ToCome(b, p) => ToCome(b, p)'
  PROVE  Repays(b)
  BY DEF Repays, Writing

LEMMA OpeningRepays ==
  ASSUME ThreadTypeOK, WholeInv, NEW b \in Boots, Install(b) \/ OpenJob(b)
  PROVE  Repays(b)
  <1>1. /\ refused' = refused /\ files' = files /\ pos' = pos
        /\ at'[b] \in {"opening", "entry"} /\ at[b] \in {"idle", "opening"}
        /\ \A d \in Boots \ {b} : at'[d] = at[d]
    BY DEF Install, OpenJob, Grant, GoTo, diskVars, ThreadTypeOK, InstallerTypeOK
  <1>2. Placed(b)'
    BY <1>1 DEF WholeInv, Placed, FirstChunk
  <1>3. ASSUME NEW p \in Paths, at[b] = "idle" PROVE ToCome(b, p)'
    <2>1. PICK j \in DOMAIN Jobs : \E i \in DOMAIN Jobs[j] :
            ~Jobs[j][i].dir /\ Jobs[j][i].path = p
      BY FileHasEntry
    <2>2. PICK i \in DOMAIN Jobs[j] : ~Jobs[j][i].dir /\ Jobs[j][i].path = p
      BY <2>1
    <2>3. j \in Nat \ {0} /\ i \in Nat \ {0}
      BY EntryNumbers
    <2>4. pos'[b].job = 1 /\ pos'[b].item = 1
      BY <1>1, <1>3 DEF WholeInv, Placed, FirstChunk
    <2>5. at'[b] \in Installing /\ at'[b] # "writing"
      BY <1>1 DEF Installing
    <2>6. \/ j > pos'[b].job
          \/ j = pos'[b].job /\ i > pos'[b].item
          \/ j = pos'[b].job /\ i = pos'[b].item
      BY <2>3, <2>4
    <2>7. QED
      BY <2>2, <2>5, <2>6 DEF ToCome
  <1>4. ASSUME NEW p \in Paths, ToCome(b, p) PROVE ToCome(b, p)'
    BY <1>1, <1>4 DEF ToCome, Installing
  <1>5. QED
    BY <1>1, <1>2, <1>3, <1>4, QuietRepays

\* Past a directory, or past the end of a job, every file that was to come is
\* still to come.
LEMMA PassingRepays ==
  ASSUME ThreadTypeOK, NEW b \in Boots, MakeDirectory(b) \/ EndJob(b)
  PROVE  Repays(b)
  <1>1. refused' = refused /\ files' = files /\ at[b] = "entry"
    BY DEF MakeDirectory, EndJob, Grant, AtEntry, diskVars
  <1>2. pos[b].job \in Nat /\ pos[b].item \in Nat
    BY JobsType DEF ThreadTypeOK, InstallerTypeOK, Position
  <1>3. CASE MakeDirectory(b)
    <2>1. Advance(b, FALSE) /\ Entry(b).dir
      BY <1>3 DEF MakeDirectory
    <2>2. /\ pos'[b] = FirstChunk(pos[b].job, pos[b].item + 1)
          /\ \A d \in Boots \ {b} : at'[d] = at[d] /\ pos'[d] = pos[d]
          /\ at'[b] = "entry"
      BY <2>1, AdvancesPosition
    <2>3. Placed(b)'
      BY <2>2, AtFirstChunk
    <2>4. ASSUME NEW p \in Paths, ToCome(b, p) PROVE ToCome(b, p)'
      <3>1. PICK j \in DOMAIN Jobs : \E i \in DOMAIN Jobs[j] :
              /\ ~Jobs[j][i].dir /\ Jobs[j][i].path = p
              /\ \/ j > pos[b].job
                 \/ j = pos[b].job /\ i > pos[b].item
                 \/ j = pos[b].job /\ i = pos[b].item
        BY <2>4 DEF ToCome
      <3>2. PICK i \in DOMAIN Jobs[j] :
              /\ ~Jobs[j][i].dir /\ Jobs[j][i].path = p
              /\ \/ j > pos[b].job
                 \/ j = pos[b].job /\ i > pos[b].item
                 \/ j = pos[b].job /\ i = pos[b].item
        BY <3>1
      <3>3. ~(j = pos[b].job /\ i = pos[b].item)
        BY <2>1, <3>2 DEF Entry, Job
      <3>4. j \in Nat /\ i \in Nat
        BY EntryNumbers
      <3>5. pos'[b].job = pos[b].job /\ pos'[b].item = pos[b].item + 1
        BY <2>2 DEF FirstChunk
      <3>6. \/ j > pos'[b].job
            \/ j = pos'[b].job /\ i > pos'[b].item
            \/ j = pos'[b].job /\ i = pos'[b].item
        BY <1>2, <3>2, <3>3, <3>4, <3>5
      <3>7. at'[b] \in Installing /\ at'[b] # "writing"
        BY <2>2 DEF Installing
      <3>8. QED
        BY <3>2, <3>6, <3>7 DEF ToCome
    <2>5. QED
      BY <1>1, <2>2, <2>3, <2>4, QuietRepays
  <1>4. CASE EndJob(b)
    <2>1. Finish(b, FALSE) /\ pos[b].item > Len(Job(b))
      BY <1>4 DEF EndJob
    <2>2. /\ \A d \in Boots \ {b} : pos'[d] = pos[d] /\ at'[d] = at[d]
          /\ IF IsScript(b)
             THEN at'[b] \in {"failed", "installed"}
             ELSE at'[b] = "opening" /\ pos'[b] = FirstChunk(pos[b].job + 1, 1)
      BY <2>1, FinishesPosition
    <2>3. Placed(b)'
      BY <2>2, AtFirstChunk DEF Placed
    <2>4. ASSUME NEW p \in Paths, ToCome(b, p) PROVE ToCome(b, p)'
      <3>1. PICK j \in DOMAIN Jobs : \E i \in DOMAIN Jobs[j] :
              /\ ~Jobs[j][i].dir /\ Jobs[j][i].path = p
              /\ \/ j > pos[b].job
                 \/ j = pos[b].job /\ i > pos[b].item
                 \/ j = pos[b].job /\ i = pos[b].item
        BY <2>4 DEF ToCome
      <3>2. PICK i \in DOMAIN Jobs[j] :
              /\ ~Jobs[j][i].dir /\ Jobs[j][i].path = p
              /\ \/ j > pos[b].job
                 \/ j = pos[b].job /\ i > pos[b].item
                 \/ j = pos[b].job /\ i = pos[b].item
        BY <3>1
      <3>3. j \in 1..Len(Jobs) /\ i \in 1..Len(Jobs[j]) /\ Len(Jobs[j]) \in Nat
        BY EntryNumbers
      <3>4. j # pos[b].job
        BY <1>2, <2>1, <3>2, <3>3 DEF Job
      <3>5. j > pos[b].job
        BY <3>2, <3>4
      <3>6. pos[b].job # Len(Jobs)
        BY <1>2, <3>3, <3>5, JobsType
      <3>7. at'[b] = "opening" /\ pos'[b] = FirstChunk(pos[b].job + 1, 1)
        BY <2>2, <3>6 DEF IsScript
      <3>8. \/ j > pos'[b].job
            \/ j = pos'[b].job /\ i > pos'[b].item
            \/ j = pos'[b].job /\ i = pos'[b].item
        BY <1>2, <3>3, <3>5, <3>7 DEF FirstChunk
      <3>9. at'[b] \in Installing /\ at'[b] # "writing"
        BY <3>7 DEF Installing
      <3>10. QED
        BY <3>2, <3>8, <3>9 DEF ToCome
    <2>5. at'[b] # "idle"
      BY <2>2
    <2>6. QED
      BY <1>1, <2>2, <2>3, <2>4, <2>5, QuietRepays
  <1>5. QED
    BY <1>3, <1>4

\* A file that is opened is emptied, and all of it is still to be written.
LEMMA OpenFileRepays ==
  ASSUME ThreadTypeOK, WholeInv, NEW b \in Boots, OpenFile(b)
  PROVE  Repays(b)
  <1>1. /\ at[b] = "entry" /\ at'[b] = "writing" /\ pos' = pos /\ refused' = refused
        /\ \A d \in Boots \ {b} : at'[d] = at[d]
    BY DEF OpenFile, AtEntry, GoTo, Grant, ThreadTypeOK, InstallerTypeOK
  <1>2. pos'[b].chunk = 1 /\ Placed(b)'
    BY <1>1 DEF WholeInv, Placed
  <1>3. ASSUME NEW p \in Paths, NEW c \in 1..Chunks
        PROVE  /\ c \in files[p] => c \in files'[p] \/ Writing(b, p, c)'
               /\ ToCome(b, p) => ToCome(b, p)' \/ Writing(b, p, c)'
    <2>1. CASE p = Entry(b).path
      <3>1. Entry(b)' = Entry(b)
        BY <1>1 DEF Entry, Job
      <3>2. Writing(b, p, c)'
        BY <1>1, <1>2, <2>1, <3>1 DEF Writing
      <3>3. QED
        BY <3>2
    <2>2. CASE p # Entry(b).path
      <3>1. files'[p] = files[p]
        BY <2>2 DEF OpenFile, ThreadTypeOK, InstallerTypeOK
      <3>2. ToCome(b, p) => ToCome(b, p)'
        BY <1>1, <2>2 DEF ToCome, Installing, Entry, Job
      <3>3. QED
        BY <3>1, <3>2
    <2>3. QED
      BY <2>1, <2>2
  <1>4. QED
    BY <1>1, <1>2, <1>3 DEF Repays, Writing


\* A chunk that is written is on the disk; those after it are still owed, and
\* so are the files after this one.
LEMMA WriteChunkRepays ==
  ASSUME ThreadTypeOK, NEW b \in Boots, WriteChunk(b)
  PROVE  Repays(b)
  <1>1. at[b] = "writing" /\ refused' = refused
    BY DEF WriteChunk, Grant
  <1>2. pos[b].job \in Nat /\ pos[b].item \in Nat /\ pos[b].chunk \in 1..Chunks
    BY JobsType DEF ThreadTypeOK, InstallerTypeOK, Position
  <1>3. ASSUME NEW p \in Paths
        PROVE  files'[p] = IF p = Entry(b).path THEN files[p] \union {pos[b].chunk}
                           ELSE files[p]
    BY DEF WriteChunk, ThreadTypeOK, InstallerTypeOK
  <1>4. CASE pos[b].chunk < Chunks
    <2>1. at' = at /\ pos' = [pos EXCEPT ![b] = [pos[b] EXCEPT !.chunk = pos[b].chunk + 1]]
      BY <1>4 DEF WriteChunk
    <2>2. pos \in [Boots -> Position] /\ pos[b] \in Position
      BY DEF ThreadTypeOK, InstallerTypeOK
    <2>3. /\ pos'[b].job = pos[b].job /\ pos'[b].item = pos[b].item
          /\ pos'[b].chunk = pos[b].chunk + 1
          /\ \A d \in Boots \ {b} : at'[d] = at[d] /\ pos'[d] = pos[d]
      BY <2>1, <2>2 DEF Position
    <2>4. at'[b] = "writing" /\ Placed(b)'
      BY <1>1, <2>1 DEF Placed
    <2>5. Entry(b)' = Entry(b)
      BY <2>3 DEF Entry, Job
    <2>6. ASSUME NEW p \in Paths, NEW c \in 1..Chunks, Writing(b, p, c)
          PROVE  c \in files'[p] \/ Writing(b, p, c)'
      <3>1. p = Entry(b).path /\ pos[b].chunk <= c
        BY <2>6 DEF Writing
      <3>2. CASE c = pos[b].chunk
        BY <1>3, <3>1, <3>2
      <3>3. CASE c # pos[b].chunk
        <4>1. pos[b].chunk + 1 <= c
          BY <1>2, <3>1, <3>3, InstallerAssumption
        <4>2. QED
          BY <2>3, <2>4, <2>5, <3>1, <4>1 DEF Writing
      <3>4. QED
        BY <3>2, <3>3
    <2>7. ASSUME NEW p \in Paths, ToCome(b, p) PROVE ToCome(b, p)'
      BY <1>1, <2>3, <2>4, <2>7 DEF ToCome
    <2>8. QED
      BY <1>1, <1>3, <2>3, <2>4, <2>6, <2>7 DEF Repays
  <1>5. CASE ~(pos[b].chunk < Chunks)
    <2>1. Advance(b, FALSE)
      BY <1>5 DEF WriteChunk
    <2>2. /\ pos'[b] = FirstChunk(pos[b].job, pos[b].item + 1)
          /\ \A d \in Boots \ {b} : at'[d] = at[d] /\ pos'[d] = pos[d]
          /\ at'[b] = "entry"
      BY <2>1, AdvancesPosition
    <2>3. Placed(b)'
      BY <2>2, AtFirstChunk
    <2>4. ASSUME NEW p \in Paths, NEW c \in 1..Chunks, Writing(b, p, c)
          PROVE  c \in files'[p]
      <3>1. p = Entry(b).path /\ pos[b].chunk <= c
        BY <2>4 DEF Writing
      <3>2. c = pos[b].chunk
        BY <1>2, <1>5, <3>1, InstallerAssumption
      <3>3. QED
        BY <1>3, <3>1, <3>2
    <2>5. ASSUME NEW p \in Paths, ToCome(b, p) PROVE ToCome(b, p)'
      <3>1. PICK j \in DOMAIN Jobs : \E i \in DOMAIN Jobs[j] :
              /\ ~Jobs[j][i].dir /\ Jobs[j][i].path = p
              /\ j > pos[b].job \/ (j = pos[b].job /\ i > pos[b].item)
        BY <1>1, <2>5 DEF ToCome
      <3>2. PICK i \in DOMAIN Jobs[j] :
              /\ ~Jobs[j][i].dir /\ Jobs[j][i].path = p
              /\ j > pos[b].job \/ (j = pos[b].job /\ i > pos[b].item)
        BY <3>1
      <3>3. j \in Nat /\ i \in Nat
        BY EntryNumbers
      <3>4. \/ j > pos'[b].job
            \/ j = pos'[b].job /\ i > pos'[b].item
            \/ j = pos'[b].job /\ i = pos'[b].item
        BY <1>2, <2>2, <3>2, <3>3 DEF FirstChunk
      <3>5. at'[b] \in Installing /\ at'[b] # "writing"
        BY <2>2 DEF Installing
      <3>6. QED
        BY <3>2, <3>4, <3>5 DEF ToCome
    <2>6. QED
      BY <1>1, <1>3, <2>2, <2>3, <2>4, <2>5 DEF Repays
  <1>6. QED
    BY <1>4, <1>5

\* A step of the boot concerns no file.
LEMMA SignalsRepay ==
  ASSUME ThreadTypeOK, NEW b \in Boots, SignalStep(b)
  PROVE  Repays(b) /\ refused' = refused
  <1>1. \E place \in {"installed", "saved", "initialised", "restored", "chained", "running"} :
          \E next \in {"saved", "initialised", "restored", "chained", "running", "ended"} :
            From(b, place, next)
    BY DEF SignalStep, SaveOriginals, InitRuby, RestoreCritical, SetupCompromise,
           TrapAndRun, EndRuby
  <1>2. {"saved", "initialised", "restored", "chained", "running", "ended"}
          \subseteq Booting \union Resting
    BY DEF Booting, Resting
  <1>3. /\ at[b] \in {"installed", "saved", "initialised", "restored", "chained", "running"}
        /\ at'[b] \in {"saved", "initialised", "restored", "chained", "running", "ended"}
        /\ \A d \in Boots \ {b} : at'[d] = at[d]
        /\ UNCHANGED <<diskVars, pos, refused>>
    BY <1>1, <1>2, BootMoves
  <1>4. Placed(b)'
    BY <1>3 DEF Placed
  <1>5. \A p \in Paths : ~(at[b] = "idle" \/ ToCome(b, p))
    BY <1>3 DEF ToCome, Installing
  <1>6. QED
    BY <1>3, <1>4, <1>5, QuietRepays DEF diskVars

\* When nobody has begun, nothing is owed.
LEMMA NobodyBegunWhole ==
  at = Idle /\ pos = AtStart /\ refused = {} => WholeInv
  BY DEF WholeInv, Placed, Owed, Idle, AtStart

LEMMA WholeNextKeeps ==
  ASSUME ThreadInv, WholeInv, [ThreadNext]_threadVars
  PROVE  WholeInv'
  <1>1. ThreadTypeOK
    BY DEF ThreadInv
  <1>2. CASE UNCHANGED threadVars
    BY <1>2 DEF threadVars, installVars, diskVars, WholeInv, Placed, Owed, Writing,
                ToCome, Entry, Job
  <1>3. CASE Crash
    <2>1. at' = Idle /\ pos' = AtStart /\ refused' = {}
      BY <1>3 DEF Crash
    <2>2. QED
      BY <2>1 DEF WholeInv, Placed, Owed, Idle, AtStart, FirstChunk
  <1>4. ASSUME NEW b \in Boots, Begin(b) \/ BootStep(b) \/ EndRuby(b)
        PROVE  WholeInv'
    <2>1. Repays(b)
      <3>1. CASE Begin(b)
        BY <1>1, <3>1, OpeningRepays, FailingRepays DEF Begin
      <3>2. CASE InstallStep(b)
        BY <1>1, <3>2, OpeningRepays, FailingRepays, PassingRepays, OpenFileRepays,
           WriteChunkRepays DEF InstallStep
      <3>3. CASE SignalStep(b)
        BY <1>1, <3>3, SignalsRepay
      <3>4. QED
        BY <1>4, <3>1, <3>2, <3>3 DEF BootStep, SignalStep
    <2>2. refused \subseteq refused'
      <3>1. CASE SignalStep(b)
        BY <1>1, <3>1, SignalsRepay
      <3>2. CASE Begin(b) \/ InstallStep(b)
        BY <3>2, Opening, Failing, Unpacking
           DEF Begin, InstallStep, Installs, RefusalsOK
      <3>3. QED
        BY <1>4, <3>1, <3>2 DEF BootStep, SignalStep
    <2>3. QED
      BY <2>1, <2>2, RepaidKeepsWhole
  <1>5. QED
    BY <1>2, <1>3, <1>4 DEF ThreadNext

\* When no VM thread of the process has been refused anything, a chunk that is
\* not on the disk is yet to be written by one that has the file open, or by
\* each that has begun.
THEOREM FilesAreOwed == ThreadSpec => []WholeInv
  <1>1. ThreadInit => WholeInv
    BY NobodyBegunWhole DEF ThreadInit, InstallerInit
  <1>2. QED
    BY <1>1, WholeNextKeeps, ThreadInvariant, PTL DEF ThreadSpec

\* install.c: a VM boots on whole files when no call was refused to it nor to
\* the VM threads beside it and none of them is still installing, whatever
\* tree it found and however the installations raced.
THEOREM RacingInstallationsMakeWhole == ThreadSpec => []BootsOnWholeFiles
  <1>1. ASSUME ThreadTypeOK, WholeInv, NEW b \in Boots, Booted(b),
               \A d \in Rivals(b) \union {b} : at[d] \notin Installing /\ d \notin refused
        PROVE  Whole
    <2>1. at[b] # "idle"
      BY <1>1 DEF Booted, Booting
    <2>2. refused = {}
      BY <1>1 DEF ThreadTypeOK, InstallerTypeOK, WholeInv, Placed, Rivals
    <2>3. \A d \in Boots : at[d] \notin Installing
      BY <1>1 DEF Rivals, Installing
    <2>4. ASSUME NEW p \in Paths, NEW c \in 1..Chunks PROVE c \in files[p]
      <3>1. Owed(p, c)
        BY <1>1, <2>2 DEF WholeInv
      <3>2. \A d \in Boots : ~Writing(d, p, c) /\ ~ToCome(d, p)
        BY <2>3 DEF Writing, ToCome, Installing
      <3>3. QED
        BY <2>1, <3>1, <3>2 DEF Owed
    <2>5. QED
      BY <1>1, <2>4 DEF Whole, ThreadTypeOK, InstallerTypeOK
  <1>2. ThreadInv /\ WholeInv => BootsOnWholeFiles
    BY <1>1 DEF ThreadInv, BootsOnWholeFiles
  <1>3. QED
    BY <1>2, ThreadInvariant, FilesAreOwed, PTL

=============================================================================
