-------------------------------- MODULE Journal --------------------------------
(***************************************************************************)
(* The file behind the dispatch journal (internal/controller/journal.go):  *)
(* lines appended and synced, compaction through a temporary file and a    *)
(* rename, process death and power loss, and the load that follows.  An    *)
(* entry is abstracted to the number of its phase; the journal's mutex     *)
(* makes every method one step.                                            *)
(***************************************************************************)
EXTENDS Naturals, Sequences, FiniteSets, FiniteSetsExt, SequencesExt

CONSTANTS
  Ids,             \* entry ids
  Finished,        \* the number of phase "done"
  MaxInodes,       \* bound: files created, one more than compactions
  MaxFaults        \* bound: failed writes, syncs and reopenings

ASSUME JournalAssumption ==
  /\ IsFiniteSet(Ids)
  /\ "torn" \notin Ids
  /\ Finished \in Nat \ {0}
  /\ MaxInodes \in Nat \ {0}
  /\ MaxFaults \in Nat

VARIABLES
  file,    \* lines of every inode, as the operating system has them
  synced,  \* how many of them survive a power loss
  used,    \* inodes created so far
  name,    \* the inode dispatch.journal names
  linked,  \* the inode it names after a power loss
  fd,      \* the inode journal.file is open on; 0 when no controller runs
  mem,     \* journal.entries, by id; 0 for none
  acked,   \* history: the last phase put reported durable, by id
  over,    \* history: ids some controller held as finished
  stray,   \* history: ids put after a compaction failed half way
  faults

jvars == <<file, synced, used, name, linked, fd, mem, acked, over, stray,
           faults>>

Inodes == 1..MaxInodes

Line(id, n) == [id |-> id, n |-> n]

(* Bytes of a line that was not written to its end. *)
Torn == [id |-> "torn", n |-> 0]

JInit ==
  /\ file = [i \in Inodes |-> <<>>]
  /\ synced = [i \in Inodes |-> 0]
  /\ used = 1
  /\ name = 1
  /\ linked = 1
  /\ fd = 1
  /\ mem = [id \in Ids |-> 0]
  /\ acked = [id \in Ids |-> 0]
  /\ over = {}
  /\ stray = {}
  /\ faults = 0

Fault == faults < MaxFaults /\ faults' = faults + 1

--------------------------------------------------------------------------------
(* put *)

(* An entry is put under a new id, or goes on from the phase the journal     *)
(* holds; one held as finished is not resumed, and its id not used again.    *)
Puttable(id, n) ==
  /\ fd # 0
  /\ mem[id] = 0 => acked[id] = 0 /\ id \notin over
  /\ n \in (mem[id] + 1)..Finished

SyncedAfterNoSync(i) == synced[i]

(* What is durable after file.Sync. *)
SyncedAfter(i) == Len(file[i]) + 1

Put(id, n) ==
  /\ Puttable(id, n)
  /\ file' = [file EXCEPT ![fd] = Append(@, Line(id, n))]
  /\ synced' = [synced EXCEPT ![fd] = SyncedAfter(fd)]
  /\ mem' = [mem EXCEPT ![id] = n]
  /\ acked' = [acked EXCEPT ![id] = n]
  /\ over' = IF n = Finished THEN over \cup {id} ELSE over
  /\ stray' = IF fd # name THEN stray \cup {id} ELSE stray
  /\ UNCHANGED <<used, name, linked, fd, faults>>

(* The write stops early, or the sync reports an error: put returns it and   *)
(* merges nothing.                                                           *)
PutFails(id, n) ==
  /\ Puttable(id, n)
  /\ Fault
  /\ \E line \in {Line(id, n), Torn} : file' = [file EXCEPT ![fd] = Append(@, line)]
  /\ UNCHANGED <<synced, used, name, linked, fd, mem, acked, over, stray>>

--------------------------------------------------------------------------------
(* compact *)

Kept == {id \in Ids : mem[id] \notin {0, Finished}}

Rewritten == SetToSeq({Line(id, mem[id]) : id \in Kept})

(* The temporary file is written, synced and renamed over the journal. *)
Renamed ==
  /\ fd # 0
  /\ used < MaxInodes
  /\ used' = used + 1
  /\ file' = [file EXCEPT ![used + 1] = Rewritten]
  /\ synced' = [synced EXCEPT ![used + 1] = Len(Rewritten)]
  /\ name' = used + 1

(* The directory is synced and the new file opened. *)
Compact ==
  /\ Renamed
  /\ linked' = name'
  /\ fd' = name'
  /\ mem' = [id \in Ids |-> IF id \in Kept THEN mem[id] ELSE 0]
  /\ UNCHANGED <<acked, over, stray, faults>>

(* The directory cannot be synced, or the file not reopened: compact returns *)
(* the error and the journal goes on with the file it had.                   *)
CompactFails ==
  /\ Renamed
  /\ Fault
  /\ linked' \in {linked, name'}
  /\ UNCHANGED <<fd, mem, acked, over, stray>>

--------------------------------------------------------------------------------
(* Process death, power loss and load *)

Kill ==
  /\ fd # 0
  /\ fd' = 0
  /\ mem' = [id \in Ids |-> 0]
  /\ UNCHANGED <<file, synced, used, name, linked, acked, over, stray, faults>>

(* A power loss keeps the synced lines, and of the later ones any prefix,    *)
(* the last of it perhaps torn; a rename may be lost until the directory is  *)
(* synced.                                                                   *)
Survivors(i) ==
  LET whole == {SubSeq(file[i], 1, n) : n \in synced[i]..Len(file[i])}
  IN whole \cup {Append(s, Torn) : s \in {t \in whole : Len(t) < Len(file[i])}}

PowerLoss ==
  /\ \E i \in {name, linked} : \E s \in Survivors(i) :
       /\ name' = i
       /\ linked' = i
       /\ file' = [file EXCEPT ![i] = s]
       /\ synced' = [synced EXCEPT ![i] = Len(s)]
  /\ fd' = 0
  /\ mem' = [id \in Ids |-> 0]
  /\ UNCHANGED <<used, acked, over, stray, faults>>

(* A torn tail is cut off. *)
Whole(s) == IF s # <<>> /\ s[Len(s)] = Torn THEN SubSeq(s, 1, Len(s) - 1) ELSE s

(* merge: the last line of an entry counts. *)
Loaded(s, id) ==
  LET ns == {k \in 1..Len(s) : s[k].id = id}
  IN IF ns = {} THEN 0 ELSE s[Max(ns)].n

CutAt(s, durable) == IF durable > Len(s) THEN Len(s) ELSE durable

(* openJournal: a line that is damaged anywhere else refuses to open, now    *)
(* and at every later start.                                                 *)
Load ==
  LET lines == Whole(file[name])
  IN /\ fd = 0
     /\ \A k \in 1..Len(lines) : lines[k] # Torn
     /\ file' = [file EXCEPT ![name] = lines]
     /\ synced' = [synced EXCEPT ![name] = CutAt(lines, @)]
     /\ fd' = name
     /\ linked' = name
     /\ mem' = [id \in Ids |-> Loaded(lines, id)]
     /\ over' = over \cup {id \in Ids : mem'[id] = Finished}
     /\ UNCHANGED <<used, name, acked, stray, faults>>

LoadRefuses ==
  /\ fd = 0
  /\ \E k \in 1..Len(Whole(file[name])) : Whole(file[name])[k] = Torn
  /\ UNCHANGED jvars

JNext ==
  \/ \E id \in Ids, n \in 1..Finished : Put(id, n) \/ PutFails(id, n)
  \/ Compact
  \/ CompactFails
  \/ Kill
  \/ PowerLoss
  \/ Load
  \/ LoadRefuses

JSpec == JInit /\ [][JNext]_jvars

--------------------------------------------------------------------------------
(* Properties *)

(* Lines, counters and the two views of the directory keep their types, and  *)
(* no more lines are durable than written.                                   *)
JTypeOK ==
  /\ \A i \in Inodes : /\ \A k \in 1..Len(file[i]) :
                            file[i][k] = Torn \/ file[i][k].id \in Ids
                       /\ synced[i] \in 0..Len(file[i])
  /\ used \in Inodes
  /\ name \in 1..used
  /\ linked \in 1..used
  /\ fd \in 0..used
  /\ mem \in [Ids -> 0..Finished]
  /\ acked \in [Ids -> 0..Finished]

Remembered(id) == mem[id] >= acked[id] \/ (mem[id] = 0 /\ id \in over)

(* put, compact, openJournal: a running controller knows of every entry at   *)
(* least the last phase put reported durable, through process deaths, power  *)
(* losses, failed writes and compactions, and an entry reported finished is  *)
(* never open again -- unless the line went to the file a half-way failed    *)
(* compaction had already unlinked.                                          *)
NothingForgotten ==
  fd # 0 => \A id \in Ids \ stray : Remembered(id)

(* put: "put durably appends one entry state. It returns only after the line *)
(* is synced: the caller may then take the step the phase announces": the    *)
(* same for every entry.                                                     *)
PutIsDurable ==
  fd # 0 => \A id \in Ids : Remembered(id)

================================================================================
