--------------------------- MODULE FakeDnsPersist ---------------------------
(***************************************************************************)
(* The fake DNS pool over the restarts of the proxy: fakedns_save when     *)
(* main has joined the workers, fakedns_load when it starts, and the two   *)
(* files.  The contents of a file are the domains of the saved slots.      *)
(***************************************************************************)
EXTENDS FakeDns

CONSTANT MaxBehind  \* bound: of the renames that the disk may be behind

VARIABLES
    up,    \* the process: "up", in a step of fakedns_save, or "down"
    file,  \* g_fakedns_cache_path
    tmp,   \* the same with .tmp
    behind \* the files that a power failure may bring back under g_fakedns_cache_path:
           \* fakedns_save does not fsync the directory

disk == <<file, tmp, behind>>
persistVars == <<vars, up, disk>>

\* safe: a power failure leaves the contents; whole: they are what was written.
NoFile == [exists |-> FALSE, saved |-> << >>, whole |-> FALSE, safe |-> TRUE]

\* The answers of the clients that the contents of a file bear out.
Recorded(f) == {a \in cached : f.whole /\ a.slot \in DOMAIN f.saved /\ f.saved[a.slot] = a.domain}

\* The process has ended, and its memory with it.
Ended == /\ up' = "down"
         /\ pool' = [slot \in Slots |-> NoEntry] /\ writer' = Idle /\ mru' = EmptyMru

\* The first start: there is no file to load.
PersistInit ==
    /\ Init /\ pool = [slot \in Slots |-> NoEntry]
    /\ up = "up" /\ file = NoFile /\ tmp = NoFile /\ behind = {}

-----------------------------------------------------------------------------
(* fakedns_save.                                                           *)

\* Mutant: an entry is only worth saving while most of its life is left.
Kept_Young(e) == e # NoEntry /\ e.expire > now + FAKEDNS_TTL_REFRESH_THRESHOLD

\* Entries that have expired are skipped.
Kept(e) == e # NoEntry /\ e.expire > now

\* Nothing is saved if the pool was never used.
SaveBegin ==
    /\ up = "up" /\ writer = Idle
    /\ \/ /\ \A slot \in Slots : pool[slot] = NoEntry
          /\ Ended /\ UNCHANGED tmp
       \/ /\ \E slot \in Slots : pool[slot] # NoEntry
          /\ tmp' = [exists |-> TRUE, saved |-> << >>, whole |-> FALSE, safe |-> FALSE]
          /\ up' = "writing" /\ UNCHANGED <<pool, writer, mru>>
    /\ UNCHANGED <<now, cached, file, behind>>

SaveEntries ==
    /\ up = "writing"
    /\ LET kept == {slot \in Slots : Kept(pool[slot])}
       IN  tmp' = [tmp EXCEPT !.saved = [slot \in kept |-> pool[slot].domain], !.whole = TRUE]
    /\ up' = "written"
    /\ UNCHANGED <<vars, file, behind>>

\* Mutant: the data is not flushed to the disk before the rename.
SaveSync_None ==
    /\ up = "written"
    /\ up' = "synced"
    /\ UNCHANGED <<vars, disk>>

SaveSync ==
    /\ up = "written"
    /\ tmp' = [tmp EXCEPT !.safe = TRUE]
    /\ up' = "synced"
    /\ UNCHANGED <<vars, file, behind>>

\* The new name is in the directory, which is not yet on the disk.
SaveRename ==
    /\ up = "synced" /\ Cardinality(behind) < MaxBehind
    /\ file' = tmp /\ tmp' = NoFile
    /\ behind' = behind \cup {file}
    /\ Ended
    /\ UNCHANGED <<now, cached>>

\* A call fails: the temporary file is unlinked and the old one stays.  Of
\* what clients have been told, only what the old file records is held to.
SaveFails ==
    /\ up \in {"writing", "written", "synced"}
    /\ tmp' = NoFile
    /\ Ended
    /\ cached' = Recorded(file)
    /\ UNCHANGED <<now, file, behind>>

-----------------------------------------------------------------------------
(* The machine and main.                                                   *)

\* The kernel writes the directory back, in its own time.
DirectorySynced ==
    /\ behind # {} /\ behind' = {}
    /\ UNCHANGED <<vars, up, file, tmp>>

\* What the disk may hold of a file after a power failure.
AfterPowerLoss(f) == IF f.safe THEN f ELSE [f EXCEPT !.whole = FALSE]

\* The power fails when the directory on the disk has f under g_fakedns_cache_path: the
\* last file or, if the rename is lost, one from before it, and then what was renamed
\* has its temporary name again, which nothing reads.
PowerFailure(f) ==
    /\ file' = AfterPowerLoss(f)
    /\ tmp' = AfterPowerLoss(IF f = file THEN tmp ELSE file)
    /\ behind' = {}

\* The process or the machine dies.  Of what clients have been told, only what is
\* recorded in the file that is left is held to.
Crash ==
    /\ up # "down"
    /\ \/ cached' = Recorded(file) /\ UNCHANGED disk
       \/ \E f \in {file} \cup behind : PowerFailure(f) /\ cached' = Recorded(f)
    /\ Ended
    /\ UNCHANGED now

PowerLoss ==
    /\ up = "down"
    /\ \E f \in {file} \cup behind :
        PowerFailure(f) /\ cached' = IF f = file THEN cached ELSE Recorded(f)
    /\ UNCHANGED <<pool, writer, mru, now, up>>

\* fakedns_load gives every entry of the file a new lifetime.
LoadedEntry(slot) ==
    IF file.whole /\ slot \in DOMAIN file.saved
    THEN [domain |-> file.saved[slot], expire |-> NewExpire, version |-> 1] ELSE NoEntry

\* main: fakedns_init, fakedns_load.
Start ==
    /\ up = "down"
    /\ pool' = [slot \in Slots |-> LoadedEntry(slot)]
    /\ up' = "up"
    /\ UNCHANGED <<writer, mru, now, cached, disk>>

\* The file cannot be read, or was saved for another address range.
StartWithoutFile ==
    /\ up = "down"
    /\ up' = "up"
    /\ cached' = {}
    /\ UNCHANGED <<pool, writer, mru, now, disk>>

Running == up = "up" /\ Next /\ UNCHANGED <<up, disk>>
Down == up # "up" /\ Tick /\ UNCHANGED <<up, disk>>

PersistNext ==
    \/ Running \/ Down
    \/ SaveBegin \/ SaveEntries \/ SaveSync \/ SaveRename \/ SaveFails
    \/ DirectorySynced \/ Crash \/ PowerLoss \/ Start \/ StartWithoutFile
PersistSpec == PersistInit /\ [][PersistNext]_persistVars

-----------------------------------------------------------------------------
\* The file that a start reads is always one that a save has completed, whatever
\* step of the save the process or the machine died in, and whether the rename had
\* reached the disk or not.
FileIsWhole == file.exists => file.whole /\ file.safe

\* A restart keeps its clients' answers good: an answer a client may still use
\* resolves to the domain it asked for after the restart as before.  After a crash of
\* the process or a failed save this is said of the answers that the last completed
\* save recorded, which a torn or half-written file would lose; after a power failure,
\* of those that the last save recorded whose rename had reached the disk, because
\* fakedns_save does not fsync the directory.
RestartKeepsAnswers == up = "up" => FreshAnswerResolves

\* "skip expired entries" (fakedns_save): an entry that the lookups take for current
\* is not one of those that the save leaves out.
SaveSkipsOnlyExpired ==
    up = "written" => \A slot \in Slots :
        pool[slot] # NoEntry /\ Remaining(pool[slot].expire) > 0 => slot \in DOMAIN tmp.saved
=============================================================================
