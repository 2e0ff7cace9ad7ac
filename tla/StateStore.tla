----------------------------- MODULE StateStore -----------------------------
(***************************************************************************)
(* AppStateStore (aws_sso_autologin/state.py): the global and per-profile  *)
(* monitoring states, in memory and in state.json.  A setter changes the   *)
(* memory first and then writes all of it: a temporary file in the same    *)
(* directory, replaced over the state file.  Any step of the write can     *)
(* raise, the process can die between two steps, and a symlink can appear  *)
(* in the path, which a write refuses and a load takes for an empty state. *)
(***************************************************************************)
CONSTANTS
    Keys,           \* "global" and the profile names
    WriteMayFail    \* TRUE: the steps of a write may raise, symlinks appear

ASSUME StoreAssumption == WriteMayFail \in BOOLEAN

Values == {"running", "paused"}
Empty == [k \in Keys |-> "running"]   \* a missing entry counts as running

VARIABLES
    memory,     \* _state
    disk,       \* what state.json holds
    temp,       \* "none", or a temporary file that is "open" or "written"
    orphans,    \* TRUE: a dead process or a refused unlink left a temporary file
    symlinked,  \* a component of the state path is a symlink
    step,       \* where the setter is; "idle" outside a call
    key,        \* the key being set
    acked,      \* history: what the last acknowledged call set each key to
    settled,    \* history: keys whose last call was acknowledged
    before      \* history: disk when the current call began

vars == <<memory, disk, temp, orphans, symlinked, step, key, acked, settled, before>>
history == <<acked, settled, before>>

Init ==
    /\ disk \in [Keys -> Values]
    /\ symlinked \in (IF WriteMayFail THEN BOOLEAN ELSE {FALSE})
    /\ memory = IF symlinked THEN Empty ELSE disk
    /\ temp = "none"
    /\ orphans = FALSE
    /\ step = "idle"
    /\ key \in Keys
    /\ acked = memory
    /\ settled = IF symlinked THEN {} ELSE Keys
    /\ before = disk

\* Mutant: stores the word the menu uses, not the one the loader looks for.
Set_StoresLabel(k, v) ==
    /\ step = "idle"
    /\ memory' = [memory EXCEPT ![k] = IF v = "running" THEN "resumed" ELSE v]
    /\ key' = k
    /\ step' = "check_path"
    /\ before' = disk
    /\ settled' = settled \ {k}
    /\ UNCHANGED <<disk, temp, orphans, symlinked, acked>>

\* set_global_monitoring_enabled and set_profile_monitoring_enabled.
Set(k, v) ==
    /\ step = "idle"
    /\ memory' = [memory EXCEPT ![k] = v]
    /\ key' = k
    /\ step' = "check_path"
    /\ before' = disk
    /\ settled' = settled \ {k}
    /\ UNCHANGED <<disk, temp, orphans, symlinked, acked>>

\* The exception leaves the setter.  The memory keeps the new value.
Raise == step' = "idle"

RefuseSymlink ==
    /\ step = "check_path"
    /\ symlinked
    /\ Raise
    /\ UNCHANGED <<memory, disk, temp, orphans, symlinked, key, history>>

\* mkdir, chmod of the directory, mkstemp.
MakeTemp ==
    /\ step = "check_path"
    /\ ~symlinked
    /\ temp' = "open"
    /\ step' = "dump"
    /\ UNCHANGED <<memory, disk, orphans, symlinked, key, history>>

MakeTempFails ==
    /\ WriteMayFail
    /\ step = "check_path"
    /\ ~symlinked
    /\ Raise
    /\ UNCHANGED <<memory, disk, temp, orphans, symlinked, key, history>>

\* json.dump and chmod of the temporary file.
Dump ==
    /\ step = "dump"
    /\ temp' = "written"
    /\ step' = "replace"
    /\ UNCHANGED <<memory, disk, orphans, symlinked, key, history>>

\* Mutant: writes the state file in place.
Replace_Truncates ==
    /\ step = "replace"
    /\ disk' = IF disk = memory THEN memory ELSE Empty
    /\ temp' = "none"
    /\ step' = IF disk = memory THEN "chmod" ELSE "replace"
    /\ UNCHANGED <<memory, orphans, symlinked, key, history>>

\* Mutant: writes the entry being set and drops the others.
Replace_DropsOthers ==
    /\ step = "replace"
    /\ disk' = [Empty EXCEPT ![key] = memory[key]]
    /\ temp' = "none"
    /\ step' = "chmod"
    /\ UNCHANGED <<memory, orphans, symlinked, key, history>>

Replace ==
    /\ step = "replace"
    /\ disk' = memory
    /\ temp' = "none"
    /\ step' = "chmod"
    /\ UNCHANGED <<memory, orphans, symlinked, key, history>>

\* Mutant: the temporary file stays when the write fails.
WriteFails_LeavesTemp ==
    /\ WriteMayFail
    /\ step \in {"dump", "replace", "chmod"}
    /\ Raise
    /\ UNCHANGED <<memory, disk, temp, orphans, symlinked, key, history>>

\* An exception between mkstemp and the end: the temporary file is unlinked,
\* if it still has that name.
WriteFails ==
    /\ WriteMayFail
    /\ step \in {"dump", "replace", "chmod"}
    /\ temp' = "none"
    /\ Raise
    /\ UNCHANGED <<memory, disk, orphans, symlinked, key, history>>

\* The unlink raises as well, in the except clause.  The next write makes a
\* temporary file of another name.
WriteAndUnlinkFail ==
    /\ WriteMayFail
    /\ step \in {"dump", "replace"}
    /\ temp' = "none"
    /\ orphans' = TRUE
    /\ Raise
    /\ UNCHANGED <<memory, disk, symlinked, key, history>>

\* The last chmod, and the return to the caller.
SetReturns ==
    /\ step = "chmod"
    /\ step' = "idle"
    /\ acked' = [acked EXCEPT ![key] = memory[key]]
    /\ settled' = settled \cup {key}
    /\ UNCHANGED <<memory, disk, temp, orphans, symlinked, key, before>>

\* The process dies and a new one loads the state file, or ignores it: then it
\* has none of the settings, and its next write replaces them.
Restart ==
    /\ orphans' = (orphans \/ temp # "none")
    /\ temp' = "none"
    /\ memory' = IF symlinked THEN Empty ELSE disk
    /\ step' = "idle"
    /\ acked' = memory'
    /\ settled' = IF symlinked THEN {} ELSE Keys
    /\ before' = disk
    /\ UNCHANGED <<disk, symlinked, key>>

\* The user's home directory changes under the program.
FlipSymlink ==
    /\ WriteMayFail
    /\ symlinked' = ~symlinked
    /\ UNCHANGED <<memory, disk, temp, orphans, step, key, history>>

Next ==
    \/ \E k \in Keys, v \in Values : Set(k, v)
    \/ RefuseSymlink
    \/ MakeTemp
    \/ MakeTempFails
    \/ Dump
    \/ Replace
    \/ WriteFails
    \/ WriteAndUnlinkFail
    \/ SetReturns
    \/ Restart
    \/ FlipSymlink

Spec == Init /\ [][Next]_vars

-----------------------------------------------------------------------------

TypeOK ==
    /\ memory \in [Keys -> Values]
    /\ disk \in [Keys -> Values]
    /\ temp \in {"none", "open", "written"}
    /\ orphans \in BOOLEAN
    /\ symlinked \in BOOLEAN
    /\ step \in {"idle", "check_path", "dump", "replace", "chmod"}
    /\ key \in Keys
    /\ acked \in [Keys -> Values]
    /\ before \in [Keys -> Values]
    /\ settled \subseteq Keys

\* A process that dies anywhere in a write loses no other setting: the file
\* holds what it held before the call, or all of the memory.
WritesAreAtomic == step # "idle" => disk \in {before, memory}

\* A setter leaves no temporary file behind, however it ends, but for the ones
\* counted as orphans: of a process that died in it, or of a refused unlink.
TempIsRemoved == step \in {"idle", "check_path", "chmod"} => temp = "none"

\* A restart brings back every acknowledged setting, whatever happened to the
\* changes of other settings since: failed writes, refused writes and the
\* death of the process in the middle of one.
RestartKeepsSettings == \A k \in settled : disk[k] = acked[k]
=============================================================================
