------------------------------ MODULE FileTree ------------------------------
(***************************************************************************)
(* Directory entries as the storage code sees them through its file-system *)
(* seam.  A path is the sequence of its names below the data directory,    *)
(* and an entry is the path it makes reachable.  Creating, renaming or     *)
(* removing an entry shows at once; a power loss undoes any such change    *)
(* whose directory was not synced after it.                                *)
(***************************************************************************)
EXTENDS Integers, SequencesExt, FiniteSets

CONSTANT
    Journaled  \* syncing a directory also keeps the entries that lead to it

VARIABLES
    entries,   \* the entries a process sees
    durable    \* the entries a power loss would leave, directory by directory

Root == <<>>

Parent(path) == SubSeq(path, 1, Len(path) - 1)

Ancestors(path) == {SubSeq(path, 1, n) : n \in 1..Len(path)}

Children(dir, S) == {e \in S : e # Root /\ Parent(e) = dir}

AddEntry(path) == entries' = entries \cup {path} /\ UNCHANGED durable

DropEntry(path) == entries' = entries \ {path} /\ UNCHANGED durable

\* syncDir: what the directory lists now is what it lists after a power loss.
SyncEntries(dir) ==
    /\ durable' = (durable \ Children(dir, durable)) \cup Children(dir, entries)
                    \cup (IF Journaled THEN Ancestors(dir) ELSE {})
    /\ UNCHANGED entries

(* Programs of file operations. *)

Op(op, path) == <<[op |-> op, path |-> path]>>

\* fsMkdirAll of directories in turn: one operation for each that is missing.
MkdirAll(dirs) ==
    LET chain(d) == [n \in 1..Len(d) |-> SubSeq(d, 1, n)]
        missing(i) == SelectSeq(chain(dirs[i]), LAMBDA e :
                        e \notin entries /\ \A j \in 1..(i - 1) : e \notin Ancestors(dirs[j]))
    IN  FlattenSeq([i \in 1..Len(dirs) |->
            [n \in 1..Len(missing(i)) |-> [op |-> "mkdir", path |-> missing(i)[n]]]])

\* createSegment, or a partition directory that has one already.
OpenLog(file) == Op("publish", file) \o Op("syncdir", Parent(file))

\* The effect of one operation on the entries.
FileEffect(o) ==
    \/ o.op \in {"mkdir", "create", "publish"} /\ AddEntry(o.path)
    \/ o.op = "syncdir" /\ SyncEntries(o.path)
    \/ o.op = "remove" /\ DropEntry(o.path)

\* What a power loss may leave: every unsynced change is kept or undone, and
\* what is no longer reachable from the root is gone.
AfterPowerLoss ==
    LET kept == entries \cap durable
        open == (entries \cup durable) \ kept
    IN  {{e \in kept \cup S : Ancestors(e) \subseteq kept \cup S} : S \in SUBSET open}

=============================================================================
