--------------------------- MODULE LocalConfigStore ---------------------------
(***************************************************************************)
(* LocalConfigStore: the configuration the conductor works from. Besides   *)
(* the rows by id it keeps an index of ids by name for each kind of        *)
(* entity, a version that grows with every change, and the last snapshots  *)
(* to go back to. Callers hold the lock of the store during one operation  *)
(* only, so each operation is a step.                                      *)
(*                                                                         *)
(* Changes arrive in any order (ConfigSync), so two rows of a kind may     *)
(* share a name for a while although the database never holds two such.    *)
(***************************************************************************)
EXTENDS Naturals, Sequences, FiniteSets

CONSTANTS
    Id,             \* ids of schedulers, handlers and servers
    Kind,           \* what an entity is: each kind has a map and an index
    KindOf,         \* KindOf[i]: the kind of i
    Name,
    Data,           \* what a row holds besides its name
    Absent,         \* no row
    SnapshotLimit,  \* snapshots kept
    MaxVersion      \* bound on versions

Row == [name : Name, data : Data]
Contents == [Id -> Row \cup {Absent}]

ASSUME LocalConfigStoreAssumption ==
    /\ IsFiniteSet(Id)
    /\ KindOf \in [Id -> Kind]
    /\ Absent \notin Row
    /\ SnapshotLimit \in Nat \ {0}
    /\ MaxVersion \in Nat

VARIABLES
    entries,     \* entries[i]: the row of id i, or Absent
    index,       \* the name indices: pairs of a name and the id found by it
    version,
    snapshots,   \* kept snapshots, oldest first
    export,      \* the last export taken, if any
    rolledBack   \* history: was a snapshot restored or an export imported?

vars == <<entries, index, version, snapshots, export, rolledBack>>

-----------------------------------------------------------------------------
(* Data *)

Snapshot == [version : Nat, entries : Contents]
IndexEntry == [name : Name, id : Id]

Stored(rows) == {i \in Id : rows[i] # Absent}

Current == [version |-> version, entries |-> entries]

\* A name is a key within its kind.
SameKey(x, y) == x.name = y.name /\ KindOf[x.id] = KindOf[y.id]

KeyOf(i, row) == [name |-> row.name, id |-> i]

\* HashMap::remove and insert of an index
Unindexed(ix, x) == {y \in ix : ~ SameKey(x, y)}
Indexed(ix, x) == Unindexed(ix, x) \cup {x}

IsFunctional(ix) == \A x, y \in ix : SameKey(x, y) => x = y

TypeOK ==
    /\ entries \in Contents
    /\ index \in SUBSET IndexEntry /\ IsFunctional(index)
    /\ version \in Nat
    /\ snapshots \in Seq(Snapshot) /\ Len(snapshots) <= SnapshotLimit
    /\ export \in SUBSET Snapshot
    /\ rolledBack \in BOOLEAN

Keys(rows) == {KeyOf(i, rows[i]) : i \in Stored(rows)}

\* Clear the indices and insert every row, in the order of a HashMap: of the
\* rows that share a name any one may be the last.
RebuiltIndices(rows) ==
    {ix \in SUBSET Keys(rows) :
        IsFunctional(ix) /\ \A k \in Keys(rows) : \E x \in ix : SameKey(x, k)}

-----------------------------------------------------------------------------
(* Changes *)

\* Mutant: the old name is not removed when it changed.
WithoutOldNameKept(i, row) == index

\* The index without the name the row had before, if that changes.
WithoutOldName(i, row) ==
    IF entries[i] # Absent /\ entries[i].name # row.name
    THEN Unindexed(index, KeyOf(i, entries[i]))
    ELSE index

\* Mutant: the new name is inserted before the old one is removed, whether
\* or not it is another one.
ReindexedFirst(i, row) ==
    LET inserted == Indexed(index, KeyOf(i, row))
    IN IF entries[i] # Absent
       THEN Unindexed(inserted, KeyOf(i, entries[i])) ELSE inserted

Reindexed(i, row) == Indexed(WithoutOldName(i, row), KeyOf(i, row))

\* Mutant: only the time of the change is noted.
NextVersionForgotten == version

\* update_sync_time
NextVersion == version + 1

Upsert(i, row) ==
    /\ version < MaxVersion
    /\ entries' = [entries EXCEPT ![i] = row]
    /\ index' = Reindexed(i, row)
    /\ version' = NextVersion
    /\ UNCHANGED <<snapshots, export, rolledBack>>

\* Removing what is not there changes nothing.
Remove(i) ==
    /\ version < MaxVersion
    /\ entries[i] # Absent
    /\ entries' = [entries EXCEPT ![i] = Absent]
    /\ index' = Unindexed(index, KeyOf(i, entries[i]))
    /\ version' = NextVersion
    /\ UNCHANGED <<snapshots, export, rolledBack>>

-----------------------------------------------------------------------------
(* Snapshots and exports *)

\* Mutant: the history is truncated.
WithSnapshotTruncated(s) ==
    LET longer == Append(snapshots, s)
    IN IF Len(longer) > SnapshotLimit THEN SubSeq(longer, 1, SnapshotLimit) ELSE longer

WithSnapshot(s) ==
    LET longer == Append(snapshots, s)
    IN IF Len(longer) > SnapshotLimit THEN Tail(longer) ELSE longer

CreateSnapshot ==
    /\ snapshots' = WithSnapshot(Current)
    /\ UNCHANGED <<entries, index, version, export, rolledBack>>

\* The snapshot a caller gets for version v, if there is one: the oldest.
Found(v) ==
    {snapshots[k] : k \in {n \in DOMAIN snapshots :
        /\ snapshots[n].version = v
        /\ \A m \in DOMAIN snapshots : snapshots[m].version = v => n <= m}}

\* Both ways back take the version of what they bring back.
GoBackTo(s) ==
    /\ entries' = s.entries
    /\ index' \in RebuiltIndices(s.entries)
    /\ version' = s.version
    /\ rolledBack' = TRUE
    /\ UNCHANGED export

RestoreFromSnapshot(v) ==
    /\ \E s \in Found(v) : GoBackTo(s)
    /\ UNCHANGED snapshots

ExportConfig ==
    /\ export' = {Current}
    /\ UNCHANGED <<entries, index, version, snapshots, rolledBack>>

ImportConfig ==
    /\ \E s \in export : GoBackTo(s)
    /\ snapshots' = WithSnapshot(Current)

GoBack == ImportConfig \/ \E v \in 1 .. MaxVersion : RestoreFromSnapshot(v)

-----------------------------------------------------------------------------
(* Specification *)

\* The rows the database held, loaded into an empty store one by one.
Init ==
    /\ entries \in Contents
    /\ index = Keys(entries) /\ IsFunctional(index)
    /\ version = 1 + Cardinality(Stored(entries))
    /\ snapshots = <<>>
    /\ export = {}
    /\ rolledBack = FALSE

Next ==
    \/ \E i \in Id : Remove(i) \/ \E row \in Row : Upsert(i, row)
    \/ CreateSnapshot
    \/ ExportConfig
    \/ GoBack

Spec == Init /\ [][Next]_vars

-----------------------------------------------------------------------------
(* Properties *)

\* What is found by a name exists and has that name, whatever changes arrive
\* in whatever order and however names are shared meanwhile (the second half
\* of validate_index_consistency).
LookupsNeverLie ==
    \A x \in index : entries[x.id] # Absent /\ entries[x.id].name = x.name

NamesUnique ==
    \A i, j \in Stored(entries) :
        SameKey(KeyOf(i, entries[i]), KeyOf(j, entries[j])) => i = j

AllFound == Keys(entries) \subseteq index

\* As long as no two rows of a kind share a name, every row is found by its
\* name, through renames and names that pass from one row to another (the
\* first half of validate_index_consistency); and going back to a snapshot or
\* an export finds every row again even if lookups were incomplete.
LookupsStayComplete ==
    [][ (NamesUnique /\ AllFound) \/ GoBack
          => (NamesUnique' => AllFound') ]_vars

\* Until a snapshot is restored or an export imported, a version stands for
\* one configuration: kept snapshots, the export and the store itself agree
\* whenever they have the same version, so that restoring by version is
\* unambiguous although it takes the first match. (Going back resets the
\* version, and the numbers after it are given a second time.)
VersionNamesContents ==
    LET kept == {snapshots[n] : n \in DOMAIN snapshots} \cup export \cup {Current}
    IN ~ rolledBack =>
        \A s, t \in kept : s.version = t.version => s.entries = t.entries

\* The first import can be undone: the snapshot taken before it survives the
\* limit on snapshots and is the one found under the version of the store.
ImportCanBeUndone ==
    [][ ImportConfig /\ ~ rolledBack
          => \E v \in {version} : \E s \in Found(v)' : s.entries = entries ]_vars

=============================================================================
