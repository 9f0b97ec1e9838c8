------------------------ MODULE LocalConfigStoreProofs ------------------------
(* Theorems about LocalConfigStore: for every set of entities, kinds and      *)
(* names, every limit on snapshots and every order of changes.                *)
EXTENDS LocalConfigStore, FiniteSetTheorems, WellFoundedInduction, TLAPS

\* A set of numbers that is not empty has a least one.
LEMMA LeastExists ==
    ASSUME NEW S \in SUBSET Nat, S # {}
    PROVE  \E n \in S : \A m \in S : n <= m
<1> DEFINE R == OpToRel(<, Nat)
<1>1. IsWellFoundedOn(R, Nat)
  BY NatLessThanWellFounded, Zenon
<1> HIDE DEF R
<1>2. PICK x \in S : \A y \in S : ~ (<<y, x>> \in R)
  BY <1>1, WFMin, Zenon
<1>3. \A y \in S : ~ (y < x)
  <2> TAKE y \in S
  <2>1. x \in Nat /\ y \in Nat
    OBVIOUS
  <2>2. QED
    BY <1>2, <2>1 DEF R, OpToRel
<1>4. QED
  BY <1>3

-----------------------------------------------------------------------------
(* Indices *)

\* A row and its id make an entry of the index.
LEMMA KeyType ==
    ASSUME NEW i \in Id, NEW row \in Row
    PROVE  /\ KeyOf(i, row) \in IndexEntry
           /\ KeyOf(i, row).id = i /\ KeyOf(i, row).name = row.name
BY DEF KeyOf, IndexEntry, Row

\* What is left and what is added.
LEMMA Membership ==
    ASSUME NEW ix, NEW x
    PROVE  /\ \A y : y \in Unindexed(ix, x) <=> y \in ix /\ ~ SameKey(y, x)
           /\ \A y : y \in Indexed(ix, x) <=> y = x \/ (y \in ix /\ ~ SameKey(y, x))
BY DEF Unindexed, Indexed, SameKey

\* Removing from an index keeps a part of it.
LEMMA UnindexedType ==
    ASSUME NEW ix \in SUBSET IndexEntry, IsFunctional(ix), NEW x \in IndexEntry
    PROVE  /\ Unindexed(ix, x) \in SUBSET IndexEntry
           /\ IsFunctional(Unindexed(ix, x))
BY DEF Unindexed, IsFunctional

\* Inserting into an index replaces what was found by the name.
LEMMA IndexedType ==
    ASSUME NEW ix \in SUBSET IndexEntry, IsFunctional(ix), NEW x \in IndexEntry
    PROVE  /\ Indexed(ix, x) \in SUBSET IndexEntry
           /\ IsFunctional(Indexed(ix, x))
BY DEF Indexed, Unindexed, IsFunctional, SameKey

\* The entries of rows have types.
LEMMA KeysType ==
    ASSUME NEW rows \in Contents
    PROVE  /\ Keys(rows) \in SUBSET IndexEntry
           /\ \A x \in Keys(rows) :
                 rows[x.id] # Absent /\ rows[x.id].name = x.name
<1>1. \A i \in Stored(rows) : i \in Id /\ rows[i] \in Row
  BY DEF Stored, Contents
<1>2. QED
  BY <1>1, KeyType DEF Keys, Stored

\* Everything but an old name of the row is still in the index.
LEMMA WithoutOldNameType ==
    ASSUME TypeOK, NEW i \in Id, NEW row \in Row
    PROVE  /\ WithoutOldName(i, row) \in SUBSET IndexEntry
           /\ IsFunctional(WithoutOldName(i, row))
<1>1. entries[i] # Absent => KeyOf(i, entries[i]) \in IndexEntry
  BY KeyType DEF TypeOK, Contents
<1>2. QED
  BY <1>1, UnindexedType DEF WithoutOldName, TypeOK

-----------------------------------------------------------------------------
(* Snapshots *)

\* A new snapshot comes last, those before it are old ones, and the limit is
\* kept.
LEMMA WithSnapshotType ==
    ASSUME TypeOK, NEW s \in Snapshot
    PROVE  LET t == WithSnapshot(s)
           IN /\ t \in Seq(Snapshot)
              /\ Len(t) \in 1 .. SnapshotLimit
              /\ t[Len(t)] = s
              /\ \A n \in DOMAIN t :
                    t[n] = s \/ \E m \in DOMAIN snapshots : t[n] = snapshots[m]
<1> DEFINE longer == Append(snapshots, s)
<1>1. /\ longer \in Seq(Snapshot)
      /\ Len(longer) = Len(snapshots) + 1
      /\ longer[Len(longer)] = s
      /\ \A n \in 1 .. Len(snapshots) : longer[n] = snapshots[n]
  BY DEF TypeOK
<1>2. Len(snapshots) \in Nat /\ DOMAIN snapshots = 1 .. Len(snapshots)
      /\ SnapshotLimit \in Nat \ {0} /\ Len(snapshots) <= SnapshotLimit
  BY LocalConfigStoreAssumption DEF TypeOK
<1> HIDE DEF longer
<1>3. CASE Len(longer) > SnapshotLimit
  <2>1. WithSnapshot(s) = Tail(longer)
    BY <1>3 DEF WithSnapshot, longer
  <2>2. Len(longer) > 1 /\ Len(longer) \in Nat /\ Len(longer) = SnapshotLimit + 1
    BY <1>1, <1>2, <1>3
  <2>3. /\ Tail(longer) \in Seq(Snapshot)
        /\ Len(Tail(longer)) = Len(longer) - 1
        /\ \A n \in 1 .. Len(longer) - 1 : Tail(longer)[n] = longer[n + 1]
    BY <1>1, <2>2
  <2>4. DOMAIN Tail(longer) = 1 .. Len(longer) - 1
    BY <2>3
  <2>5. Tail(longer)[Len(Tail(longer))] = s
    BY <1>1, <2>2, <2>3
  <2>6. \A n \in 1 .. Len(longer) - 1 :
          Tail(longer)[n] = s \/ \E m \in DOMAIN snapshots : Tail(longer)[n] = snapshots[m]
    <3> TAKE n \in 1 .. Len(longer) - 1
    <3>1. Tail(longer)[n] = longer[n + 1]
      BY <2>3
    <3>2. n + 1 = Len(longer) \/ n + 1 \in 1 .. Len(snapshots)
      BY <1>1, <1>2
    <3>3. QED
      BY <1>1, <1>2, <3>1, <3>2
  <2>7. QED
    BY <1>2, <2>1, <2>2, <2>3, <2>4, <2>5, <2>6
<1>4. CASE ~ (Len(longer) > SnapshotLimit)
  <2>1. WithSnapshot(s) = longer
    BY <1>4 DEF WithSnapshot, longer
  <2>2. Len(longer) \in 1 .. SnapshotLimit /\ DOMAIN longer = 1 .. Len(longer)
    BY <1>1, <1>2, <1>4
  <2>3. \A n \in DOMAIN longer :
          longer[n] = s \/ \E m \in DOMAIN snapshots : longer[n] = snapshots[m]
    BY <1>1, <1>2, <2>2
  <2>4. QED
    BY <1>1, <2>1, <2>2, <2>3
<1>5. QED
  BY <1>3, <1>4

\* The store can be kept.
LEMMA CurrentType == TypeOK => Current \in Snapshot
BY DEF TypeOK, Current, Snapshot

\* What is found under a version was kept under it.
LEMMA FoundType ==
    ASSUME TypeOK, NEW v, NEW s \in Found(v)
    PROVE  s \in Snapshot /\ s.version = v /\ \E n \in DOMAIN snapshots : s = snapshots[n]
BY DEF TypeOK, Found

-----------------------------------------------------------------------------
(* What each operation does to rows and lookups *)

\* The store holds what it should and its lookups are true.
StoreInvariant == TypeOK /\ LookupsNeverLie

\* The types and lookups hold initially.
LEMMA StoreInit == Init => StoreInvariant /\ AllFound
<1> SUFFICES ASSUME Init PROVE StoreInvariant /\ AllFound
  OBVIOUS
<1>1. index \in SUBSET IndexEntry /\ LookupsNeverLie /\ AllFound
  BY KeysType DEF Init, LookupsNeverLie, AllFound
<1>2. IsFiniteSet(Stored(entries))
  BY LocalConfigStoreAssumption, FS_Subset DEF Stored
<1>3. version \in Nat
  BY <1>2, FS_CardinalityType DEF Init
<1>4. snapshots \in Seq(Snapshot) /\ Len(snapshots) <= SnapshotLimit
  BY LocalConfigStoreAssumption DEF Init
<1>5. QED
  BY <1>1, <1>3, <1>4 DEF Init, TypeOK, StoreInvariant

\* A changed row is found by its name and by no other, and nobody else is
\* lost who does not share a name with it.
LEMMA UpsertIndex ==
    ASSUME StoreInvariant, NEW i \in Id, NEW row \in Row, Upsert(i, row)
    PROVE  /\ StoreInvariant'
           /\ NamesUnique /\ AllFound /\ NamesUnique' => AllFound'
<1>1. entries' \in Contents /\ entries' = [entries EXCEPT ![i] = row]
  BY DEF StoreInvariant, TypeOK, Upsert, Contents
<1>2. /\ KeyOf(i, row) \in IndexEntry
      /\ index' = Indexed(WithoutOldName(i, row), KeyOf(i, row))
      /\ index' \in SUBSET IndexEntry /\ IsFunctional(index')
  BY KeyType, WithoutOldNameType, IndexedType
     DEF StoreInvariant, Upsert, Reindexed
<1>3. TypeOK'
  BY <1>1, <1>2 DEF StoreInvariant, TypeOK, Upsert, NextVersion
<1>4. LookupsNeverLie'
  <2> SUFFICES ASSUME NEW x \in index'
               PROVE  entries'[x.id] # Absent /\ entries'[x.id].name = x.name
    BY DEF LookupsNeverLie
  <2>1. x \in IndexEntry /\ x.id \in Id
    BY <1>2 DEF IndexEntry
  <2>2. CASE x = KeyOf(i, row)
    BY <1>1, <2>2, KeyType, LocalConfigStoreAssumption DEF StoreInvariant, TypeOK, Contents
  <2>3. CASE x # KeyOf(i, row)
    <3>1. x \in WithoutOldName(i, row) /\ ~ SameKey(x, KeyOf(i, row))
      BY <1>2, <2>3, Membership, Zenon
    <3>2. x \in index
      BY <3>1, Membership DEF WithoutOldName
    <3>3. entries[x.id] # Absent /\ entries[x.id].name = x.name
      BY <3>2 DEF StoreInvariant, LookupsNeverLie
    <3>4. ASSUME x.id = i PROVE FALSE
      <4>1. x.name # row.name
        BY <3>1, <3>4, KeyType DEF SameKey
      <4>2. ~ SameKey(x, KeyOf(i, entries[i]))
        BY <3>1, <3>3, <3>4, <4>1, Membership DEF WithoutOldName
      <4>3. entries[i] \in Row
        BY <3>3, <3>4 DEF StoreInvariant, TypeOK, Contents
      <4>4. QED
        BY <3>3, <3>4, <4>2, <4>3, KeyType DEF SameKey
    <3>5. QED
      BY <1>1, <2>1, <3>3, <3>4 DEF StoreInvariant, TypeOK, Contents
  <2>4. QED
    BY <2>2, <2>3
<1>5. ASSUME NamesUnique, AllFound, NamesUnique' PROVE AllFound'
  <2> SUFFICES ASSUME NEW j \in Stored(entries') PROVE KeyOf(j, entries'[j]) \in index'
    BY DEF AllFound, Keys
  <2>1. j \in Id /\ entries'[j] # Absent /\ entries'[j] \in Row
    BY <1>1 DEF Stored, Contents
  <2>2. CASE j = i
    BY <1>1, <1>2, <2>2 DEF Indexed, StoreInvariant, TypeOK, Contents
  <2>3. CASE j # i
    <3>1. entries'[j] = entries[j] /\ j \in Stored(entries)
      BY <1>1, <2>1, <2>3 DEF StoreInvariant, TypeOK, Contents, Stored
    <3>2. KeyOf(j, entries[j]) \in index
      BY <1>5, <3>1 DEF AllFound, Keys
    <3>3. i \in Stored(entries') /\ entries'[i] = row
      BY <1>1, LocalConfigStoreAssumption DEF StoreInvariant, TypeOK, Contents, Stored
    <3>4. ~ SameKey(KeyOf(j, entries[j]), KeyOf(i, row))
      BY <1>5, <2>3, <3>1, <3>3 DEF NamesUnique
    <3>5. entries[i] # Absent =>
            ~ SameKey(KeyOf(j, entries[j]), KeyOf(i, entries[i]))
      BY <1>5, <2>3, <3>1 DEF NamesUnique, Stored
    <3>6. QED
      <4>1. KeyOf(j, entries[j]) \in WithoutOldName(i, row)
        BY <3>2, <3>5, Membership DEF WithoutOldName
      <4>2. QED
        BY <1>2, <3>1, <3>4, <4>1, Membership
  <2>4. QED
    BY <2>2, <2>3
<1>6. QED
  BY <1>3, <1>4, <1>5 DEF StoreInvariant

\* A removed row is found no more, and nobody else is lost who does not share
\* its name.
LEMMA RemoveIndex ==
    ASSUME StoreInvariant, NEW i \in Id, Remove(i)
    PROVE  /\ StoreInvariant'
           /\ NamesUnique /\ AllFound => AllFound'
<1>1. entries' \in Contents /\ entries' = [entries EXCEPT ![i] = Absent]
  BY DEF StoreInvariant, TypeOK, Remove, Contents
<1>2. entries[i] \in Row /\ entries[i] # Absent
  BY DEF StoreInvariant, TypeOK, Remove, Contents
<1>3. /\ index' = Unindexed(index, KeyOf(i, entries[i]))
      /\ index' \in SUBSET IndexEntry /\ IsFunctional(index')
  BY <1>2, KeyType, UnindexedType DEF StoreInvariant, TypeOK, Remove
<1>4. TypeOK'
  BY <1>1, <1>3 DEF StoreInvariant, TypeOK, Remove, NextVersion
<1>5. LookupsNeverLie'
  <2> SUFFICES ASSUME NEW x \in index'
               PROVE  entries'[x.id] # Absent /\ entries'[x.id].name = x.name
    BY DEF LookupsNeverLie
  <2>1. x \in index /\ ~ SameKey(x, KeyOf(i, entries[i])) /\ x.id \in Id
    BY <1>3, Membership DEF IndexEntry, StoreInvariant, TypeOK
  <2>2. entries[x.id] # Absent /\ entries[x.id].name = x.name
    BY <2>1 DEF StoreInvariant, LookupsNeverLie
  <2>3. x.id # i
    BY <1>2, <2>1, <2>2, KeyType DEF SameKey
  <2>4. QED
    BY <1>1, <2>1, <2>2, <2>3 DEF StoreInvariant, TypeOK, Contents
<1>6. ASSUME NamesUnique, AllFound PROVE AllFound'
  <2> SUFFICES ASSUME NEW j \in Stored(entries') PROVE KeyOf(j, entries'[j]) \in index'
    BY DEF AllFound, Keys
  <2>1. j # i /\ j \in Stored(entries) /\ entries'[j] = entries[j]
    BY <1>1 DEF StoreInvariant, TypeOK, Contents, Stored
  <2>2. KeyOf(j, entries[j]) \in index
    BY <1>6, <2>1 DEF AllFound, Keys
  <2>3. ~ SameKey(KeyOf(j, entries[j]), KeyOf(i, entries[i]))
    BY <1>2, <1>6, <2>1 DEF NamesUnique, Stored
  <2>4. QED
    BY <1>3, <2>1, <2>2, <2>3, Membership
<1>7. QED
  BY <1>4, <1>5, <1>6 DEF StoreInvariant

\* Going back finds every row again whose name is its own.
LEMMA GoBackIndex ==
    ASSUME StoreInvariant, NEW s \in Snapshot, GoBackTo(s)
    PROVE  /\ entries' \in Contents
           /\ index' \in SUBSET IndexEntry /\ IsFunctional(index')
           /\ LookupsNeverLie'
           /\ NamesUnique' => AllFound'
<1>1. s.entries \in Contents /\ entries' = s.entries
  BY DEF Snapshot, GoBackTo
<1>2. /\ index' \subseteq Keys(entries') /\ IsFunctional(index')
      /\ \A k \in Keys(entries') : \E x \in index' : SameKey(x, k)
  BY <1>1 DEF GoBackTo, RebuiltIndices
<1>3. index' \in SUBSET IndexEntry /\ LookupsNeverLie'
  BY <1>1, <1>2, KeysType DEF LookupsNeverLie
<1>4. ASSUME NamesUnique' PROVE AllFound'
  <2> SUFFICES ASSUME NEW j \in Stored(entries') PROVE KeyOf(j, entries'[j]) \in index'
    BY DEF AllFound, Keys
  <2>1. PICK x \in index' : SameKey(x, KeyOf(j, entries'[j]))
    BY <1>2 DEF Keys
  <2>2. PICK k \in Stored(entries') : x = KeyOf(k, entries'[k])
    BY <1>2 DEF Keys
  <2>3. k = j
    BY <1>4, <2>1, <2>2 DEF NamesUnique
  <2>4. QED
    BY <2>2, <2>3
<1>5. QED
  BY <1>1, <1>2, <1>3, <1>4

\* An import goes back and keeps what was there before.
LEMMA ImportType ==
    ASSUME StoreInvariant, ImportConfig
    PROVE  /\ \E s \in Snapshot : s \in export /\ GoBackTo(s)
           /\ snapshots' = WithSnapshot(Current)
           /\ snapshots' \in Seq(Snapshot) /\ Len(snapshots') <= SnapshotLimit
           /\ Current \in Snapshot
<1>1. Current \in Snapshot
  BY CurrentType DEF StoreInvariant
<1>2. snapshots' = WithSnapshot(Current)
  BY DEF ImportConfig
<1>3. snapshots' \in Seq(Snapshot) /\ Len(snapshots') <= SnapshotLimit
  BY <1>1, <1>2, WithSnapshotType DEF StoreInvariant
<1>4. QED
  BY <1>1, <1>2, <1>3 DEF ImportConfig, StoreInvariant, TypeOK

\* Both ways back keep the store in order.
LEMMA GoBackStep ==
    ASSUME StoreInvariant, GoBack
    PROVE  StoreInvariant' /\ (NamesUnique' => AllFound') /\ rolledBack' = TRUE
<1>1. PICK s \in Snapshot :
        GoBackTo(s) /\ snapshots' \in Seq(Snapshot) /\ Len(snapshots') <= SnapshotLimit
  <2>1. CASE ImportConfig
    BY <2>1, ImportType
  <2>2. ASSUME NEW v \in 1 .. MaxVersion, RestoreFromSnapshot(v)
        PROVE  \E s \in Snapshot :
                 GoBackTo(s) /\ snapshots' \in Seq(Snapshot) /\ Len(snapshots') <= SnapshotLimit
    BY <2>2, FoundType DEF RestoreFromSnapshot, StoreInvariant, TypeOK
  <2>3. QED
    BY <2>1, <2>2 DEF GoBack
<1>2. /\ entries' \in Contents
      /\ index' \in SUBSET IndexEntry /\ IsFunctional(index')
      /\ LookupsNeverLie'
      /\ NamesUnique' => AllFound'
  BY <1>1, GoBackIndex
<1>3. version' \in Nat /\ export' \in SUBSET Snapshot /\ rolledBack' = TRUE
  BY <1>1 DEF GoBackTo, Snapshot, StoreInvariant, TypeOK
<1>4. TypeOK'
  BY <1>1, <1>2, <1>3 DEF TypeOK
<1>5. QED
  BY <1>2, <1>3, <1>4 DEF StoreInvariant

\* Every step keeps the store in order, and complete lookups complete.
LEMMA StoreStep ==
    ASSUME StoreInvariant, [Next]_vars
    PROVE  /\ StoreInvariant'
           /\ (NamesUnique /\ AllFound) \/ GoBack => (NamesUnique' => AllFound')
<1>1. ASSUME NEW i \in Id, NEW row \in Row, Upsert(i, row)
      PROVE  StoreInvariant' /\ (NamesUnique /\ AllFound => (NamesUnique' => AllFound'))
  BY <1>1, UpsertIndex
<1>2. ASSUME NEW i \in Id, Remove(i)
      PROVE  StoreInvariant' /\ (NamesUnique /\ AllFound => (NamesUnique' => AllFound'))
  BY <1>2, RemoveIndex
<1>3. ASSUME CreateSnapshot
      PROVE  StoreInvariant' /\ (NamesUnique /\ AllFound => (NamesUnique' => AllFound'))
  <2>1. Current \in Snapshot
    BY CurrentType DEF StoreInvariant
  <2>2. snapshots' \in Seq(Snapshot) /\ Len(snapshots') <= SnapshotLimit
    BY <1>3, <2>1, WithSnapshotType DEF CreateSnapshot, StoreInvariant
  <2>3. TypeOK'
    BY <1>3, <2>2 DEF CreateSnapshot, StoreInvariant, TypeOK
  <2>4. LookupsNeverLie' /\ (AllFound => AllFound')
    BY <1>3 DEF CreateSnapshot, StoreInvariant, LookupsNeverLie, AllFound, Keys, Stored
  <2>5. QED
    BY <2>3, <2>4 DEF StoreInvariant
<1>4. ASSUME ExportConfig
      PROVE  StoreInvariant' /\ (NamesUnique /\ AllFound => (NamesUnique' => AllFound'))
  <2>1. Current \in Snapshot
    BY CurrentType DEF StoreInvariant
  <2>2. TypeOK'
    BY <1>4, <2>1 DEF ExportConfig, StoreInvariant, TypeOK
  <2>3. LookupsNeverLie' /\ (AllFound => AllFound')
    BY <1>4 DEF ExportConfig, StoreInvariant, LookupsNeverLie, AllFound, Keys, Stored
  <2>4. QED
    BY <2>2, <2>3 DEF StoreInvariant
<1>5. CASE UNCHANGED vars
  <2>1. StoreInvariant' /\ (AllFound => AllFound')
    BY <1>5 DEF vars, StoreInvariant, TypeOK, LookupsNeverLie, AllFound, Keys, Stored
  <2>2. QED
    BY <1>5, <2>1, GoBackStep
<1>6. CASE GoBack
  BY <1>6, GoBackStep
<1>7. QED
  BY <1>1, <1>2, <1>3, <1>4, <1>5, <1>6, GoBackStep DEF Next

-----------------------------------------------------------------------------
(* Versions *)

Kept == {snapshots[n] : n \in DOMAIN snapshots} \cup export \cup {Current}

\* What is kept has a version of at most the store's, and one per contents.
VersionInvariant ==
    ~ rolledBack =>
        \A s \in Kept :
            /\ s.version <= version
            /\ \A t \in Kept : s.version = t.version => s.entries = t.entries

\* Versions are unambiguous as long as only the store itself, with the
\* version it had or a new one, joins what is kept.
LEMMA VersionsGrow ==
    ASSUME StoreInvariant, VersionInvariant, rolledBack' = rolledBack,
           Kept' \subseteq Kept \cup {Current'},
           \/ version' = version + 1
           \/ version' = version /\ entries' = entries
    PROVE  VersionInvariant'
<1>1. CASE version' = version /\ entries' = entries
  <2>1. Current' \in Kept
    BY <1>1 DEF Current, Kept
  <2>2. QED
    BY <1>1, <2>1 DEF VersionInvariant
<1>2. CASE version' = version + 1
  <2>1. Current'.version = version' /\ version \in Nat
    BY DEF Current, StoreInvariant, TypeOK
  <2>2. \A s \in Kept : s.version \in Nat
    <3>1. \A n \in DOMAIN snapshots : snapshots[n] \in Snapshot
      BY DEF StoreInvariant, TypeOK
    <3>2. Kept \subseteq Snapshot
      BY <3>1, CurrentType DEF Kept, StoreInvariant, TypeOK
    <3>3. QED
      BY <3>2 DEF Snapshot
  <2>3. SUFFICES ASSUME ~ rolledBack, NEW s \in Kept', NEW t \in Kept'
                 PROVE  s.version <= version' /\ (s.version = t.version => s.entries = t.entries)
    BY DEF VersionInvariant
  <2>4. \A x \in Kept : x.version <= version /\ x.version < version'
    BY <1>2, <2>1, <2>2, <2>3 DEF VersionInvariant
  <2>5. s.version <= version'
    BY <1>2, <2>1, <2>2, <2>4
  <2>6. ASSUME s.version = t.version PROVE s.entries = t.entries
    <3>1. CASE s \in Kept /\ t \in Kept
      BY <2>3, <2>6, <3>1 DEF VersionInvariant
    <3>2. CASE s \notin Kept /\ t \notin Kept
      BY <3>2
    <3>3. CASE s \in Kept /\ t \notin Kept
      BY <2>1, <2>2, <2>4, <2>6, <3>3
    <3>4. CASE s \notin Kept /\ t \in Kept
      BY <2>1, <2>2, <2>4, <2>6, <3>4
    <3>5. QED
      BY <3>1, <3>2, <3>3, <3>4
  <2>7. QED
    BY <2>5, <2>6
<1>3. QED
  BY <1>1, <1>2

\* Every step keeps versions unambiguous, or goes back.
LEMMA VersionStep ==
    ASSUME StoreInvariant, VersionInvariant, [Next]_vars
    PROVE  VersionInvariant'
<1>1. ASSUME NEW i \in Id, \/ Remove(i)
                           \/ \E row \in Row : Upsert(i, row)
      PROVE  VersionInvariant'
  <2>1. /\ version' = version + 1 /\ rolledBack' = rolledBack
        /\ snapshots' = snapshots /\ export' = export
    BY <1>1 DEF Remove, Upsert, NextVersion
  <2>2. Kept' \subseteq Kept \cup {Current'}
    BY <2>1 DEF Kept
  <2>3. QED
    BY <2>1, <2>2, VersionsGrow
<1>2. CASE CreateSnapshot
  <2>1. /\ version' = version /\ entries' = entries /\ rolledBack' = rolledBack
        /\ export' = export /\ snapshots' = WithSnapshot(Current)
    BY <1>2 DEF CreateSnapshot
  <2>2. Current' = Current
    BY <2>1 DEF Current
  <2>3. \A n \in DOMAIN snapshots' :
          snapshots'[n] = Current \/ \E m \in DOMAIN snapshots : snapshots'[n] = snapshots[m]
    BY <2>1, WithSnapshotType, CurrentType DEF StoreInvariant
  <2>4. Kept' \subseteq Kept \cup {Current'}
    BY <2>1, <2>2, <2>3 DEF Kept
  <2>5. QED
    BY <2>1, <2>4, VersionsGrow
<1>3. CASE ExportConfig
  <2>1. /\ version' = version /\ entries' = entries /\ rolledBack' = rolledBack
        /\ snapshots' = snapshots /\ export' = {Current}
    BY <1>3 DEF ExportConfig
  <2>2. Kept' \subseteq Kept \cup {Current'}
    BY <2>1 DEF Kept, Current
  <2>3. QED
    BY <2>1, <2>2, VersionsGrow
<1>4. CASE GoBack
  BY <1>4, GoBackStep DEF VersionInvariant
<1>5. CASE UNCHANGED vars
  BY <1>5 DEF vars, VersionInvariant, Kept, Current
<1>6. QED
  BY <1>1, <1>2, <1>3, <1>4, <1>5 DEF Next

\* A first import finds the configuration it replaces under its version.
LEMMA ImportStep ==
    ASSUME StoreInvariant, VersionInvariant, ImportConfig, ~ rolledBack
    PROVE  \E v \in {version} : \E s \in Found(v)' : s.entries = entries
<1> DEFINE t == WithSnapshot(Current)
           with == {n \in DOMAIN t : t[n].version = version}
<1>1. snapshots' = t /\ Current \in Snapshot /\ t \in Seq(Snapshot)
      /\ Len(t) \in 1 .. SnapshotLimit /\ t[Len(t)] = Current
      /\ \A n \in DOMAIN t :
            t[n] = Current \/ \E m \in DOMAIN snapshots : t[n] = snapshots[m]
  BY ImportType, WithSnapshotType DEF StoreInvariant
<1>2. DOMAIN t = 1 .. Len(t) /\ Len(t) \in Nat \ {0}
  BY <1>1, LocalConfigStoreAssumption
<1>3. Current.version = version /\ Current.entries = entries
  BY DEF Current
<1> HIDE DEF t
<1>4. Len(t) \in with /\ with \in SUBSET Nat
  BY <1>1, <1>2, <1>3
<1>5. PICK n \in with : \A m \in with : n <= m
  BY <1>4, LeastExists
<1>6. \A k \in DOMAIN t : t[k] \in Kept
  BY <1>1 DEF Kept
<1>7. t[n].entries = entries
  BY <1>3, <1>5, <1>6 DEF VersionInvariant, Kept
<1>8. \A v : v = version => t[n] \in Found(v)'
  <2> SUFFICES ASSUME NEW v, v = version PROVE t[n] \in Found(v)'
    OBVIOUS
  <2>1. n \in DOMAIN t /\ t[n].version = v /\ \A m \in DOMAIN t : t[m].version = v => n <= m
    BY <1>5
  <2>2. QED
    BY <1>1, <2>1 DEF Found
<1>9. QED
  BY <1>7, <1>8

-----------------------------------------------------------------------------
(* Theorems *)

\* The store is always in order, and versions are unambiguous until it goes
\* back.
THEOREM LocalStoreInvariant == Spec => [](StoreInvariant /\ VersionInvariant)
<1>1. Init => StoreInvariant /\ VersionInvariant
  <2> SUFFICES ASSUME Init PROVE StoreInvariant /\ VersionInvariant
    OBVIOUS
  <2>1. StoreInvariant
    BY StoreInit
  <2>2. Kept = {Current} /\ Current.version = version /\ version \in Nat
    BY <2>1 DEF Init, Kept, Current, StoreInvariant, TypeOK
  <2>3. QED
    BY <2>1, <2>2 DEF VersionInvariant
<1>2. StoreInvariant /\ VersionInvariant /\ [Next]_vars
        => StoreInvariant' /\ VersionInvariant'
  BY StoreStep, VersionStep
<1>3. QED
  BY <1>1, <1>2, PTL DEF Spec

\* Every operation of the store keeps the types, the limit on snapshots and
\* at most one id per name.
THEOREM LocalStoreTypeCorrect == Spec => []TypeOK
<1>1. StoreInvariant => TypeOK
  BY DEF StoreInvariant
<1>2. QED
  BY <1>1, LocalStoreInvariant, PTL

\* A lookup by name never returns a missing row or one of another name,
\* whatever order the events of two rows arrive in.
THEOREM LookupsAreTrue == Spec => []LookupsNeverLie
<1>1. StoreInvariant => LookupsNeverLie
  BY DEF StoreInvariant
<1>2. QED
  BY <1>1, LocalStoreInvariant, PTL

\* Lookups stay complete while names are unique, and going back completes
\* them.
THEOREM LookupsAreComplete == Spec => LookupsStayComplete
<1>1. StoreInvariant /\ [Next]_vars =>
        [(NamesUnique /\ AllFound) \/ GoBack => (NamesUnique' => AllFound')]_vars
  BY StoreStep
<1>2. QED
  BY <1>1, LocalStoreInvariant, PTL DEF Spec, LookupsStayComplete

\* Until the store goes back a version stands for one configuration.
THEOREM VersionsAreUnambiguous == Spec => []VersionNamesContents
<1>1. VersionInvariant => VersionNamesContents
  BY DEF VersionInvariant, VersionNamesContents, Kept
<1>2. QED
  BY <1>1, LocalStoreInvariant, PTL

\* What the first import replaced is found under the version it had.
THEOREM FirstImportCanBeUndone == Spec => ImportCanBeUndone
<1>1. StoreInvariant /\ VersionInvariant /\ [Next]_vars =>
        [ImportConfig /\ ~ rolledBack
           => \E v \in {version} : \E s \in Found(v)' : s.entries = entries]_vars
  BY ImportStep
<1>2. QED
  BY <1>1, LocalStoreInvariant, PTL DEF Spec, ImportCanBeUndone

=============================================================================
