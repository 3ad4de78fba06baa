--------------------------- MODULE ShfTableProofs ---------------------------
(***************************************************************************)
(* What one window of a SharedHashFile guarantees for any number of        *)
(* processes, keys, tables and refs per row, as long as at most one of the *)
(* processes reads: it may shrink a table while it reads, and two that do  *)
(* so at the same time lose keys (NothingMissed in run shf_readers).       *)
(*                                                                         *)
(* First the inductive invariant, what it says of tables, files and        *)
(* mappings and of what is stored, and the steps that write one table with *)
(* the lock for writing: a put that finds room, and a delete; then the     *)
(* steps of the reader, which may replace the file of a table by a smaller *)
(* one in several steps; then parting, and the theorems.                   *)
(***************************************************************************)
EXTENDS ShfTable, FiniteSetTheorems, TLAPS

\* At most one process gets keys; any number put and delete them.
OneGetter == \A p, q \in Getters : p = q

\* Where a reader has the lock.
Working == {"search", "unlink", "create", "copy"}

\* Table tab may have the contents t when the indirection is tb.
Fits(tb, t, tab) ==
  /\ t \in Tables /\ t.used = DATA * Cardinality(Refs(t))
  /\ \A s \in Refs(t) : /\ tb[t.ref[s].tab] = tab
                        /\ t.ref[s].tab = Tab2Of[t.ref[s].key]
                        /\ s[1] = RowOf[t.ref[s].key]

\* The tables that p has mapped.
MappedBy(p) == {t \in Tabs : tab_mmap[p][t] # NULL}

\* The tables in use are redirected to; each has a file of its own, but for the
\* one that a reader is about to create.
WindowInv ==
  /\ \A t \in Tabs : tabs[t] < tabs_used
  /\ tabs_used > TABS => writer # NULL
  /\ \A t \in Tabs : t >= tabs_used => name[t] = NULL
  /\ \A t \in Tabs : name[t] # NULL => Fits(tabs, file[name[t]], t)
  /\ \A t, u \in Tabs : name[t] # NULL /\ name[t] = name[u] => t = u
  /\ \A t \in Tabs : t < tabs_used /\ name[t] = NULL =>
       \E p \in Procs : pc[p] = "create" /\ TabFor(call[p]) = t

\* Nobody has mapped a file of a table, but the named one and the one that is
\* copied from.
MapInv ==
  \A q \in Procs, t \in Tabs :
    /\ t >= tabs_used => tab_mmap[q][t] = NULL
    /\ \/ tab_mmap[q][t] \in {NULL, REPLACED, name[t]}
       \/ \E p \in Procs : /\ old[p] # NULL /\ TabFor(call[p]) = t
                           /\ tab_mmap[q][t] = old[p]

\* What holds where a process is.
ProcInv(p) ==
  /\ p \in readers <=> pc[p] \in Working
  /\ pc[p] \in Working =>
       p \in Getters /\ writer = NULL /\ call[p] \in Wanted({"find", "copy"})
  /\ pc[p] = "put" => call[p] \in Puts
  /\ pc[p] = "exited" => tabs_used > TABS /\ writer # NULL
  /\ old[p] # NULL <=> pc[p] \in {"create", "copy"}
  /\ pc[p] \in {"search", "unlink", "copy"} =>
       /\ name[TabFor(call[p])] # NULL
       /\ tab_mmap[p][TabFor(call[p])] = name[TabFor(call[p])]
  /\ pc[p] = "create" =>
       name[TabFor(call[p])] = NULL /\ tab_mmap[p][TabFor(call[p])] = NULL
  /\ old[p] # NULL => /\ Fits(tabs, file[old[p]], TabFor(call[p]))
                      /\ \A t \in Tabs : name[t] # old[p]
  /\ pc[p] = "copy" =>
       Refs(file[old[p]]) \cap Refs(file[name[TabFor(call[p])]]) = {}
  /\ count_mmap[p] =
       1 + Cardinality(MappedBy(p)) + (IF old[p] # NULL THEN 1 ELSE 0)

IInv == TypeOK /\ WindowInv /\ MapInv /\ (\A p \in Procs : ProcInv(p)) /\ ~missed

-----------------------------------------------------------------------------
(***************************************************************************)
(* Numbers and files.                                                      *)
(***************************************************************************)
\* A set of numbers that is not empty has a least one: among the intervals
\* 0..x that end in the set, one contains no other.
LEMMA Least ==
  ASSUME NEW T \in SUBSET Nat, T # {}
  PROVE  \E x \in T : \A y \in T : x <= y
<1> DEFINE F == {0..x : x \in T}
           R == StrictSubsetOrdering(Nat)
<1>1. IsWellFoundedOn(R, FiniteSubsetsOf(Nat))
  BY FS_StrictSubsetOrderingWellFounded, Zenon
<1>2. F \subseteq FiniteSubsetsOf(Nat)
  <2>1. ASSUME NEW x \in T PROVE 0..x \in FiniteSubsetsOf(Nat)
    BY FS_Interval DEF FiniteSubsetsOf
  <2> QED BY <2>1, Zenon
<1>3. F # {}
  BY Zenon
<1> HIDE DEF F, R
<1>4. PICK m \in F : \A n \in F : ~(<<n, m>> \in R)
  BY <1>1, <1>2, <1>3, WFMin, Zenon
<1>5. PICK x \in T : m = 0..x
  BY Zenon DEF F
<1>6. ASSUME NEW y \in T, y < x PROVE FALSE
  <2>1. 0..y \in F /\ ~(<<0..y, 0..x>> \in R)
    BY <1>4, <1>5, Zenon DEF F
  <2>2. 0..y \subseteq 0..x /\ 0..y # 0..x
    <3>1. x \in 0..x /\ x \notin 0..y
      BY <1>6
    <3> QED BY <3>1, <1>6
  <2> QED BY <2>1, <2>2 DEF R, StrictSubsetOrdering
<1> QED BY <1>6

\* The least of a set of numbers is one of them.
LEMMA MinLemma ==
  ASSUME NEW T \in SUBSET Nat, T # {}
  PROVE  Min(T) \in T
BY Least, Zenon DEF Min

\* What the constants are.
LEMMA Constants ==
  /\ TABS \in Nat /\ TABS >= 1 /\ REFS \in Nat /\ Inodes \subseteq Nat
  /\ Tabs \subseteq Nat /\ 0 \in Tabs /\ IsFiniteSet(Tabs) /\ Cardinality(Tabs) = TABS
  /\ IsFiniteSet(Slots) /\ \A k \in Keys : Tab2Of[k] \in Tabs /\ RowOf[k] \in Rows
<1>1. /\ TABS \in Nat /\ TABS >= 1 /\ REFS \in Nat /\ Inodes \subseteq Nat
      /\ Tab2Of \in [Keys -> Tabs]
  BY SizesAssumption DEF Tabs
<1>2. Tabs \subseteq Nat /\ 0 \in Tabs /\ IsFiniteSet(Tabs) /\ Cardinality(Tabs) = TABS
  BY <1>1, FS_Interval DEF Tabs
<1>3. IsFiniteSet(1..REFS)
  BY <1>1, FS_Interval
<1>4. IsFiniteSet(Slots)
  BY <1>3, BoundsAssumption, FS_Product, Zenon DEF Slots
<1> QED BY <1>1, <1>2, <1>4, Zenon DEF Rows

-----------------------------------------------------------------------------
(***************************************************************************)
(* Tables.                                                                 *)
(***************************************************************************)
\* A table has finitely many refs.
LEMMA RefsFinite ==
  ASSUME NEW t
  PROVE  /\ Refs(t) \subseteq Slots /\ IsFiniteSet(Refs(t))
         /\ Cardinality(Refs(t)) \in Nat
         /\ \A slots \in SUBSET Refs(t) : IsFiniteSet(slots) /\ Cardinality(slots) \in Nat
<1>1. Refs(t) \subseteq Slots
  BY Zenon DEF Refs
<1> QED BY <1>1, Constants, FS_Subset, FS_CardinalityType, Zenon

\* The table of a new file is empty.
LEMMA NewTableLemma ==
  /\ NewTable \in Tables /\ Refs(NewTable) = {}
  /\ NewTable.used = DATA * Cardinality(Refs(NewTable))
<1>1. NewTable \in Tables /\ NewTable.used = 0
  BY Zenon DEF NewTable, Tables
<1>2. Refs(NewTable) = {}
  BY Zenon DEF NewTable, Refs
<1> QED BY <1>1, <1>2, FS_EmptySet DEF DATA

\* Storing adds a ref, deleting takes one away.
LEMMA StoredLemma ==
  ASSUME NEW t \in Tables, NEW s \in Slots, NEW e \in Entries,
         NEW n, n = Stored(t, s, e)
  PROVE  /\ n \in Tables /\ n.used = t.used + DATA /\ n.free = t.free
         /\ Refs(n) = Refs(t) \cup {s} /\ n.ref = [t.ref EXCEPT ![s] = e]
<1>1. t = [ref |-> t.ref, used |-> t.used, free |-> t.free]
      /\ t.ref \in [Slots -> Entries \cup {NULL}] /\ t.used \in Nat /\ t.free \in Nat
  BY Zenon DEF Tables
<1>2. n = [ref |-> [t.ref EXCEPT ![s] = e], used |-> t.used + DATA, free |-> t.free]
  BY <1>1, Zenon DEF Stored
<1>3. n \in Tables
  BY <1>1, <1>2 DEF Tables, DATA
<1>4. n.ref = [t.ref EXCEPT ![s] = e] /\ n.used = t.used + DATA /\ n.free = t.free
  BY <1>2
<1>5. Refs(n) = Refs(t) \cup {s}
  BY <1>1, <1>4, NullsAssumption, Zenon DEF Refs
<1> QED BY <1>3, <1>4, <1>5, Zenon

\* What shf_del_key_internal leaves: one ref and its data less.
LEMMA DeletedLemma ==
  ASSUME NEW t \in Tables, NEW s \in Refs(t), t.used >= DATA,
         NEW n, n = Deleted(t, s)
  PROVE  /\ n \in Tables /\ n.used = t.used - DATA
         /\ Refs(n) = Refs(t) \ {s} /\ n.ref = [t.ref EXCEPT ![s] = NULL]
<1>1. /\ t = [ref |-> t.ref, used |-> t.used, free |-> t.free]
      /\ t.ref \in [Slots -> Entries \cup {NULL}] /\ t.used \in Nat /\ t.free \in Nat
      /\ s \in Slots
  BY Zenon DEF Tables, Refs
<1>2. n = [ref |-> [t.ref EXCEPT ![s] = NULL], used |-> t.used - DATA,
           free |-> t.free + DATA]
  BY <1>1, Zenon DEF Deleted
<1>3. n \in Tables
  BY <1>1, <1>2 DEF Tables, DATA
<1>4. n.ref = [t.ref EXCEPT ![s] = NULL] /\ n.used = t.used - DATA
  BY <1>2
<1>5. Refs(n) = Refs(t) \ {s}
  BY <1>1, <1>4, Zenon DEF Refs
<1> QED BY <1>3, <1>4, <1>5, Zenon

\* A copy has the refs that were copied.
LEMMA CopiedLemma ==
  ASSUME NEW t \in Tables, NEW slots \in SUBSET Refs(t), NEW n, n = Copied(t, slots)
  PROVE  /\ n \in Tables /\ n.used = DATA * Cardinality(Refs(n))
         /\ Refs(n) = slots /\ \A s \in slots : n.ref[s] = t.ref[s]
<1>1. /\ t.ref \in [Slots -> Entries \cup {NULL}] /\ slots \subseteq Slots
      /\ Cardinality(slots) \in Nat
  BY RefsFinite, Zenon DEF Tables
<1>2. n = [ref  |-> [s \in Slots |-> IF s \in slots THEN t.ref[s] ELSE NULL],
           used |-> DATA * Cardinality(slots), free |-> 0]
  BY Zenon DEF Copied, NewTable
<1>3. n \in Tables
  BY <1>1, <1>2 DEF Tables, DATA
<1>4. /\ n.used = DATA * Cardinality(slots)
      /\ n.ref = [s \in Slots |-> IF s \in slots THEN t.ref[s] ELSE NULL]
  BY <1>2
<1>5. Refs(n) = slots
  BY <1>1, <1>4, Zenon DEF Refs
<1> QED BY <1>1, <1>3, <1>4, <1>5, Zenon

\* A ref is an entry.
LEMMA RefsLemma ==
  ASSUME NEW t \in Tables, NEW s \in Refs(t)
  PROVE  s \in Slots /\ t.ref[s] \in Entries /\ t.ref[s].tab \in Tabs
<1>1. s \in Slots /\ t.ref[s] # NULL /\ t.ref \in [Slots -> Entries \cup {NULL}]
  BY Zenon DEF Tables, Refs
<1>2. t.ref[s] \in Entries
  BY <1>1, Zenon
<1> QED BY <1>1, <1>2, Zenon DEF Entries

\* A table keeps fitting its place when a key of that place is stored, when a
\* key is deleted, and when those of its refs that fit another are copied there.
LEMMA FitsNew ==
  ASSUME NEW tb, NEW tab
  PROVE  Fits(tb, NewTable, tab)
BY NewTableLemma, Zenon DEF Fits

\* A redirection of other tabs leaves the contents of a table in place.
LEMMA FitsAgain ==
  ASSUME NEW tb, NEW tab, NEW t, Fits(tb, t, tab),
         NEW tb2, \A u \in Tabs : tb[u] = tab => tb2[u] = tab
  PROVE  Fits(tb2, t, tab)
<1>1. t \in Tables /\ \A s \in Refs(t) : tb[t.ref[s].tab] = tab
  BY Zenon DEF Fits
<1>2. \A s \in Refs(t) : tb2[t.ref[s].tab] = tab
  BY <1>1, RefsLemma, Zenon
<1> QED BY <1>2, Zenon DEF Fits

\* A ref stored in its row and table fits there.
LEMMA FitsStored ==
  ASSUME NEW tb, NEW tab, NEW t, Fits(tb, t, tab),
         NEW s \in Slots \ Refs(t), NEW e \in Entries, tb[e.tab] = tab,
         e.tab = Tab2Of[e.key], s[1] = RowOf[e.key],
         NEW n, n = Stored(t, s, e)
  PROVE  Fits(tb, n, tab)
<1>1. /\ n \in Tables /\ n.used = t.used + DATA /\ Refs(n) = Refs(t) \cup {s}
      /\ n.ref = [t.ref EXCEPT ![s] = e] /\ t.ref \in [Slots -> Entries \cup {NULL}]
  BY StoredLemma DEF Fits, Tables
<1>2. Cardinality(Refs(n)) = Cardinality(Refs(t)) + 1
  BY <1>1, RefsFinite, FS_AddElement, Zenon
<1>3. n.used = DATA * Cardinality(Refs(n))
  BY <1>1, <1>2, RefsFinite DEF Fits, DATA
<1>4. \A r \in Refs(n) : n.ref[r] = IF r = s THEN e ELSE t.ref[r]
  BY <1>1, RefsFinite, Zenon
<1> QED BY <1>1, <1>3, <1>4 DEF Fits

\* What is left after a delete still fits.
LEMMA FitsDeleted ==
  ASSUME NEW tb, NEW tab, NEW t, Fits(tb, t, tab), NEW s \in Refs(t),
         NEW n, n = Deleted(t, s)
  PROVE  /\ Fits(tb, n, tab) /\ Refs(n) = Refs(t) \ {s}
         /\ n.ref = [t.ref EXCEPT ![s] = NULL]
<1>1. /\ Cardinality(Refs(t)) \in Nat
      /\ Cardinality(Refs(t) \ {s}) = Cardinality(Refs(t)) - 1
      /\ Cardinality(Refs(t) \ {s}) \in Nat
  BY RefsFinite, FS_RemoveElement, Zenon
<1>2. t \in Tables /\ t.used = DATA * Cardinality(Refs(t))
  BY Zenon DEF Fits
<1>3. t.used >= DATA
  BY <1>1, <1>2 DEF DATA
<1>4. /\ n \in Tables /\ n.used = t.used - DATA /\ Refs(n) = Refs(t) \ {s}
      /\ n.ref = [t.ref EXCEPT ![s] = NULL] /\ t.ref \in [Slots -> Entries \cup {NULL}]
  BY <1>2, <1>3, DeletedLemma, Zenon DEF Tables
<1>5. n.used = DATA * Cardinality(Refs(n))
  BY <1>1, <1>2, <1>4 DEF DATA
<1>6. \A r \in Refs(n) : n.ref[r] = t.ref[r]
  BY <1>4, RefsFinite, Zenon
<1> QED BY <1>4, <1>5, <1>6 DEF Fits

\* A part of the refs fits where the new redirection sends them.
LEMMA FitsCopied ==
  ASSUME NEW tb, NEW tab, NEW t, Fits(tb, t, tab), NEW slots \in SUBSET Refs(t),
         NEW tb2, NEW tab2, \A s \in slots : tb2[t.ref[s].tab] = tab2,
         NEW n, n = Copied(t, slots)
  PROVE  Fits(tb2, n, tab2)
<1>1. /\ n \in Tables /\ n.used = DATA * Cardinality(Refs(n))
      /\ Refs(n) = slots /\ \A s \in slots : n.ref[s] = t.ref[s]
  BY CopiedLemma, Zenon DEF Fits
<1> QED BY <1>1 DEF Fits

\* There is a file for a table to be copied to, and for two when not all tables
\* have one: who is mapped is named or copied from.
LEMMA FreeFiles ==
  ASSUME TypeOK, MapInv,
         NEW used \in SUBSET Tabs, \A t \in Tabs : name[t] # NULL => t \in used,
         NEW from \in SUBSET Inodes, \A p \in Procs : old[p] # NULL => old[p] \in from,
         Cardinality(used) + Cardinality(from) <= TABS
  PROVE  /\ FreeInodes \subseteq Inodes /\ NewInode \in FreeInodes
         /\ Cardinality(used) + Cardinality(from) < TABS =>
              Min(FreeInodes \ {NewInode}) \in FreeInodes \ {NewInode}
<1> DEFINE S == {t \in Tabs : name[t] # NULL}
           T == {name[t] : t \in S}
           f == [t \in S |-> name[t]]
           Taken == T \cup from
<1>1. FreeInodes \subseteq Inodes /\ FreeInodes \subseteq Nat
  BY Constants, Zenon DEF FreeInodes
<1>2. S \subseteq used /\ T \subseteq Inodes /\ f \in Surjection(S, T)
  BY DEF TypeOK, Surjection
<1>3. /\ IsFiniteSet(used) /\ Cardinality(used) \in Nat
      /\ IsFiniteSet(S) /\ Cardinality(S) \in Nat /\ Cardinality(S) <= Cardinality(used)
  BY <1>2, Constants, FS_Subset, FS_CardinalityType, Zenon
<1>4. /\ IsFiniteSet(from) /\ Cardinality(from) \in Nat
      /\ IsFiniteSet(T) /\ Cardinality(T) \in Nat /\ IsFiniteSet(Inodes)
      /\ Cardinality(Inodes) \in Nat
  BY <1>2, BoundsAssumption, FS_Subset, FS_CardinalityType, Zenon
<1> HIDE DEF S, T, f, Taken
<1>5. Cardinality(T) <= Cardinality(S)
  BY <1>2, <1>3, FS_Surjection, Zenon
<1>6. /\ Taken \subseteq Inodes /\ IsFiniteSet(Taken) /\ Cardinality(Taken) \in Nat
      /\ Cardinality(Taken) <= Cardinality(T) + Cardinality(from)
  <2>1. Taken \subseteq Inodes
    BY <1>2, Zenon DEF Taken
  <2>2. IsFiniteSet(T \cap from) /\ Cardinality(T \cap from) \in Nat
    BY <1>4, FS_Intersection, FS_CardinalityType, Zenon
  <2>3. /\ IsFiniteSet(Taken)
        /\ Cardinality(Taken)
             = Cardinality(T) + Cardinality(from) - Cardinality(T \cap from)
    BY <1>4, FS_Union, Zenon DEF Taken
  <2> QED BY <2>1, <2>2, <2>3, <1>4, FS_CardinalityType
<1>7. Inodes \cap Taken = Taken
  BY <1>6, Zenon
<1>8. /\ IsFiniteSet(Inodes \ Taken) /\ Cardinality(Inodes \ Taken) \in Nat
      /\ Cardinality(Inodes \ Taken) = Cardinality(Inodes) - Cardinality(Taken)
  <2>1. Cardinality(Inodes \ Taken) = Cardinality(Inodes) - Cardinality(Inodes \cap Taken)
    BY <1>4, FS_Difference, Zenon
  <2>2. IsFiniteSet(Inodes \ Taken)
    BY <1>4, FS_Difference, Zenon
  <2> QED BY <2>1, <2>2, <1>7, FS_CardinalityType, Zenon
<1>9. Inodes \ Taken \subseteq FreeInodes
  <2> SUFFICES ASSUME NEW i \in Inodes \ Taken PROVE i \in FreeInodes
    BY Zenon
  <2>1. \A t \in Tabs : name[t] # i
    BY NullsAssumption, Zenon DEF S, T, Taken
  <2>2. \A p \in Procs : old[p] # i
    BY NullsAssumption, Zenon DEF Taken
  <2>3. \A p \in Procs, t \in Tabs : tab_mmap[p][t] # i
    BY <2>1, <2>2, NullsAssumption, Zenon DEF MapInv
  <2> QED BY <2>1, <2>2, <2>3, Zenon DEF FreeInodes
<1>10. Cardinality(Inodes \ Taken) >= 1
  BY <1>3, <1>4, <1>5, <1>6, <1>7, <1>8, BoundsAssumption, Constants
<1>11. FreeInodes # {}
  BY <1>8, <1>9, <1>10, FS_EmptySet
<1>12. NewInode \in FreeInodes
  BY <1>1, <1>11, MinLemma, Zenon DEF NewInode
<1>13. ASSUME Cardinality(used) + Cardinality(from) < TABS
       PROVE  Min(FreeInodes \ {NewInode}) \in FreeInodes \ {NewInode}
  <2>1. Cardinality(Inodes \ Taken) >= 2
    BY <1>13, <1>3, <1>4, <1>5, <1>6, <1>7, <1>8, BoundsAssumption, Constants
  <2>2. (Inodes \ Taken) \ {NewInode} # {}
    <3> SUFFICES ASSUME Inodes \ Taken \subseteq {NewInode} PROVE FALSE
      BY Zenon
    <3>1. Cardinality(Inodes \ Taken) <= Cardinality({NewInode})
      BY FS_Singleton, FS_Subset, Zenon
    <3>2. Cardinality({NewInode}) = 1
      BY FS_Singleton, Zenon
    <3> QED BY <3>1, <3>2, <2>1, <1>8
  <2>3. FreeInodes \ {NewInode} # {} /\ FreeInodes \ {NewInode} \in SUBSET Nat
    BY <2>2, <1>1, <1>9, Zenon
  <2> QED BY <2>3, MinLemma, Zenon
<1> QED BY <1>1, <1>12, <1>13, Zenon
-----------------------------------------------------------------------------
(***************************************************************************)
(* The state.                                                              *)
(***************************************************************************)
\* The table of a call is one that is in use.
LEMMA TabForLemma ==
  ASSUME TypeOK, WindowInv, NEW ops, NEW c \in Wanted(ops)
  PROVE  /\ TabFor(c) \in Tabs /\ TabFor(c) < tabs_used /\ c.op \in ops
         /\ c.uid = NULL => c.key \in Keys
         /\ c.uid # NULL => \E t \in Tabs, s \in Slots : c.uid = <<t, s>>
<1>1. \/ c.uid = NULL /\ c.key \in Keys /\ c.op \in ops
      \/ c.uid \in Uids /\ c.op \in ops
  BY Zenon DEF Wanted
<1>2. c.uid # NULL => \E t \in Tabs, s \in Slots : c.uid = <<t, s>>
  BY <1>1 DEF Uids
<1>3. \A t \in Tabs : tabs[t] \in Tabs /\ tabs[t] < tabs_used
  BY Zenon DEF TypeOK, WindowInv
<1>4. CASE c.uid = NULL
  BY <1>1, <1>3, <1>4, Constants, NullsAssumption, Zenon DEF TabFor, TabOf
<1>5. CASE c.uid # NULL
  <2>1. c.uid[1] \in Tabs
    BY <1>2, <1>5
  <2> QED BY <2>1, <1>1, <1>2, <1>3, <1>5, Zenon DEF TabFor
<1> QED BY <1>4, <1>5, Zenon

\* The table that a key belongs to is in use.
LEMMA TabOfLemma ==
  ASSUME TypeOK, WindowInv, NEW k \in Keys
  PROVE  TabOf(k) \in Tabs /\ TabOf(k) < tabs_used
BY Constants, Zenon DEF TabOf, TypeOK, WindowInv

\* Nobody is inside: nothing is being copied, every table in use has its file,
\* and who works on a table works on that one.
LEMMA QuietLemma ==
  ASSUME IInv, NobodyInside
  PROVE  /\ \A p \in Procs : pc[p] \in {"idle", "put"} /\ old[p] = NULL
         /\ tabs_used \in 1..TABS
         /\ \A t \in Tabs : t < tabs_used =>
              /\ name[t] \in Inodes /\ Fits(tabs, file[name[t]], t)
              /\ file[name[t]] \in Tables
         /\ \A p \in Procs, t \in Tabs : tab_mmap[p][t] \in {NULL, REPLACED, name[t]}
         /\ \A p \in Procs, t \in Tabs : Mapped(p, t) = name[t]
<1>1. \A p \in Procs : pc[p] \in {"idle", "put"} /\ old[p] = NULL
  <2> TAKE p \in Procs
  <2>1. ProcInv(p) /\ pc[p] \in {"idle", "put", "exited"} \cup Working
    BY Zenon DEF IInv, TypeOK, Working
  <2>2. pc[p] \in {"idle", "put"}
    BY <2>1, Zenon DEF ProcInv, NobodyInside
  <2>3. pc[p] \notin {"create", "copy"}
    BY <2>2, Zenon
  <2> QED BY <2>1, <2>2, <2>3, Zenon DEF ProcInv
<1>2. tabs_used \in 1..TABS
  BY Constants DEF IInv, TypeOK, WindowInv, NobodyInside
<1>3. ASSUME NEW t \in Tabs, t < tabs_used
      PROVE  /\ name[t] \in Inodes /\ Fits(tabs, file[name[t]], t)
             /\ file[name[t]] \in Tables
  <2>1. /\ name[t] \in Inodes \cup {NULL} /\ file \in [Inodes -> Tables]
        /\ name[t] # NULL => Fits(tabs, file[name[t]], t)
    BY Zenon DEF IInv, TypeOK, WindowInv
  <2>2. name[t] # NULL
    BY <1>1, <1>3, Zenon DEF IInv, WindowInv
  <2> QED BY <2>1, <2>2, Zenon
<1>4. \A p \in Procs, t \in Tabs : tab_mmap[p][t] \in {NULL, REPLACED, name[t]}
  BY <1>1, Zenon DEF IInv, MapInv
<1>5. \A p \in Procs, t \in Tabs : Mapped(p, t) = name[t]
  BY <1>4, Zenon DEF Mapped
<1> QED BY <1>1, <1>2, <1>3, <1>4, <1>5, Zenon

\* What a process that is outside the lock needs.
LEMMA CalmLemma ==
  ASSUME NEW q \in Procs, pc'[q] \in {"idle", "put"}, q \notin readers',
         old'[q] = NULL, pc'[q] = "put" => call'[q] \in Puts,
         count_mmap'[q] = 1 + Cardinality(MappedBy(q)')
  PROVE  ProcInv(q)'
<1>1. Cardinality(MappedBy(q)') \in Nat
  <2>1. MappedBy(q)' \subseteq Tabs
    BY Zenon DEF MappedBy
  <2> QED BY <2>1, Constants, FS_Subset, FS_CardinalityType, Zenon
<1>2. count_mmap'[q] = 1 + Cardinality(MappedBy(q)') + 0
  BY <1>1
<1>3. /\ pc'[q] \notin Working /\ pc'[q] # "exited"
      /\ pc'[q] \notin {"search", "unlink", "copy"} /\ pc'[q] # "create"
      /\ pc'[q] \notin {"create", "copy"} /\ pc'[q] # "copy"
  BY Zenon DEF Working
<1> QED BY <1>2, <1>3, Zenon DEF ProcInv

\* Mapping a table for the first time adds one to what is mapped.
LEMMA MappedFinite ==
  ASSUME NEW p
  PROVE  IsFiniteSet(MappedBy(p)) /\ Cardinality(MappedBy(p)) \in Nat
<1>1. MappedBy(p) \subseteq Tabs
  BY Zenon DEF MappedBy
<1> QED BY <1>1, Constants, FS_Subset, FS_CardinalityType, Zenon

\* Mapping a table adds one to the mappings, unless it was mapped before.
LEMMA CountLemma ==
  ASSUME NEW p, NEW t \in Tabs, NEW S, S = MappedBy(p) \cup {t}
  PROVE  Cardinality(S) = Cardinality(MappedBy(p)) + FirstMap(p, t)
<1>1. Cardinality(S) = IF t \in MappedBy(p) THEN Cardinality(MappedBy(p))
                                           ELSE Cardinality(MappedBy(p)) + 1
  BY MappedFinite, FS_AddElement, Zenon
<1>2. t \in MappedBy(p) <=> tab_mmap[p][t] # NULL
  BY Zenon DEF MappedBy
<1> QED BY <1>1, <1>2, MappedFinite DEF FirstMap

\* The initial state satisfies the invariant.
LEMMA InitIInv == Init => IInv
<1> SUFFICES ASSUME Init PROVE IInv
  BY Zenon
<1>1. Min(Inodes) \in Inodes
  <2>1. Inodes # {}
    BY BoundsAssumption, Constants, FS_EmptySet
  <2> QED BY <2>1, Constants, MinLemma, Zenon
<1>2. TypeOK
  <2>1. tabs \in [Tabs -> Tabs] /\ name \in [Tabs -> Inodes \cup {NULL}]
    BY <1>1, Constants, Zenon DEF Init
  <2>2. file \in [Inodes -> Tables] /\ tabs_used \in 1..(TABS + 1)
    BY NewTableLemma, Constants DEF Init
  <2>3. tab_mmap \in [Procs -> [Tabs -> Inodes \cup {NULL, REPLACED}]]
    BY Zenon DEF Init
  <2> QED BY <2>1, <2>2, <2>3, Zenon DEF Init, TypeOK
<1>3. WindowInv
  BY <1>1, Constants, NullsAssumption, FitsNew DEF Init, WindowInv
<1>4. MapInv
  BY Zenon DEF Init, MapInv
<1>5. ASSUME NEW p \in Procs PROVE ProcInv(p)
  <2>1. MappedBy(p) = {}
    BY Zenon DEF Init, MappedBy
  <2>2. count_mmap[p] = 1 + Cardinality(MappedBy(p)) + 0
    BY <2>1, FS_EmptySet DEF Init
  <2> QED BY <2>2, Zenon DEF Init, ProcInv, Working
<1> QED BY <1>2, <1>3, <1>4, <1>5, Zenon DEF IInv, Init
-----------------------------------------------------------------------------
(***************************************************************************)
(* Steps with the lock for writing.                                        *)
(***************************************************************************)
\* A new file belongs to nobody.
LEMMA NewInodeLemma ==
  ASSUME TypeOK, NEW n \in FreeInodes
  PROVE  /\ n \in Inodes /\ \A t \in Tabs : name[t] # n
         /\ \A q \in Procs : old[q] # n
         /\ \A q \in Procs, t \in Tabs : tab_mmap[q][t] # n
BY Zenon DEF FreeInodes

-----------------------------------------------------------------------------
(***************************************************************************)
(* What is stored.                                                         *)
(***************************************************************************)
\* e is stored at place s of file i.
StoredAt(e, i, s) ==
  /\ i \in Inodes /\ s \in Slots /\ file[i].ref[s] # NULL
  /\ (\E t \in Tabs : name[t] = i) \/ (\E p \in Procs : old[p] = i)
  /\ e = <<<<file[i].ref[s].tab, s>>, file[i].ref[s].key, file[i].ref[s].val>>

\* What Store contains, without its set constructors.
LEMMA StoreLemma ==
  ASSUME NEW e
  PROVE  e \in Store <=> \E i, s : StoredAt(e, i, s)
<1>1. ASSUME e \in Store PROVE \E i, s : StoredAt(e, i, s)
  <2>1. PICK x : /\ x \in Inodes \X Slots /\ file[x[1]].ref[x[2]] # NULL
                 /\ (\E t \in Tabs : name[t] = x[1]) \/ (\E p \in Procs : old[p] = x[1])
                 /\ e = <<<<file[x[1]].ref[x[2]].tab, x[2]>>, file[x[1]].ref[x[2]].key,
                          file[x[1]].ref[x[2]].val>>
    BY <1>1, Zenon DEF Store
  <2>2. x[1] \in Inodes /\ x[2] \in Slots
    BY <2>1, Zenon
  <2>3. StoredAt(e, x[1], x[2])
    BY <2>1, <2>2, Zenon DEF StoredAt
  <2> QED BY <2>3, Zenon
<1>2. ASSUME NEW i, NEW s, StoredAt(e, i, s) PROVE e \in Store
  <2>1. PICK x : x = <<i, s>>
    BY Zenon
  <2>2. x[1] = i /\ x[2] = s
    BY <2>1, Zenon
  <2>3. x \in {j \in Inodes : (\E t \in Tabs : name[t] = j)
                                \/ (\E p \in Procs : old[p] = j)} \X Slots
    BY <2>1, <1>2, Zenon DEF StoredAt
  <2> QED BY <2>2, <2>3, <1>2, Zenon DEF StoredAt, Store
<1> QED BY <1>1, <1>2, Zenon

\* While nothing is copied, a key that is stored is in the table of its index.
LEMMA AskedLemma ==
  ASSUME TypeOK, WindowInv, \A q \in Procs : old[q] = NULL,
         NEW ops, NEW c \in Wanted(ops), NEW tab, tab = TabFor(c),
         Matches(file[name[tab]], c) = {}
  PROVE  Asked(c) = {}
<1> SUFFICES ASSUME NEW e \in Asked(c) PROVE FALSE
  BY Zenon
<1>1. e \in Store /\ (IF c.uid = NULL THEN e[2] = c.key ELSE e[1] = c.uid)
  BY Zenon DEF Asked
<1>2. PICK i, s : StoredAt(e, i, s)
  BY <1>1, StoreLemma, Zenon
<1>3. PICK u \in Tabs : name[u] = i /\ i # NULL
  BY <1>2, NullsAssumption, Zenon DEF StoredAt
<1>4. PICK r : r = file[i].ref[s]
  BY Zenon
<1>5. s \in Refs(file[i]) /\ e = <<<<r.tab, s>>, r.key, r.val>>
  BY <1>2, <1>4, Zenon DEF StoredAt, Refs
<1>6. tabs[r.tab] = u /\ r.tab = Tab2Of[r.key] /\ s[1] = RowOf[r.key]
  BY <1>3, <1>4, <1>5, ZenonT(30) DEF WindowInv, Fits
<1>7. e[1] = <<r.tab, s>> /\ e[2] = r.key
  BY <1>5, Zenon
<1>8. CASE c.uid = NULL
  <2>1. r.key = c.key /\ u = tab
    BY <1>1, <1>6, <1>7, <1>8, Zenon DEF TabFor, TabOf
  <2>2. s \in Matches(file[i], c)
    BY <2>1, <1>4, <1>5, <1>6, <1>8, Zenon DEF Matches
  <2> QED BY <2>1, <2>2, <1>3, Zenon
<1>9. CASE c.uid # NULL
  <2>1. c.uid = <<r.tab, s>>
    BY <1>1, <1>7, <1>9, Zenon
  <2>2. c.uid[1] = r.tab /\ c.uid[2] = s
    BY <2>1
  <2>3. u = tab
    BY <2>2, <1>6, <1>9, Zenon DEF TabFor
  <2>4. s \in Matches(file[i], c)
    BY <2>2, <1>4, <1>5, <1>9, Zenon DEF Matches
  <2> QED BY <2>3, <2>4, <1>3, Zenon
<1> QED BY <1>8, <1>9, Zenon

\* File i is of a table, or is copied from.
Live(i) == i \in Inodes /\ ((\E t \in Tabs : name[t] = i) \/ (\E p \in Procs : old[p] = i))

\* Ref e is in place s of some file.
Holds(e, s) == s \in Slots /\ e # NULL /\ \E i : Live(i) /\ file[i].ref[s] = e

Triple(e, s) == <<<<e.tab, s>>, e.key, e.val>>

StoreIs == \A x : x \in Store <=> \E e, s : Holds(e, s) /\ x = Triple(e, s)

\* Store is what Holds says.
LEMMA StoreIsHolds == StoreIs
<1>1. ASSUME NEW x, NEW i, NEW s, StoredAt(x, i, s)
      PROVE  \E e, r : Holds(e, r) /\ x = Triple(e, r)
  <2>1. PICK e : e = file[i].ref[s]
    BY Zenon
  <2>2. Holds(e, s) /\ x = Triple(e, s)
    BY <2>1, <1>1, Zenon DEF StoredAt, Holds, Live, Triple
  <2> QED BY <2>2, Zenon
<1>2. ASSUME NEW x, NEW e, NEW s, Holds(e, s), x = Triple(e, s)
      PROVE  \E i : StoredAt(x, i, s)
  BY <1>2, Zenon DEF StoredAt, Holds, Live, Triple
<1>3. ASSUME NEW x PROVE x \in Store <=> \E e, s : Holds(e, s) /\ x = Triple(e, s)
  <2>1. x \in Store <=> \E i, s : StoredAt(x, i, s)
    BY StoreLemma, Zenon
  <2> QED BY <2>1, <1>1, <1>2, ZenonT(30)
<1> QED BY <1>3, Zenon DEF StoreIs

\* A place and what is there say which triple it is, and the other way round.
LEMMA TripleLemma ==
  ASSUME NEW e \in Entries, NEW f \in Entries, NEW s, NEW r, Triple(e, s) = Triple(f, r)
  PROVE  e = f /\ s = r
<1>1. e.tab = f.tab /\ s = r /\ e.key = f.key /\ e.val = f.val
  BY Zenon DEF Triple
<1> QED BY <1>1 DEF Entries

\* What is in a file is a ref.
LEMMA HoldsEntry ==
  ASSUME TypeOK, NEW e, NEW s, Holds(e, s)
  PROVE  e \in Entries
<1>1. PICK i \in Inodes : file[i].ref[s] = e
  BY Zenon DEF Holds, Live
<1>2. file[i] \in Tables /\ s \in Slots /\ e # NULL
  BY Zenon DEF TypeOK, Holds
<1> QED BY <1>1, <1>2, Zenon DEF Tables

\* When the same is held, the same is stored.
LEMMA StoreSame ==
  ASSUME \A e, s : Holds(e, s)' <=> Holds(e, s)
  PROVE  Store' = Store
<1>1. StoreIs /\ StoreIs'
  BY StoreIsHolds, PTL
<1>2. \A x : x \in Store' <=> x \in Store
  BY <1>1, Zenon DEF StoreIs
<1> QED BY <1>2, Zenon

\* Only files, their names and the file copied from make the store.
LEMMA StoreUnchanged ==
  ASSUME UNCHANGED <<name, file, old>>
  PROVE  Store' = Store
BY Zenon DEF Store

\* One ref more is one triple more.
LEMMA StoreAdds ==
  ASSUME NEW f, NEW r, \A e, s : Holds(e, s)' <=> Holds(e, s) \/ (e = f /\ s = r)
  PROVE  Store' = Store \cup {Triple(f, r)}
<1>1. StoreIs /\ StoreIs'
  BY StoreIsHolds, PTL
<1>2. \A x : x \in Store' <=> x \in Store \/ x = Triple(f, r)
  BY <1>1, Zenon DEF StoreIs
<1> QED BY <1>2, Zenon

\* One ref less is one triple less, for a triple tells its ref.
LEMMA StoreRemoves ==
  ASSUME TypeOK, NEW f, NEW r, Holds(f, r),
         \A e, s : Holds(e, s)' <=> Holds(e, s) /\ ~(e = f /\ s = r)
  PROVE  Store' = Store \ {Triple(f, r)}
<1>1. StoreIs /\ StoreIs'
  BY StoreIsHolds, PTL
<1>2. ASSUME NEW e, NEW s, Holds(e, s), Triple(e, s) = Triple(f, r)
      PROVE  e = f /\ s = r
  <2>1. e \in Entries /\ f \in Entries
    BY <1>2, HoldsEntry, Zenon
  <2> QED BY <2>1, <1>2, TripleLemma
<1>3. ASSUME NEW x PROVE x \in Store' <=> x \in Store /\ x # Triple(f, r)
  <2>1. ASSUME NEW e, NEW s, Holds(e, s)', x = Triple(e, s)
        PROVE  x \in Store /\ x # Triple(f, r)
    <3>1. Holds(e, s) /\ ~(e = f /\ s = r)
      BY <2>1, Zenon
    <3>2. Triple(e, s) # Triple(f, r)
      BY <3>1, <1>2, Zenon
    <3> QED BY <3>1, <3>2, <2>1, <1>1, Zenon DEF StoreIs
  <2>2. ASSUME NEW e, NEW s, Holds(e, s), x = Triple(e, s), x # Triple(f, r)
        PROVE  x \in Store'
    <3>1. Holds(e, s)'
      BY <2>2, Zenon
    <3> QED BY <3>1, <2>2, <1>1, Zenon DEF StoreIs
  <2>3. /\ x \in Store' <=> \E e, s : Holds(e, s)' /\ x = Triple(e, s)
        /\ x \in Store <=> \E e, s : Holds(e, s) /\ x = Triple(e, s)
    BY <1>1, Zenon DEF StoreIs
  <2> QED BY <2>1, <2>2, <2>3, Zenon
<1> QED BY <1>3, Zenon

-----------------------------------------------------------------------------
(***************************************************************************)
(* Writing one table.                                                      *)
(***************************************************************************)
\* The call of p ends, and nothing but files and mappings changes.
Ends(p) ==
  /\ UNCHANGED <<tabs, tabs_used, readers, writer, old, missed>>
  /\ pc' = [pc EXCEPT ![p] = "idle"]
  /\ call' \in [Procs -> Puts \cup Wanted({"find", "copy"}) \cup {NULL}]
  /\ \A q \in Procs : q # p => call'[q] = call[q]

\* p changes what is in table tab: it writes its file, or puts a new file n in
\* its place.  This is what a put that has room and a delete do.
WriteTable(p, tab, n) ==
  /\ n \in Inodes /\ (n = name[tab] \/ n \in FreeInodes)
  /\ file' \in [Inodes -> Tables] /\ Fits(tabs, file'[n], tab)
  /\ \A i \in Inodes : i # n /\ i # name[tab] => file'[i] = file[i]
  /\ name' = [name EXCEPT ![tab] = n]
  /\ tab_mmap' \in [Procs -> [Tabs -> Inodes \cup {NULL, REPLACED}]]
  /\ \A q \in Procs, u \in Tabs : tab_mmap'[q][u] =
       IF q = p /\ u = tab THEN n
       ELSE IF n # name[tab] /\ tab_mmap[q][u] = name[tab] THEN REPLACED
       ELSE tab_mmap[q][u]
  /\ count_mmap' = [count_mmap EXCEPT ![p] = @ + FirstMap(p, tab)]

\* Writing one table while nobody is inside keeps the invariant.
LEMMA WriteTableIInv ==
  ASSUME IInv, NobodyInside, NEW p \in Procs, NEW tab \in Tabs, tab < tabs_used,
         NEW n, WriteTable(p, tab, n), Ends(p),
         reply' \in Uids \cup Vals \cup {<<"deleted">>, NULL}
  PROVE  IInv'
<1>1. /\ TypeOK /\ WindowInv /\ MapInv /\ ~missed
      /\ \A q \in Procs : pc[q] \in {"idle", "put"} /\ old[q] = NULL /\ ProcInv(q)
      /\ \A t \in Tabs : t < tabs_used => name[t] \in Inodes
      /\ \A q \in Procs, t \in Tabs : tab_mmap[q][t] \in {NULL, REPLACED, name[t]}
  BY QuietLemma, Zenon DEF IInv
<1>2. \A u \in Tabs : name'[u] = IF u = tab THEN n ELSE name[u]
  BY <1>1, Zenon DEF WriteTable, TypeOK
<1>3. \A u \in Tabs \ {tab} : name[u] # n /\ name[u] # name[tab]
  BY <1>1, NullsAssumption, NewInodeLemma DEF WindowInv, WriteTable
<1>4. WindowInv'
  <2>1. ASSUME NEW u \in Tabs, name'[u] # NULL PROVE Fits(tabs, file'[name'[u]], u)
    <3>1. CASE u = tab
      BY <3>1, <1>2, Zenon DEF WriteTable
    <3>2. CASE u # tab
      <4>1. name'[u] = name[u] /\ name[u] \in Inodes /\ name[u] # n /\ name[u] # name[tab]
        BY <2>1, <3>2, <1>1, <1>2, <1>3 DEF TypeOK
      <4> QED BY <4>1, <2>1, <1>1 DEF WriteTable, WindowInv
    <3> QED BY <3>1, <3>2, Zenon
  <2>2. \A t, u \in Tabs : name'[t] # NULL /\ name'[t] = name'[u] => t = u
    BY <1>1, <1>2, <1>3 DEF WindowInv
  <2>3. \A u \in Tabs : u < tabs_used => name'[u] # NULL
    BY <1>1, <1>2, NullsAssumption DEF WriteTable
  <2>4. \A u \in Tabs : u >= tabs_used => name'[u] = NULL
    BY <1>1, <1>2, Constants, Zenon DEF WindowInv, TypeOK
  <2> QED BY <2>1, <2>2, <2>3, <2>4, <1>1, Zenon DEF Ends, WindowInv
<1>5. MapInv'
  <2>1. ASSUME NEW q \in Procs, NEW u \in Tabs
        PROVE  /\ tab_mmap'[q][u] \in {NULL, REPLACED, name'[u]}
               /\ u >= tabs_used => tab_mmap'[q][u] = NULL
    <3>1. u >= tabs_used => tab_mmap[q][u] = NULL /\ u # tab
      BY <1>1, Constants DEF MapInv, TypeOK
    <3>2. u # tab => name[tab] # name[u]
      BY <1>3, Zenon
    <3> QED BY <3>1, <3>2, <1>1, <1>2, NullsAssumption DEF WriteTable
  <2> QED BY <2>1, Zenon DEF MapInv, Ends
<1>6. ASSUME NEW q \in Procs PROVE ProcInv(q)'
  <2>1. MappedBy(q)' = IF q = p THEN MappedBy(p) \cup {tab} ELSE MappedBy(q)
    BY <1>1, NullsAssumption DEF MappedBy, WriteTable
  <2>2. count_mmap[q] = 1 + Cardinality(MappedBy(q))
    BY <1>1, MappedFinite DEF ProcInv
  <2>3. count_mmap'[q] = 1 + Cardinality(MappedBy(q)')
    <3>1. CASE q # p
      BY <3>1, <2>1, <2>2, <1>1, Zenon DEF WriteTable, TypeOK
    <3>2. CASE q = p
      <4>1. count_mmap'[q] = count_mmap[q] + FirstMap(p, tab)
        BY <3>2, <1>1, Zenon DEF WriteTable, TypeOK
      <4>2. Cardinality(MappedBy(q)') = Cardinality(MappedBy(q)) + FirstMap(p, tab)
        BY <3>2, <2>1, CountLemma, Zenon
      <4> QED BY <4>1, <4>2, <2>2, MappedFinite DEF FirstMap
    <3> QED BY <3>1, <3>2, Zenon
  <2>4. /\ pc'[q] \in {"idle", "put"} /\ q \notin readers' /\ old'[q] = NULL
        /\ pc'[q] = "put" => call'[q] \in Puts
    BY <1>1 DEF Ends, ProcInv, NobodyInside, TypeOK
  <2> QED BY <2>3, <2>4, CalmLemma, Zenon
<1>7. TypeOK'
  <2>1. tab_mmap' \in [Procs -> [Tabs -> Inodes \cup {NULL, REPLACED}]]
    BY <1>1, Zenon DEF TypeOK, WriteTable
  <2>2. count_mmap' \in [Procs -> Nat]
    BY <1>1 DEF TypeOK, WriteTable, FirstMap
  <2>3. name' \in [Tabs -> Inodes \cup {NULL}]
    BY <1>1, Zenon DEF TypeOK, WriteTable
  <2>4. file' \in [Inodes -> Tables]
    BY Zenon DEF WriteTable
  <2> QED BY <2>1, <2>2, <2>3, <2>4, <1>1, Zenon DEF TypeOK, Ends
<1> QED BY <1>1, <1>4, <1>5, <1>6, <1>7, Zenon DEF IInv, Ends

\* Shrinking copies every ref.
LEMMA CopyAll ==
  ASSUME NEW t \in Tables, NEW n, n = Copied(t, Refs(t))
  PROVE  n \in Tables /\ \A r \in Slots : n.ref[r] = t.ref[r]
<1>1. /\ n \in Tables /\ Refs(n) = Refs(t) /\ \A s \in Refs(t) : n.ref[s] = t.ref[s]
  BY CopiedLemma
<1>2. ASSUME NEW r \in Slots, r \notin Refs(t) PROVE n.ref[r] = t.ref[r]
  <2>1. t.ref[r] = NULL
    BY <1>2, Zenon DEF Refs
  <2>2. n.ref[r] = NULL
    BY <1>1, <1>2, Zenon DEF Refs
  <2> QED BY <2>1, <2>2, Zenon
<1> QED BY <1>1, <1>2, Zenon

\* Writing t to the file i of a table.
InPlace(p, tab, i, t) ==
  file' = [file EXCEPT ![i] = t] /\ Map(p, tab, i) /\ UNCHANGED name

\* A table written where it is.
LEMMA WriteInPlace ==
  ASSUME TypeOK, NEW p \in Procs, NEW tab \in Tabs, NEW i \in Inodes, i = name[tab],
         NEW t, Fits(tabs, t, tab), InPlace(p, tab, i, t)
  PROVE  WriteTable(p, tab, i) /\ file'[i] = t
<1>1. /\ file \in [Inodes -> Tables] /\ name \in [Tabs -> Inodes \cup {NULL}]
      /\ tab_mmap \in [Procs -> [Tabs -> Inodes \cup {NULL, REPLACED}]] /\ t \in Tables
  BY Zenon DEF TypeOK, Fits
<1>2. /\ tab_mmap' \in [Procs -> [Tabs -> Inodes \cup {NULL, REPLACED}]]
      /\ \A q \in Procs, u \in Tabs :
           tab_mmap'[q][u] = IF q = p /\ u = tab THEN i
                             ELSE IF i # name[tab] /\ tab_mmap[q][u] = name[tab] THEN REPLACED
                             ELSE tab_mmap[q][u]
  BY <1>1, Zenon DEF InPlace, Map
<1>3. /\ name' = [name EXCEPT ![tab] = i]
      /\ count_mmap' = [count_mmap EXCEPT ![p] = @ + FirstMap(p, tab)]
  BY <1>1, Zenon DEF InPlace, Map
<1>4. /\ file' \in [Inodes -> Tables] /\ file'[i] = t
      /\ \A j \in Inodes : j # i => file'[j] = file[j]
  BY <1>1, Zenon DEF InPlace
<1> QED BY <1>2, <1>3, <1>4, Zenon DEF WriteTable

\* Shrinking puts a new file in the place of the old one.
LEMMA WriteShrunk ==
  ASSUME TypeOK, NEW p \in Procs, NEW tab \in Tabs, NEW i \in Inodes, i = name[tab],
         NEW t, Fits(tabs, t, tab), NEW n \in FreeInodes, n = NewInode,
         Shrink(p, tab, i, t)
  PROVE  WriteTable(p, tab, n) /\ \A r \in Slots : file'[n].ref[r] = t.ref[r]
<1>1. /\ file \in [Inodes -> Tables] /\ name \in [Tabs -> Inodes \cup {NULL}]
      /\ tab_mmap \in [Procs -> [Tabs -> Inodes \cup {NULL, REPLACED}]] /\ t \in Tables
  BY Zenon DEF TypeOK, Fits
<1>2. n \in Inodes /\ n # i
  BY NewInodeLemma, Zenon
<1>3. PICK k : k = Copied(t, Refs(t))
  BY Zenon
<1>4. k \in Tables /\ \A r \in Slots : k.ref[r] = t.ref[r]
  BY <1>1, <1>3, CopyAll, Zenon
<1>5. Fits(tabs, k, tab)
  <2>1. \A r \in Refs(t) : tabs[t.ref[r].tab] = tab
    BY Zenon DEF Fits
  <2> QED BY <2>1, <1>3, FitsCopied, Zenon
<1>6. /\ file' = [file EXCEPT ![i] = NewTable, ![n] = k]
      /\ name' = [name EXCEPT ![tab] = n]
      /\ tab_mmap' = [Replaced(i) EXCEPT ![p][tab] = n]
      /\ count_mmap' = [count_mmap EXCEPT ![p] = @ + FirstMap(p, tab)]
  BY <1>3, Zenon DEF Shrink
<1>7. /\ file' \in [Inodes -> Tables] /\ file'[n] = k
      /\ \A j \in Inodes : j # n /\ j # i => file'[j] = file[j]
  BY <1>1, <1>2, <1>4, <1>6, NewTableLemma, Zenon
<1>8. /\ tab_mmap' \in [Procs -> [Tabs -> Inodes \cup {NULL, REPLACED}]]
      /\ \A q \in Procs, u \in Tabs :
           tab_mmap'[q][u] = IF q = p /\ u = tab THEN n
                             ELSE IF tab_mmap[q][u] = i THEN REPLACED
                             ELSE tab_mmap[q][u]
  BY <1>1, <1>2, <1>6 DEF Replaced
<1> QED BY <1>2, <1>4, <1>5, <1>6, <1>7, <1>8 DEF WriteTable

\* The call of a writer that ends.
LEMMA EndsLemma ==
  ASSUME TypeOK, NEW p \in Procs, Return(p) \/ (pc[p] = "idle" /\ UNCHANGED <<pc, call>>),
         UNCHANGED <<tabs, tabs_used, readers, writer, old, missed>>
  PROVE  Ends(p)
<1>1. /\ call \in [Procs -> Puts \cup Wanted({"find", "copy"}) \cup {NULL}]
      /\ pc = [q \in Procs |-> pc[q]]
  BY Zenon DEF TypeOK
<1>2. CASE Return(p)
  BY <1>1, <1>2, Zenon DEF Ends, Return
<1>3. CASE pc[p] = "idle" /\ UNCHANGED <<pc, call>>
  BY <1>1, <1>3, Zenon DEF Ends
<1> QED BY <1>2, <1>3, Zenon

\* What is added to the table of its key by a put that has room: ref e at place
\* s of the key's row, which was free.
Adds(tab, n, s, e) ==
  /\ s \in Slots /\ file[name[tab]].ref[s] = NULL
  /\ \A r \in Slots : file'[n].ref[r] = IF r = s THEN e ELSE file[name[tab]].ref[r]

\* A put that finds room writes one table, where it adds one ref.
LEMMA PutStoreWrites ==
  ASSUME IInv, NobodyInside, NEW p \in Procs, NEW c \in Puts, PutStore(p, c),
         NEW tab, tab = TabOf(c.key)
  PROVE  /\ tab \in Tabs /\ tab < tabs_used /\ Ends(p)
         /\ \E n, s : /\ WriteTable(p, tab, n) /\ Adds(tab, n, s, Entry(c.key, c.val))
                      /\ reply' = <<Tab2Of[c.key], s>>
<1>1. TypeOK /\ WindowInv /\ MapInv /\ \A q \in Procs : old[q] = NULL
  BY QuietLemma, Zenon DEF IInv
<1>2. /\ c.key \in Keys /\ c.val \in Vals /\ tab \in Tabs /\ tab < tabs_used
      /\ Tab2Of[c.key] \in Tabs /\ RowOf[c.key] \in Rows /\ tabs[Tab2Of[c.key]] = tab
  BY <1>1, TabOfLemma, Constants, Zenon DEF Puts, TabOf
<1>3. PICK i, e : i = name[tab] /\ e = Entry(c.key, c.val)
  BY Zenon
<1>4. i \in Inodes /\ i = Mapped(p, tab) /\ Fits(tabs, file[i], tab) /\ file[i] \in Tables
  BY <1>2, <1>3, QuietLemma, Zenon
<1>5. PICK s \in Slots :
        /\ file[i].ref[s] = NULL /\ s[1] = RowOf[c.key]
        /\ reply' = <<Tab2Of[c.key], s>>
        /\ \/ Shrink(p, tab, i, Stored(file[i], s, e))
           \/ InPlace(p, tab, i, Stored(file[i], s, e))
  <2>1. PICK room, s :
          /\ room = {n \in 1..REFS : file[i].ref[<<RowOf[c.key], n>>] = NULL}
          /\ s = <<RowOf[c.key], Min(room)>>
    BY ZenonT(30)
  <2>2. room # {}
    BY <2>1, <1>3, <1>4, Zenon DEF PutStore
  <2>3. room \in SUBSET (1..REFS) /\ room \in SUBSET Nat
    BY <2>1, Constants
  <2>4. Min(room) \in 1..REFS /\ file[i].ref[<<RowOf[c.key], Min(room)>>] = NULL
    BY <2>1, <2>2, <2>3, MinLemma, Zenon
  <2>5. s \in Slots /\ file[i].ref[s] = NULL /\ s[1] = RowOf[c.key]
    <3>1. s = <<RowOf[c.key], Min(room)>>
      BY <2>1, Zenon
    <3> QED BY <3>1, <2>4, <1>2, Zenon DEF Slots
  <2>6. /\ reply' = <<Tab2Of[c.key], s>>
        /\ \/ Shrink(p, tab, i, Stored(file[i], s, e))
           \/ InPlace(p, tab, i, Stored(file[i], s, e))
    BY <2>1, <1>3, <1>4, Zenon DEF PutStore, InPlace
  <2> QED BY <2>5, <2>6, Zenon
<1>6. Ends(p)
  BY <1>1, EndsLemma, Zenon DEF PutStore
<1>7. PICK t : t = Stored(file[i], s, e)
  BY Zenon
<1>8. e \in Entries /\ e.tab = Tab2Of[c.key] /\ e.key = c.key
  BY <1>2, <1>3, Zenon DEF Entry, Entries
<1>9. s \notin Refs(file[i])
  BY <1>5, Zenon DEF Refs
<1>10. Fits(tabs, t, tab)
  BY <1>2, <1>4, <1>5, <1>7, <1>8, <1>9, FitsStored, Zenon
<1>11. \A r \in Slots : t.ref[r] = IF r = s THEN e ELSE file[i].ref[r]
  <2>1. t.ref = [file[i].ref EXCEPT ![s] = e]
    BY <1>4, <1>7, <1>8, StoredLemma
  <2> QED BY <2>1, <1>4, Zenon DEF Tables
<1>12. PICK n : WriteTable(p, tab, n) /\ \A r \in Slots : file'[n].ref[r] = t.ref[r]
  <2>0. TypeOK /\ tab \in Tabs /\ i \in Inodes /\ i = name[tab] /\ Fits(tabs, t, tab)
    BY <1>1, <1>2, <1>3, <1>4, <1>10, Zenon
  <2>1. CASE InPlace(p, tab, i, t)
    <3>1. WriteTable(p, tab, i) /\ file'[i] = t
      BY <2>0, <2>1, WriteInPlace, Zenon
    <3> QED BY <3>1, Zenon
  <2>2. CASE Shrink(p, tab, i, t)
    <3>1. Cardinality(Tabs) + Cardinality({}) <= TABS
      BY Constants, FS_EmptySet
    <3>2. NewInode \in FreeInodes
      BY <3>1, <1>1, FreeFiles
    <3>3. PICK n \in FreeInodes : n = NewInode
      BY <3>2, Zenon
    <3>4. WriteTable(p, tab, n) /\ \A r \in Slots : file'[n].ref[r] = t.ref[r]
      BY <3>3, <2>0, <2>2, WriteShrunk
    <3> QED BY <3>4, Zenon
  <2> QED BY <2>1, <2>2, <1>5, <1>7, Zenon
<1>13. Adds(tab, n, s, e)
  BY <1>3, <1>5, <1>11, <1>12, Zenon DEF Adds
<1> QED BY <1>2, <1>3, <1>5, <1>6, <1>12, <1>13, Zenon

\* What a delete takes away: the ref at place s.
Removes(n, s) ==
  s \in Slots /\ \A r \in Slots : file'[n].ref[r] = IF r = s THEN NULL ELSE file[n].ref[r]

\* The first of some places is one of them.
LEMMA FirstLemma ==
  ASSUME NEW S \in SUBSET Slots, S # {}
  PROVE  First(S) \in S
<1> DEFINE N == {s[2] : s \in S}
<1>1. \A s \in S : s[2] \in Nat
  BY Constants DEF Slots
<1>2. N \in SUBSET Nat /\ N # {}
  BY <1>1, Zenon
<1>3. PICK x \in N : \A y \in N : x <= y
  BY <1>2, Least, Zenon
<1>4. \E s \in S : \A r \in S : s[2] <= r[2]
  BY <1>3, Zenon
<1> QED BY <1>4, Zenon DEF First

\* A delete writes one table: it removes one ref that matches, or finds
\* none.
LEMMA DeleteWrites ==
  ASSUME IInv, NEW p \in Procs, Delete(p)
  PROVE  /\ NobodyInside /\ Ends(p) /\ reply' \in {<<"deleted">>, NULL}
         /\ \E c \in Wanted({"delete"}), tab \in Tabs, n \in Inodes :
              /\ tab = TabFor(c) /\ n = name[tab] /\ tab < tabs_used
              /\ WriteTable(p, tab, n)
              /\ \/ /\ \E s \in Matches(file[n], c) : Removes(n, s)
                    /\ reply' = <<"deleted">>
                 \/ Matches(file[n], c) = {} /\ UNCHANGED file /\ reply' = NULL
<1>1. PICK c, tab, i, found :
        /\ c \in Wanted({"delete"})
        /\ tab = TabFor(c) /\ i = Mapped(p, tab) /\ found = Matches(file[i], c)
        /\ pc[p] = "idle" /\ NobodyInside /\ Map(p, tab, i)
        /\ IF found # {}
             THEN file' = [file EXCEPT ![i] = Deleted(@, First(found))]
                    /\ reply' = <<"deleted">>
             ELSE reply' = NULL /\ UNCHANGED file
        /\ missed' = (missed \/ (found = {} /\ Asked(c) # {}))
        /\ UNCHANGED <<tabs, tabs_used, name, readers, writer, pc, call, old>>
  BY ZenonT(30) DEF Delete
<1>2. TypeOK /\ WindowInv
  BY Zenon DEF IInv
<1>3. tab \in Tabs /\ tab < tabs_used
  BY <1>1, <1>2, TabForLemma, Zenon
<1>4. i \in Inodes /\ i = name[tab] /\ Fits(tabs, file[i], tab) /\ file[i] \in Tables
  BY <1>1, <1>3, QuietLemma, Zenon
<1>5. Ends(p)
  <2>1. found = {} => Asked(c) = {}
    BY <1>1, <1>2, <1>4, QuietLemma, AskedLemma, Zenon
  <2>2. missed' = missed
    BY <2>1, <1>1, Zenon DEF IInv, TypeOK
  <2> QED BY <2>2, <1>1, <1>2, EndsLemma, Zenon
<1>6. CASE found = {}
  <2>1. file' = [file EXCEPT ![i] = file[i]]
    BY <1>1, <1>2, <1>6, Zenon DEF TypeOK
  <2>2. InPlace(p, tab, i, file[i])
    BY <2>1, <1>1, Zenon DEF InPlace
  <2>3. WriteTable(p, tab, i)
    BY <2>2, <1>2, <1>3, <1>4, WriteInPlace, Zenon
  <2> QED BY <2>3, <1>1, <1>3, <1>4, <1>5, <1>6, Zenon
<1>7. CASE found # {}
  <2>1. PICK s, t : s = First(found) /\ t = Deleted(file[i], s)
    BY Zenon
  <2>2. s \in found /\ s \in Refs(file[i]) /\ s \in Slots
    <3>1. found \subseteq Refs(file[i])
      BY <1>1, Zenon DEF Matches
    <3> QED BY <3>1, <2>1, <1>7, RefsFinite, FirstLemma, Zenon
  <2>3. Fits(tabs, t, tab) /\ t.ref = [file[i].ref EXCEPT ![s] = NULL]
    BY <2>1, <2>2, <1>4, FitsDeleted
  <2>4. InPlace(p, tab, i, t)
    BY <2>1, <1>1, <1>7, Zenon DEF InPlace
  <2>5. WriteTable(p, tab, i) /\ file'[i] = t
    BY <2>3, <2>4, <1>2, <1>3, <1>4, WriteInPlace, Zenon
  <2>6. Removes(i, s)
    BY <2>2, <2>3, <2>5, <1>4, Zenon DEF Removes, Tables
  <2> QED BY <2>2, <2>5, <2>6, <1>1, <1>3, <1>4, <1>5, <1>7, Zenon
<1> QED BY <1>6, <1>7, Zenon

-----------------------------------------------------------------------------
(***************************************************************************)
(* The reader and the others.                                              *)
(***************************************************************************)
\* Nobody but p has the lock.
Alone(p) ==
  /\ writer = NULL /\ tabs_used \in 1..TABS
  /\ \A q \in Procs : q # p => pc[q] \in {"idle", "put"} /\ old[q] = NULL /\ q \notin readers

\* What is the case for the others does not change, but that a mapping of a
\* replaced file is marked.
Others(p) ==
  \A q \in Procs : q # p =>
    /\ pc'[q] = pc[q] /\ call'[q] = call[q] /\ old'[q] = old[q]
    /\ count_mmap'[q] = count_mmap[q] /\ (q \in readers' => q \in readers)
    /\ \A u \in Tabs : tab_mmap'[q][u] = NULL <=> tab_mmap[q][u] = NULL

\* Who has the lock for reading has it alone, when there is one getter.
LEMMA AloneLemma ==
  ASSUME OneGetter, IInv, NEW p \in Getters, writer = NULL, pc[p] \in Working \cup {"idle"}
  PROVE  Alone(p)
<1>1. ASSUME NEW q \in Procs, q # p
      PROVE  pc[q] \in {"idle", "put"} /\ old[q] = NULL /\ q \notin readers
  <2>1. ProcInv(q) /\ pc[q] \in {"idle", "put", "exited"} \cup Working
    BY Zenon DEF IInv, TypeOK, Working
  <2>2. pc[q] \notin Working
    BY <2>1, <1>1, Zenon DEF ProcInv, OneGetter
  <2>3. pc[q] # "exited"
    BY <2>1, Zenon DEF ProcInv
  <2>4. pc[q] \in {"idle", "put"} /\ pc[q] \notin {"create", "copy"}
    BY <2>1, <2>2, <2>3, Zenon
  <2> QED BY <2>1, <2>2, <2>4, Zenon DEF ProcInv
<1>2. tabs_used \in 1..TABS
  BY Constants DEF IInv, TypeOK, WindowInv
<1> QED BY <1>1, <1>2, Zenon DEF Alone

\* What holds of the other processes still holds.
LEMMA OthersLemma ==
  ASSUME IInv, NEW p \in Procs, Alone(p), Others(p), NEW q \in Procs, q # p
  PROVE  ProcInv(q)'
<1>1. /\ pc[q] \in {"idle", "put"} /\ old[q] = NULL /\ q \notin readers /\ ProcInv(q)
      /\ pc'[q] = pc[q] /\ call'[q] = call[q] /\ old'[q] = old[q]
      /\ count_mmap'[q] = count_mmap[q] /\ q \notin readers'
  BY Zenon DEF Alone, Others, IInv
<1>2. MappedBy(q)' = MappedBy(q)
  BY Zenon DEF Others, MappedBy
<1>3. count_mmap[q] = 1 + Cardinality(MappedBy(q))
  BY <1>1, MappedFinite DEF ProcInv
<1> QED BY <1>1, <1>2, <1>3, CalmLemma, Zenon DEF ProcInv

\* Where p is when it has the lock for reading.
LEMMA ReaderLemma ==
  ASSUME OneGetter, IInv, NEW p \in Procs, pc[p] \in Working, NEW tab, tab = TabFor(call[p])
  PROVE  /\ Alone(p) /\ p \in Getters /\ p \in readers
         /\ call[p] \in Wanted({"find", "copy"})
         /\ tab \in Tabs /\ tab < tabs_used
<1>1. /\ ProcInv(p) /\ TypeOK /\ WindowInv
  BY Zenon DEF IInv
<1>2. p \in Getters /\ p \in readers /\ writer = NULL /\ call[p] \in Wanted({"find", "copy"})
  BY <1>1, Zenon DEF ProcInv
<1>3. pc[p] \in Working \cup {"idle"}
  BY Zenon
<1> QED BY <1>1, <1>2, <1>3, AloneLemma, TabForLemma, Zenon

-----------------------------------------------------------------------------
(***************************************************************************)
(* Steps of the reader.                                                    *)
(***************************************************************************)
\* It takes the lock for reading and maps the table.
LEMMA GetLockIInv ==
  ASSUME OneGetter, IInv, NEW p \in Procs, GetLock(p)
  PROVE  IInv'
<1>1. PICK c \in Wanted({"find", "copy"}) :
        /\ call' = [call EXCEPT ![p] = c]
        /\ IF Mapped(p, TabFor(c)) = NULL
             THEN pc' = [pc EXCEPT ![p] = "exited"] /\ UNCHANGED <<tab_mmap, count_mmap>>
             ELSE pc' = [pc EXCEPT ![p] = "search"] /\ Map(p, TabFor(c), Mapped(p, TabFor(c)))
  BY Zenon DEF GetLock
<1>2. /\ p \in Getters /\ pc[p] = "idle" /\ writer = NULL /\ readers' = readers \cup {p}
      /\ reply' = NULL
      /\ UNCHANGED <<tabs, tabs_used, name, file, writer, old, missed>>
  BY Zenon DEF GetLock, window
<1>3. PICK tab : tab = TabFor(c)
  BY Zenon
<1>4. TypeOK /\ WindowInv /\ MapInv /\ ~missed /\ ProcInv(p) /\ Alone(p)
  BY <1>2, AloneLemma, Zenon DEF IInv
<1>5. NobodyInside
  <2>1. p \notin readers
    BY <1>2, <1>4, Zenon DEF ProcInv, Working
  <2> QED BY <2>1, <1>2, <1>4 DEF NobodyInside, Alone, TypeOK
<1>6. /\ tab \in Tabs /\ tab < tabs_used /\ name[tab] \in Inodes /\ Mapped(p, tab) = name[tab]
      /\ \A q \in Procs : old[q] = NULL
  BY <1>3, <1>4, <1>5, TabForLemma, QuietLemma, Zenon
<1>7. name[tab] # NULL /\ pc' = [pc EXCEPT ![p] = "search"] /\ Map(p, tab, name[tab])
  BY <1>1, <1>3, <1>6, NullsAssumption, Zenon
<1>8. /\ tab_mmap' \in [Procs -> [Tabs -> Inodes \cup {NULL, REPLACED}]]
      /\ \A q \in Procs, u \in Tabs : tab_mmap'[q][u] =
           IF q = p /\ u = tab THEN name[tab] ELSE tab_mmap[q][u]
  BY <1>4, <1>6, <1>7, Zenon DEF TypeOK, Map
<1>9. count_mmap' = [count_mmap EXCEPT ![p] = @ + FirstMap(p, tab)]
  BY <1>7, Zenon DEF Map
<1>10. pc'[p] = "search" /\ call'[p] = c
  BY <1>1, <1>4, <1>7, Zenon DEF TypeOK
<1>11. Others(p)
  BY <1>1, <1>2, <1>4, <1>7, <1>8, <1>9, Zenon DEF Others, TypeOK
<1>12. WindowInv'
  <2>1. \A u \in Tabs : u < tabs_used => name[u] # NULL
    BY <1>5, QuietLemma, NullsAssumption, Zenon
  <2> QED BY <2>1, <1>2, <1>4, Zenon DEF WindowInv
<1>13. MapInv'
  <2>1. \A q \in Procs, u \in Tabs : tab_mmap[q][u] \in {NULL, REPLACED, name[u]}
    BY <1>5, QuietLemma, Zenon
  <2>2. \A u \in Tabs : u >= tabs_used => u # tab
    BY <1>4, <1>6, Constants DEF TypeOK
  <2>3. ASSUME NEW q \in Procs, NEW u \in Tabs
        PROVE  /\ u >= tabs_used => tab_mmap'[q][u] = NULL
               /\ tab_mmap'[q][u] \in {NULL, REPLACED, name[u]}
    <3>1. CASE q = p /\ u = tab
      BY <3>1, <2>2, <1>8, Zenon
    <3>2. CASE ~(q = p /\ u = tab)
      <4>1. tab_mmap'[q][u] = tab_mmap[q][u]
        BY <3>2, <1>8, Zenon
      <4> QED BY <4>1, <2>1, <1>4, Zenon DEF MapInv
    <3> QED BY <3>1, <3>2, Zenon
  <2> QED BY <2>3, <1>2, Zenon DEF MapInv
<1>14. ProcInv(p)'
  <2>1. TabFor(call[p])' = tab
    BY <1>2, <1>3, <1>10, Zenon DEF TabFor, TabOf
  <2>2. MappedBy(p)' = MappedBy(p) \cup {tab}
    BY <1>6, <1>7, <1>8, Zenon DEF MappedBy
  <2>3. count_mmap'[p] = 1 + Cardinality(MappedBy(p)') + 0
    <3>1. count_mmap[p] = 1 + Cardinality(MappedBy(p)) + 0
      BY <1>4, <1>6, Zenon DEF ProcInv
    <3>2. count_mmap'[p] = count_mmap[p] + FirstMap(p, tab)
      BY <1>4, <1>9, Zenon DEF TypeOK
    <3>3. Cardinality(MappedBy(p)') = Cardinality(MappedBy(p)) + FirstMap(p, tab)
      BY <2>2, <1>6, CountLemma, Zenon
    <3> QED BY <3>1, <3>2, <3>3, MappedFinite DEF FirstMap
  <2>4. tab_mmap'[p][tab] = name'[tab] /\ name'[tab] # NULL /\ old'[p] = NULL /\ p \in readers'
    BY <1>2, <1>6, <1>7, <1>8, Zenon
  <2> QED BY <2>1, <2>3, <2>4, <1>2, <1>10, Zenon DEF ProcInv, Working
<1>15. TypeOK'
  <2>1. /\ call' \in [Procs -> Puts \cup Wanted({"find", "copy"}) \cup {NULL}]
        /\ pc' \in [Procs -> {"idle", "put", "search", "unlink", "create", "copy", "exited"}]
    BY <1>1, <1>4, <1>7, Zenon DEF TypeOK
  <2>2. count_mmap' \in [Procs -> Nat] /\ readers' \subseteq Procs
    BY <1>2, <1>4, <1>9 DEF TypeOK, FirstMap
  <2> QED BY <2>1, <2>2, <1>2, <1>4, <1>8, Zenon DEF TypeOK
<1>16. ASSUME NEW q \in Procs PROVE ProcInv(q)'
  BY <1>4, <1>11, <1>14, OthersLemma, Zenon
<1> QED BY <1>2, <1>4, <1>12, <1>13, <1>15, <1>16, Zenon DEF IInv

\* It searches the table, and misses nothing.
LEMMA SearchIInv ==
  ASSUME OneGetter, IInv, NEW p \in Procs, Search(p)
  PROVE  IInv'
<1>1. PICK c, t, found :
        /\ c = call[p] /\ t = file[tab_mmap[p][TabFor(c)]] /\ found = Matches(t, c)
        /\ pc[p] = "search"
        /\ reply' = IF found = {} THEN NULL ELSE t.ref[First(found)].val
        /\ missed' = (missed \/ (found = {} /\ Asked(c) # {}))
        /\ IF found # {} /\ c.op = "copy" /\ MuchAfterGet(t)
             THEN Goto(p, "unlink") /\ UNCHANGED readers
             ELSE Return(p) /\ readers' = readers \ {p}
        /\ UNCHANGED <<window, writer, tab_mmap, count_mmap, old>>
  BY ZenonT(30) DEF Search
<1>2. PICK tab : tab = TabFor(c)
  BY Zenon
<1>3. TypeOK /\ WindowInv /\ MapInv /\ ~missed /\ ProcInv(p)
  BY Zenon DEF IInv
<1>4. /\ Alone(p) /\ p \in Getters /\ p \in readers /\ c \in Wanted({"find", "copy"})
      /\ tab \in Tabs /\ tab < tabs_used
  <2>1. pc[p] \in Working
    BY <1>1, Zenon DEF Working
  <2> QED BY <2>1, <1>1, <1>2, ReaderLemma, Zenon
<1>5. /\ name[tab] # NULL /\ tab_mmap[p][tab] = name[tab] /\ old[p] = NULL
  BY <1>1, <1>2, <1>3, Zenon DEF ProcInv
<1>6. \A q \in Procs : old[q] = NULL
  BY <1>4, <1>5, Zenon DEF Alone
<1>7. UNCHANGED <<tabs, tabs_used, name, file, writer, tab_mmap, count_mmap, old>>
  BY <1>1, Zenon DEF window
<1>8. ~missed'
  <2>1. found = {} => Asked(c) = {}
    BY <1>1, <1>2, <1>3, <1>4, <1>5, <1>6, AskedLemma, Zenon
  <2> QED BY <2>1, <1>1, <1>3, Zenon
<1>9. \/ pc' = [pc EXCEPT ![p] = "unlink"] /\ UNCHANGED <<call, readers>>
      \/ /\ pc' = [pc EXCEPT ![p] = "idle"] /\ call' = [call EXCEPT ![p] = NULL]
         /\ readers' = readers \ {p}
  BY <1>1, Zenon DEF Goto, Return
<1>10. Others(p)
  BY <1>3, <1>7, <1>9, Zenon DEF Others, TypeOK
<1>11. WindowInv' /\ MapInv'
  <2>1. \A u \in Tabs : u < tabs_used => name[u] # NULL
    BY <1>1, <1>3, <1>4, Zenon DEF WindowInv, Alone
  <2>2. WindowInv'
    BY <2>1, <1>3, <1>7, Zenon DEF WindowInv
  <2>3. \A q \in Procs, u \in Tabs : tab_mmap[q][u] \in {NULL, REPLACED, name[u]}
    BY <1>3, <1>6, Zenon DEF MapInv
  <2> QED BY <2>2, <2>3, <1>3, <1>7, Zenon DEF MapInv
<1>12. ProcInv(p)'
  <2>1. MappedBy(p)' = MappedBy(p) /\ count_mmap[p] = 1 + Cardinality(MappedBy(p)) + 0
    BY <1>3, <1>5, <1>7, Zenon DEF MappedBy, ProcInv
  <2>2. CASE pc' = [pc EXCEPT ![p] = "unlink"] /\ UNCHANGED <<call, readers>>
    <3>1. pc'[p] = "unlink" /\ call'[p] = c /\ p \in readers'
      BY <2>2, <1>1, <1>3, <1>4, Zenon DEF TypeOK
    <3>2. TabFor(call[p])' = tab
      BY <3>1, <1>2, <1>7, Zenon DEF TabFor, TabOf
    <3>3. writer' = NULL /\ old'[p] = NULL /\ name'[tab] # NULL /\ tab_mmap'[p][tab] = name'[tab]
          /\ count_mmap'[p] = 1 + Cardinality(MappedBy(p)') + 0
      BY <2>1, <1>4, <1>5, <1>7, Zenon DEF Alone
    <3> QED BY <3>1, <3>2, <3>3, <1>4, Zenon DEF ProcInv, Working
  <2>3. CASE pc' = [pc EXCEPT ![p] = "idle"] /\ readers' = readers \ {p}
    <3>1. pc'[p] = "idle" /\ p \notin readers'
      BY <2>3, <1>3, Zenon DEF TypeOK
    <3>2. count_mmap'[p] = 1 + Cardinality(MappedBy(p)')
      BY <2>1, <1>7, MappedFinite
    <3> QED BY <3>1, <3>2, <1>5, <1>7, CalmLemma, Zenon
  <2> QED BY <2>2, <2>3, <1>9, Zenon
<1>13. TypeOK'
  <2>1. /\ call' \in [Procs -> Puts \cup Wanted({"find", "copy"}) \cup {NULL}]
        /\ pc' \in [Procs -> {"idle", "put", "search", "unlink", "create", "copy", "exited"}]
        /\ readers' \subseteq Procs
    BY <1>3, <1>9, Zenon DEF TypeOK
  <2>2. reply' \in Vals \cup {NULL}
    <3>1. found \subseteq Refs(t) /\ t \in Tables
      <4>1. Fits(tabs, file[name[tab]], tab)
        BY <1>3, <1>4, <1>5, Zenon DEF WindowInv
      <4>2. t = file[name[tab]]
        BY <1>1, <1>2, <1>5, Zenon
      <4> QED BY <4>1, <4>2, <1>1, Zenon DEF Fits, Matches
    <3>2. found # {} => First(found) \in Refs(t)
      BY <3>1, FirstLemma, RefsFinite, Zenon
    <3>3. found # {} => t.ref[First(found)] \in Entries
      BY <3>1, <3>2, RefsLemma, Zenon
    <3>4. reply' = IF found = {} THEN NULL ELSE t.ref[First(found)].val
      BY <1>1, Zenon
    <3> QED BY <3>3, <3>4, Zenon DEF Entries
  <2>3. missed' \in BOOLEAN
    BY <1>1, Zenon
  <2> QED BY <2>1, <2>2, <2>3, <1>3, <1>7, Zenon DEF TypeOK
<1>14. ASSUME NEW q \in Procs PROVE ProcInv(q)'
  BY <1>4, <1>10, <1>12, OthersLemma, Zenon
<1> QED BY <1>8, <1>11, <1>13, <1>14, Zenon DEF IInv

\* The name goes, and the file stays the one that p copies from.
LEMMA UnlinkIInv ==
  ASSUME OneGetter, IInv, NEW p \in Procs, Unlink(p)
  PROVE  IInv' /\ Store' = Store
<1>1. PICK tab, i : tab = TabFor(call[p]) /\ i = name[tab]
  BY Zenon
<1>2. TypeOK /\ WindowInv /\ MapInv /\ ~missed /\ ProcInv(p) /\ pc[p] = "unlink"
  BY Zenon DEF IInv, Unlink
<1>3. /\ Alone(p) /\ p \in Getters /\ p \in readers /\ call[p] \in Wanted({"find", "copy"})
      /\ tab \in Tabs /\ tab < tabs_used
  <2>1. pc[p] \in Working
    BY <1>2, Zenon DEF Working
  <2> QED BY <2>1, <1>1, ReaderLemma, Zenon
<1>4. i # NULL /\ tab_mmap[p][tab] = i /\ old[p] = NULL /\ Mapped(p, tab) = i /\ i \in Inodes
  <2>1. i # NULL /\ tab_mmap[p][tab] = i /\ old[p] = NULL
    BY <1>1, <1>2, Zenon DEF ProcInv
  <2>2. i \in Inodes
    BY <2>1, <1>1, <1>2, <1>3, Zenon DEF TypeOK
  <2> QED BY <2>1, <2>2, <1>1, Zenon DEF Mapped
<1>5. \A q \in Procs : old[q] = NULL
  BY <1>3, <1>4, Zenon DEF Alone
<1>6. /\ old' = [old EXCEPT ![p] = i] /\ name' = [name EXCEPT ![tab] = NULL]
      /\ tab_mmap' = [tab_mmap EXCEPT ![p][tab] = NULL]
      /\ pc' = [pc EXCEPT ![p] = "create"] /\ reply' = NULL
      /\ UNCHANGED <<call, count_mmap, tabs, tabs_used, file, readers, writer, missed>>
  BY <1>1, <1>4, Zenon DEF Unlink, Goto
<1>7. /\ name' \in [Tabs -> Inodes \cup {NULL}]
      /\ \A u \in Tabs : name'[u] = IF u = tab THEN NULL ELSE name[u]
  BY <1>2, <1>3, <1>6, Zenon DEF TypeOK
<1>8. /\ tab_mmap' \in [Procs -> [Tabs -> Inodes \cup {NULL, REPLACED}]]
      /\ \A q \in Procs, u \in Tabs : tab_mmap'[q][u] =
           IF q = p /\ u = tab THEN NULL ELSE tab_mmap[q][u]
  BY <1>2, <1>3, <1>6, Zenon DEF TypeOK
<1>9. /\ old' \in [Procs -> Inodes \cup {NULL}] /\ old'[p] = i
      /\ pc' \in [Procs -> {"idle", "put", "search", "unlink", "create", "copy", "exited"}]
      /\ pc'[p] = "create"
  BY <1>2, <1>4, <1>6, Zenon DEF TypeOK
<1>10. TabFor(call[p])' = tab
  BY <1>1, <1>6, Zenon DEF TabFor, TabOf
<1>11. Others(p)
  BY <1>2, <1>6, <1>8, Zenon DEF Others, TypeOK
<1>12. WindowInv'
  <2>1. \A u \in Tabs : u < tabs_used /\ u # tab => name'[u] # NULL
    BY <1>2, <1>3, <1>7, Zenon DEF WindowInv, Alone
  <2>2. \A u \in Tabs : u < tabs_used /\ name'[u] = NULL =>
          \E q \in Procs : pc'[q] = "create" /\ TabFor(call[q])' = u
    BY <2>1, <1>9, <1>10, Zenon
  <2>3. \A u \in Tabs : name'[u] # NULL => name'[u] = name[u] /\ Fits(tabs, file[name[u]], u)
    BY <1>2, <1>7, Zenon DEF WindowInv
  <2>4. \A u \in Tabs : u >= tabs_used => name'[u] = NULL
    BY <1>2, <1>7, Zenon DEF WindowInv
  <2> QED BY <2>2, <2>3, <2>4, <1>2, <1>6, ZenonT(30) DEF WindowInv
<1>13. MapInv'
  <2>1. ASSUME NEW q \in Procs, NEW u \in Tabs
        PROVE  /\ u >= tabs_used => tab_mmap'[q][u] = NULL
               /\ \/ tab_mmap'[q][u] \in {NULL, REPLACED, name'[u]}
                  \/ u = tab /\ tab_mmap'[q][u] = i
    <3>1. tab_mmap[q][u] \in {NULL, REPLACED, name[u]} /\ (u >= tabs_used => tab_mmap[q][u] = NULL)
      BY <1>2, <1>5, Zenon DEF MapInv
    <3>2. tab_mmap'[q][u] = NULL \/ tab_mmap'[q][u] = tab_mmap[q][u]
      BY <1>8, Zenon
    <3> QED BY <3>1, <3>2, <1>1, <1>7, Zenon
  <2>2. i # NULL /\ old'[p] = i /\ TabFor(call[p])' = tab /\ tabs_used' = tabs_used
    BY <1>4, <1>6, <1>9, <1>10, Zenon
  <2>3. ASSUME NEW q \in Procs, NEW u \in Tabs
        PROVE  /\ u >= tabs_used' => tab_mmap'[q][u] = NULL
               /\ \/ tab_mmap'[q][u] \in {NULL, REPLACED, name'[u]}
                  \/ \E r \in Procs : /\ old'[r] # NULL /\ TabFor(call[r])' = u
                                      /\ tab_mmap'[q][u] = old'[r]
    BY <2>1, <2>2, Zenon
  <2> QED BY <2>3, Zenon DEF MapInv
<1>14. ProcInv(p)'
  <2>1. MappedBy(p)' = MappedBy(p) \ {tab} /\ tab \in MappedBy(p)
    BY <1>3, <1>4, <1>8, Zenon DEF MappedBy
  <2>2. count_mmap'[p] = 1 + Cardinality(MappedBy(p)') + 1
    <3>1. count_mmap[p] = 1 + Cardinality(MappedBy(p)) + 0
      BY <1>2, <1>4, Zenon DEF ProcInv
    <3>2. Cardinality(MappedBy(p) \ {tab}) = Cardinality(MappedBy(p)) - 1
      BY <2>1, MappedFinite, FS_RemoveElement, Zenon
    <3> QED BY <3>1, <3>2, <2>1, <1>6, MappedFinite
  <2>3. Fits(tabs, file[i], tab) /\ \A u \in Tabs : name'[u] # i
    BY <1>1, <1>2, <1>3, <1>4, <1>7, Zenon DEF WindowInv
  <2>4. Fits(tabs', file'[old'[p]], tab) /\ (\A u \in Tabs : name'[u] # old'[p])
    BY <2>3, <1>6, <1>9, Zenon
  <2>5. p \in readers' /\ writer' = NULL /\ call'[p] \in Wanted({"find", "copy"})
    BY <1>3, <1>6, Zenon DEF Alone
  <2>6. name'[tab] = NULL
    BY <1>3, <1>7, Zenon
  <2>7. tab_mmap'[p][tab] = NULL
    BY <1>3, <1>8, Zenon
  <2>8. old'[p] # NULL
    BY <1>4, <1>9, Zenon
  <2> QED BY <2>2, <2>4, <2>5, <2>6, <2>7, <2>8, <1>3, <1>9, <1>10, Zenon DEF ProcInv, Working
<1>15. TypeOK'
  BY <1>2, <1>6, <1>7, <1>8, <1>9, Zenon DEF TypeOK
<1>16. ASSUME NEW q \in Procs PROVE ProcInv(q)'
  BY <1>3, <1>11, <1>14, OthersLemma, Zenon
<1>17. Store' = Store
  <2>1. Live(i) /\ Live(i)'
    BY <1>1, <1>3, <1>4, <1>9, Zenon DEF Live
  <2>2. ASSUME NEW j \in Inodes, j # i PROVE Live(j)' <=> Live(j)
    <3>1. (\E u \in Tabs : name'[u] = j) <=> \E u \in Tabs : name[u] = j
      BY <2>2, <1>1, <1>3, <1>7, NullsAssumption, Zenon
    <3>2. \A q \in Procs : old[q] # j /\ old'[q] # j
      BY <2>2, <1>2, <1>5, <1>6, NullsAssumption, Zenon DEF TypeOK
    <3> QED BY <3>1, <3>2, Zenon DEF Live
  <2>3. \A j : Live(j)' <=> Live(j)
    BY <2>1, <2>2, Zenon DEF Live
  <2>4. \A e, s : Holds(e, s)' <=> Holds(e, s)
    BY <2>3, <1>6, Zenon DEF Holds
  <2> QED BY <2>4, StoreSame, Zenon
<1> QED BY <1>2, <1>6, <1>12, <1>13, <1>15, <1>16, <1>17, Zenon DEF IInv

\* The table has a new file, which is empty.
LEMMA CreateIInv ==
  ASSUME OneGetter, IInv, NEW p \in Procs, Create(p)
  PROVE  IInv' /\ Store' = Store
<1>1. PICK tab, n : tab = TabFor(call[p]) /\ n = NewInode
  BY Zenon
<1>2. TypeOK /\ WindowInv /\ MapInv /\ ~missed /\ ProcInv(p) /\ pc[p] = "create"
  BY Zenon DEF IInv, Create
<1>3. /\ Alone(p) /\ p \in Getters /\ p \in readers /\ call[p] \in Wanted({"find", "copy"})
      /\ tab \in Tabs /\ tab < tabs_used
  <2>1. pc[p] \in Working
    BY <1>2, Zenon DEF Working
  <2> QED BY <2>1, <1>1, ReaderLemma, Zenon
<1>4. name[tab] = NULL /\ tab_mmap[p][tab] = NULL /\ old[p] \in Inodes /\ old[p] # NULL
  BY <1>1, <1>2, Zenon DEF ProcInv, TypeOK
<1>5. n \in FreeInodes
  <2>1. PICK used, from : used = Tabs \ {tab} /\ from = {old[p]}
    BY Zenon
  <2>2. Cardinality(used) = TABS - 1 /\ Cardinality(from) = 1
    BY <2>1, <1>3, Constants, FS_RemoveElement, FS_Singleton, Zenon
  <2>3. Cardinality(used) + Cardinality(from) <= TABS
    BY <2>2, Constants
  <2>4. /\ used \in SUBSET Tabs /\ (\A t \in Tabs : name[t] # NULL => t \in used)
        /\ from \in SUBSET Inodes /\ (\A q \in Procs : old[q] # NULL => old[q] \in from)
    BY <2>1, <1>3, <1>4, Zenon DEF Alone
  <2> QED BY <2>3, <2>4, <1>1, <1>2, FreeFiles, Zenon
<1>6. /\ n \in Inodes /\ n # NULL /\ n # old[p] /\ \A t \in Tabs : name[t] # n
  BY <1>2, <1>5, NewInodeLemma, NullsAssumption, Zenon
<1>7. /\ name' = [name EXCEPT ![tab] = n] /\ file' = [file EXCEPT ![n] = NewTable]
      /\ tab_mmap' = [tab_mmap EXCEPT ![p][tab] = n]
      /\ count_mmap' = [count_mmap EXCEPT ![p] = @ + 1]
      /\ pc' = [pc EXCEPT ![p] = "copy"] /\ reply' = NULL
      /\ UNCHANGED <<call, tabs, tabs_used, readers, writer, old, missed>>
  BY <1>1, <1>4, Zenon DEF Create, Goto, Map, FirstMap
<1>8. /\ name' \in [Tabs -> Inodes \cup {NULL}]
      /\ \A u \in Tabs : name'[u] = IF u = tab THEN n ELSE name[u]
  BY <1>2, <1>3, <1>6, <1>7, Zenon DEF TypeOK
<1>9. /\ tab_mmap' \in [Procs -> [Tabs -> Inodes \cup {NULL, REPLACED}]]
      /\ \A q \in Procs, u \in Tabs : tab_mmap'[q][u] =
           IF q = p /\ u = tab THEN n ELSE tab_mmap[q][u]
  BY <1>2, <1>3, <1>6, <1>7, Zenon DEF TypeOK
<1>10. /\ file' \in [Inodes -> Tables] /\ file'[n] = NewTable
       /\ \A j \in Inodes : j # n => file'[j] = file[j]
  BY <1>2, <1>6, <1>7, NewTableLemma, Zenon DEF TypeOK
<1>11. /\ count_mmap' \in [Procs -> Nat] /\ count_mmap'[p] = count_mmap[p] + 1
       /\ pc' \in [Procs -> {"idle", "put", "search", "unlink", "create", "copy", "exited"}]
       /\ pc'[p] = "copy"
  BY <1>2, <1>7 DEF TypeOK
<1>12. TabFor(call[p])' = tab
  BY <1>1, <1>7, Zenon DEF TabFor, TabOf
<1>13. Others(p)
  BY <1>2, <1>7, <1>9, Zenon DEF Others, TypeOK
<1>14. WindowInv'
  <2>1. \A u \in Tabs : u < tabs_used => name'[u] # NULL
    <3>1. \A u \in Tabs : u < tabs_used /\ name[u] = NULL => u = tab
      BY <1>1, <1>2, <1>3, Zenon DEF WindowInv, Alone
    <3> QED BY <3>1, <1>6, <1>8, Zenon
  <2>2. \A u \in Tabs : name'[u] # NULL => Fits(tabs, file'[name'[u]], u)
    <3>1. ASSUME NEW u \in Tabs, u # tab, name[u] # NULL
          PROVE  Fits(tabs, file'[name[u]], u)
      <4>1. name[u] \in Inodes /\ name[u] # n
        BY <3>1, <1>2, <1>6, Zenon DEF TypeOK
      <4> QED BY <4>1, <3>1, <1>2, <1>10, Zenon DEF WindowInv
    <3>2. Fits(tabs, file'[n], tab)
      BY <1>10, FitsNew, Zenon
    <3> QED BY <3>1, <3>2, <1>8, Zenon
  <2>3. \A u \in Tabs : u >= tabs_used => name'[u] = NULL
    <3>1. \A u \in Tabs : u >= tabs_used => u # tab
      BY <1>2, <1>3, Constants DEF TypeOK
    <3> QED BY <3>1, <1>2, <1>8, Zenon DEF WindowInv
  <2>4. \A t, u \in Tabs : name'[t] # NULL /\ name'[t] = name'[u] => t = u
    BY <1>2, <1>6, <1>8, Zenon DEF WindowInv
  <2> QED BY <2>1, <2>2, <2>3, <2>4, <1>2, <1>7, Zenon DEF WindowInv
<1>15. MapInv'
  <2>1. ASSUME NEW q \in Procs, NEW u \in Tabs
        PROVE  /\ u >= tabs_used => tab_mmap'[q][u] = NULL
               /\ \/ tab_mmap'[q][u] \in {NULL, REPLACED, name'[u]}
                  \/ u = tab /\ tab_mmap'[q][u] = old[p]
    <3>1. CASE q = p /\ u = tab
      <4>1. ~(u >= tabs_used)
        BY <3>1, <1>2, <1>3, Constants DEF TypeOK
      <4> QED BY <4>1, <3>1, <1>8, <1>9, Zenon
    <3>2. CASE ~(q = p /\ u = tab)
      <4>1. tab_mmap'[q][u] = tab_mmap[q][u]
        BY <3>2, <1>9, Zenon
      <4>2. \/ tab_mmap[q][u] \in {NULL, REPLACED, name[u]}
            \/ u = tab /\ tab_mmap[q][u] = old[p]
        BY <1>1, <1>2, <1>3, Zenon DEF MapInv, Alone
      <4>3. u >= tabs_used => tab_mmap[q][u] = NULL
        BY <1>2, Zenon DEF MapInv
      <4> QED BY <4>1, <4>2, <4>3, <1>4, <1>8, Zenon
    <3> QED BY <3>1, <3>2, Zenon
  <2>2. old[p] # NULL /\ old'[p] = old[p] /\ TabFor(call[p])' = tab /\ tabs_used' = tabs_used
    BY <1>4, <1>7, <1>12, Zenon
  <2>3. ASSUME NEW q \in Procs, NEW u \in Tabs
        PROVE  /\ u >= tabs_used' => tab_mmap'[q][u] = NULL
               /\ \/ tab_mmap'[q][u] \in {NULL, REPLACED, name'[u]}
                  \/ \E r \in Procs : /\ old'[r] # NULL /\ TabFor(call[r])' = u
                                      /\ tab_mmap'[q][u] = old'[r]
    BY <2>1, <2>2, Zenon
  <2> QED BY <2>3, Zenon DEF MapInv
<1>16. ProcInv(p)'
  <2>1. MappedBy(p)' = MappedBy(p) \cup {tab}
    BY <1>3, <1>6, <1>9, Zenon DEF MappedBy
  <2>2. count_mmap'[p] = 1 + Cardinality(MappedBy(p)') + 1
    <3>1. count_mmap[p] = 1 + Cardinality(MappedBy(p)) + 1
      BY <1>2, <1>4, Zenon DEF ProcInv
    <3>2. Cardinality(MappedBy(p)') = Cardinality(MappedBy(p)) + 1
      BY <2>1, <1>3, <1>4, CountLemma, Zenon DEF FirstMap
    <3> QED BY <3>1, <3>2, <1>11, MappedFinite
  <2>3. Fits(tabs, file[old[p]], tab) /\ \A u \in Tabs : name[u] # old[p]
    BY <1>1, <1>2, <1>4, Zenon DEF ProcInv
  <2>4. Fits(tabs', file'[old'[p]], tab) /\ (\A u \in Tabs : name'[u] # old'[p])
    BY <2>3, <1>4, <1>6, <1>7, <1>8, <1>10, Zenon
  <2>5. Refs(file'[old'[p]]) \cap Refs(file'[name'[tab]]) = {}
    BY <1>3, <1>8, <1>10, NewTableLemma, Zenon
  <2>6. /\ p \in readers' /\ writer' = NULL /\ call'[p] \in Wanted({"find", "copy"})
        /\ name'[tab] # NULL /\ tab_mmap'[p][tab] = name'[tab] /\ old'[p] # NULL
    BY <1>3, <1>4, <1>6, <1>7, <1>8, <1>9, Zenon DEF Alone
  <2> QED BY <2>2, <2>4, <2>5, <2>6, <1>3, <1>11, <1>12, Zenon DEF ProcInv, Working
<1>17. TypeOK'
  BY <1>2, <1>7, <1>8, <1>9, <1>10, <1>11, Zenon DEF TypeOK
<1>18. ASSUME NEW q \in Procs PROVE ProcInv(q)'
  BY <1>3, <1>13, <1>16, OthersLemma, Zenon
<1>19. Store' = Store
  <2>1. ~Live(n) /\ \A s \in Slots : file'[n].ref[s] = NULL
    BY <1>2, <1>5, <1>10, NewInodeLemma DEF Live, NewTable
  <2>2. ASSUME NEW j \in Inodes, j # n PROVE Live(j)' <=> Live(j)
    <3>1. (\E u \in Tabs : name'[u] = j) <=> \E u \in Tabs : name[u] = j
      BY <2>2, <1>3, <1>4, <1>8, NullsAssumption, Zenon
    <3> QED BY <3>1, <1>7, Zenon DEF Live
  <2>3. ASSUME NEW e, NEW s PROVE Holds(e, s)' <=> Holds(e, s)
    BY <2>1, <2>2, <1>10, Zenon DEF Holds, Live
  <2> QED BY <2>3, StoreSame, Zenon
<1> QED BY <1>2, <1>7, <1>14, <1>15, <1>17, <1>18, <1>19, Zenon DEF IInv

\* A ref goes from one file of the table to the other.
LEMMA CopyRefIInv ==
  ASSUME OneGetter, IInv, NEW p \in Procs, CopyRef(p)
  PROVE  IInv' /\ Store' = Store
<1>1. PICK tab, i, n, s, e :
        /\ tab = TabFor(call[p]) /\ i = old[p] /\ n = tab_mmap[p][tab]
        /\ s = (CHOOSE r \in Refs(file[i]) : TRUE) /\ e = file[i].ref[s]
  BY Zenon
<1>2. TypeOK /\ WindowInv /\ MapInv /\ ~missed /\ ProcInv(p) /\ pc[p] = "copy"
  BY Zenon DEF IInv, CopyRef
<1>3. /\ Alone(p) /\ p \in Getters /\ p \in readers /\ call[p] \in Wanted({"find", "copy"})
      /\ tab \in Tabs /\ tab < tabs_used
  <2>1. pc[p] \in Working
    BY <1>2, Zenon DEF Working
  <2> QED BY <2>1, <1>1, ReaderLemma, Zenon
<1>4. /\ i # NULL /\ n # NULL /\ n = name[tab] /\ i \in Inodes /\ n \in Inodes /\ i # n
      /\ Fits(tabs, file[i], tab) /\ Fits(tabs, file[n], tab)
      /\ (\A u \in Tabs : name[u] # i) /\ Refs(file[i]) \cap Refs(file[n]) = {}
  <2>1. i # NULL /\ n # NULL /\ n = name[tab]
    BY <1>1, <1>2, Zenon DEF ProcInv
  <2>2. /\ Fits(tabs, file[i], tab) /\ (\A u \in Tabs : name[u] # i)
        /\ Refs(file[i]) \cap Refs(file[n]) = {}
    BY <2>1, <1>1, <1>2, Zenon DEF ProcInv
  <2>3. i \in Inodes /\ n \in Inodes
    BY <2>1, <1>1, <1>2, <1>3, Zenon DEF TypeOK
  <2> QED BY <2>1, <2>2, <2>3, <1>2, <1>3, Zenon DEF WindowInv
<1>5. /\ s \in Refs(file[i])
      /\ file' = [file EXCEPT ![n] = Stored(@, s, e), ![i] = Deleted(@, s)] /\ reply' = NULL
      /\ UNCHANGED <<tabs, tabs_used, name, readers, writer, tab_mmap, count_mmap, pc, call,
                     old, missed>>
  BY <1>1, Zenon DEF CopyRef
<1>6. /\ e \in Entries /\ s \in Slots \ Refs(file[n]) /\ tabs[e.tab] = tab
      /\ e.tab = Tab2Of[e.key] /\ s[1] = RowOf[e.key]
      /\ file[i] \in Tables /\ file[n] \in Tables
  <2>1. file[i] \in Tables /\ file[n] \in Tables
    BY <1>4, Zenon DEF Fits
  <2>2. e \in Entries /\ s \in Slots
    BY <2>1, <1>1, <1>5, RefsLemma, Zenon
  <2>3. tabs[e.tab] = tab /\ e.tab = Tab2Of[e.key] /\ s[1] = RowOf[e.key]
    BY <1>1, <1>4, <1>5, ZenonT(30) DEF Fits
  <2>4. s \notin Refs(file[n])
    BY <1>4, <1>5, Zenon
  <2> QED BY <2>1, <2>2, <2>3, <2>4, Zenon
<1>7. PICK ti, tn : ti = Deleted(file[i], s) /\ tn = Stored(file[n], s, e)
  BY Zenon
<1>8. Fits(tabs, tn, tab) /\ \A r \in Slots : tn.ref[r] = IF r = s THEN e ELSE file[n].ref[r]
  <2>1. Fits(tabs, tn, tab)
    BY <1>4, <1>6, <1>7, FitsStored, Zenon
  <2>2. s \in Slots /\ tn.ref = [file[n].ref EXCEPT ![s] = e]
    BY <1>6, <1>7, StoredLemma
  <2> QED BY <2>1, <2>2, <1>6, Zenon DEF Tables
<1>9. Fits(tabs, ti, tab) /\ \A r \in Slots : ti.ref[r] = IF r = s THEN NULL ELSE file[i].ref[r]
  <2>1. Fits(tabs, ti, tab) /\ ti.ref = [file[i].ref EXCEPT ![s] = NULL]
    BY <1>4, <1>5, <1>7, FitsDeleted
  <2> QED BY <2>1, <1>6, Zenon DEF Tables
<1>10. file' = [file EXCEPT ![n] = tn, ![i] = ti]
  BY <1>4, <1>5, <1>7, Zenon
<1>11. /\ file' \in [Inodes -> Tables] /\ file'[i] = ti /\ file'[n] = tn
       /\ \A j \in Inodes : j # i /\ j # n => file'[j] = file[j]
  <2>1. ti \in Tables /\ tn \in Tables
    BY <1>8, <1>9, Zenon DEF Fits
  <2> QED BY <2>1, <1>2, <1>4, <1>10, Zenon DEF TypeOK
<1>12. Others(p)
  BY <1>5, Zenon DEF Others
<1>13. \A q \in Procs : TabFor(call[q])' = TabFor(call[q])
  BY <1>5, Zenon DEF TabFor, TabOf
<1>14. WindowInv'
  <2>1. ASSUME NEW u \in Tabs, name[u] # NULL PROVE Fits(tabs, file'[name[u]], u)
    <3>1. CASE u = tab
      BY <3>1, <1>4, <1>8, <1>11, Zenon
    <3>2. CASE u # tab
      <4>1. name[u] # i /\ name[u] # n /\ name[u] \in Inodes
        BY <3>2, <2>1, <1>2, <1>3, <1>4, Zenon DEF WindowInv, TypeOK
      <4> QED BY <4>1, <2>1, <1>2, <1>11, Zenon DEF WindowInv
    <3> QED BY <3>1, <3>2, Zenon
  <2>2. \A u \in Tabs : u < tabs_used => name[u] # NULL
    BY <1>2, <1>3, Zenon DEF WindowInv, Alone
  <2> QED BY <2>1, <2>2, <1>2, <1>5, Zenon DEF WindowInv
<1>15. MapInv'
  BY <1>2, <1>5, <1>13, ZenonT(30) DEF MapInv
<1>16. ProcInv(p)'
  <2>1. MappedBy(p)' = MappedBy(p)
    BY <1>5, Zenon DEF MappedBy
  <2>2. Refs(ti) \cap Refs(tn) = {}
    BY <1>4, <1>8, <1>9, Zenon DEF Refs
  <2>3. /\ Fits(tabs', file'[old'[p]], tab)
        /\ Refs(file'[old'[p]]) \cap Refs(file'[name'[tab]]) = {}
        /\ \A u \in Tabs : name'[u] # old'[p]
    BY <2>2, <1>1, <1>4, <1>5, <1>9, <1>11, Zenon
  <2>4. count_mmap'[p] = 1 + Cardinality(MappedBy(p)') + 1
    BY <2>1, <1>1, <1>2, <1>4, <1>5, Zenon DEF ProcInv
  <2>5. /\ pc'[p] = "copy" /\ p \in readers' /\ writer' = NULL
        /\ call'[p] \in Wanted({"find", "copy"}) /\ TabFor(call[p])' = tab
        /\ name'[tab] # NULL /\ tab_mmap'[p][tab] = name'[tab] /\ old'[p] # NULL
    BY <1>1, <1>2, <1>3, <1>4, <1>5, <1>13, Zenon DEF Alone
  <2> QED BY <2>3, <2>4, <2>5, <1>3, Zenon DEF ProcInv, Working
<1>17. TypeOK'
  BY <1>2, <1>5, <1>11, ZenonT(30) DEF TypeOK
<1>18. ASSUME NEW q \in Procs PROVE ProcInv(q)'
  BY <1>3, <1>12, <1>16, OthersLemma, Zenon
<1>19. Store' = Store
  <2>1. \A j : Live(j)' <=> Live(j)
    BY <1>5, Zenon DEF Live
  <2>2. Live(i) /\ Live(n)
    BY <1>1, <1>3, <1>4, Zenon DEF Live
  <2>3. file[n].ref[s] = NULL /\ s \in Slots
    BY <1>6, Zenon DEF Refs
  <2>4. ASSUME NEW e1, NEW r \in Slots, e1 # NULL
        PROVE  (\E j : Live(j) /\ file'[j].ref[r] = e1) <=> \E j : Live(j) /\ file[j].ref[r] = e1
    <3>1. \A j : Live(j) /\ j # i /\ j # n => file'[j] = file[j]
      BY <1>11, Zenon DEF Live
    <3>2. /\ file'[i].ref[r] = IF r = s THEN NULL ELSE file[i].ref[r]
          /\ file'[n].ref[r] = IF r = s THEN e ELSE file[n].ref[r]
      BY <1>8, <1>9, <1>11, Zenon
    <3>3. CASE r = s
      <4>1. /\ file[i].ref[r] = e /\ file[n].ref[r] = NULL
            /\ file'[i].ref[r] = NULL /\ file'[n].ref[r] = e
        BY <3>2, <3>3, <2>3, <1>1, Zenon
      <4>2. ASSUME NEW j, Live(j), file'[j].ref[r] = e1 PROVE \E k : Live(k) /\ file[k].ref[r] = e1
        BY <4>1, <4>2, <3>1, <2>2, <2>4, Zenon
      <4>3. ASSUME NEW j, Live(j), file[j].ref[r] = e1 PROVE \E k : Live(k) /\ file'[k].ref[r] = e1
        BY <4>1, <4>3, <3>1, <2>2, <2>4, Zenon
      <4> QED BY <4>2, <4>3, Zenon
    <3>4. CASE r # s
      BY <3>1, <3>2, <3>4, Zenon
    <3> QED BY <3>3, <3>4, Zenon
  <2>5. \A e1, r : Holds(e1, r)' <=> Holds(e1, r)
    BY <2>1, <2>4, Zenon DEF Holds
  <2> QED BY <2>5, StoreSame, Zenon
<1> QED BY <1>2, <1>5, <1>14, <1>15, <1>17, <1>18, <1>19, Zenon DEF IInv

\* The old file is gone, and its mappings are marked as replaced.
LEMMA EndShrinkIInv ==
  ASSUME OneGetter, IInv, NEW p \in Procs, EndShrink(p)
  PROVE  IInv' /\ Store' = Store
<1>1. PICK tab, i : tab = TabFor(call[p]) /\ i = old[p]
  BY Zenon
<1>2. TypeOK /\ WindowInv /\ MapInv /\ ~missed /\ ProcInv(p) /\ pc[p] = "copy"
  BY Zenon DEF IInv, EndShrink
<1>3. /\ Alone(p) /\ tab \in Tabs /\ tab < tabs_used
  <2>1. pc[p] \in Working
    BY <1>2, Zenon DEF Working
  <2> QED BY <2>1, <1>1, ReaderLemma, Zenon
<1>4. /\ i \in Inodes /\ i # NULL /\ \A u \in Tabs : name[u] # i
  BY <1>1, <1>2, Zenon DEF ProcInv, TypeOK
<1>5. /\ file' = [file EXCEPT ![i] = NewTable] /\ tab_mmap' = Replaced(i)
      /\ old' = [old EXCEPT ![p] = NULL] /\ count_mmap' = [count_mmap EXCEPT ![p] = @ - 1]
      /\ readers' = readers \ {p} /\ pc' = [pc EXCEPT ![p] = "idle"]
      /\ call' = [call EXCEPT ![p] = NULL] /\ reply' = NULL
      /\ UNCHANGED <<tabs, tabs_used, name, writer, missed>>
  BY <1>1, Zenon DEF EndShrink, Return
<1>6. /\ tab_mmap' \in [Procs -> [Tabs -> Inodes \cup {NULL, REPLACED}]]
      /\ \A q \in Procs, u \in Tabs : tab_mmap'[q][u] =
           IF tab_mmap[q][u] = i THEN REPLACED ELSE tab_mmap[q][u]
  BY <1>2, <1>5, Zenon DEF TypeOK, Replaced
<1>7. /\ file' \in [Inodes -> Tables] /\ \A j \in Inodes : j # i => file'[j] = file[j]
  BY <1>2, <1>5, NewTableLemma, Zenon DEF TypeOK
<1>8. count_mmap[p] = 1 + Cardinality(MappedBy(p)) + 1
  BY <1>1, <1>2, <1>4, Zenon DEF ProcInv
<1>9. \A q \in Procs, u \in Tabs : tab_mmap'[q][u] = NULL <=> tab_mmap[q][u] = NULL
  BY <1>4, <1>6, NullsAssumption, Zenon
<1>10. Others(p)
  BY <1>2, <1>5, <1>9, Zenon DEF Others, TypeOK
<1>11. WindowInv'
  <2>1. ASSUME NEW u \in Tabs, name[u] # NULL PROVE Fits(tabs, file'[name[u]], u)
    <3>1. name[u] # i /\ name[u] \in Inodes
      BY <2>1, <1>2, <1>4, Zenon DEF TypeOK
    <3> QED BY <3>1, <2>1, <1>2, <1>7, Zenon DEF WindowInv
  <2>2. \A u \in Tabs : u < tabs_used => name[u] # NULL
    BY <1>2, <1>3, Zenon DEF WindowInv, Alone
  <2> QED BY <2>1, <2>2, <1>2, <1>5, Zenon DEF WindowInv
<1>12. MapInv'
  <2>1. ASSUME NEW q \in Procs, NEW u \in Tabs
        PROVE  /\ u >= tabs_used => tab_mmap'[q][u] = NULL
               /\ tab_mmap'[q][u] \in {NULL, REPLACED, name[u]}
    <3>1. tab_mmap[q][u] \in {NULL, REPLACED, name[u]} \/ tab_mmap[q][u] = i
      BY <1>1, <1>2, <1>3, Zenon DEF MapInv, Alone
    <3>2. u >= tabs_used => tab_mmap[q][u] = NULL
      BY <1>2, Zenon DEF MapInv
    <3> QED BY <3>1, <3>2, <1>6, <1>9, Zenon
  <2> QED BY <2>1, <1>5, Zenon DEF MapInv
<1>13. ProcInv(p)'
  <2>1. MappedBy(p)' = MappedBy(p)
    BY <1>9, Zenon DEF MappedBy
  <2>2. count_mmap'[p] = 1 + Cardinality(MappedBy(p)')
    BY <2>1, <1>2, <1>5, <1>8, MappedFinite DEF TypeOK
  <2>3. pc'[p] = "idle" /\ p \notin readers' /\ old'[p] = NULL
    BY <1>2, <1>5, Zenon DEF TypeOK
  <2> QED BY <2>2, <2>3, CalmLemma, Zenon
<1>14. TypeOK'
  <2>1. /\ count_mmap' \in [Procs -> Nat] /\ readers' \subseteq Procs
        /\ old' \in [Procs -> Inodes \cup {NULL}]
    BY <1>2, <1>5, <1>8, MappedFinite DEF TypeOK
  <2>2. /\ call' \in [Procs -> Puts \cup Wanted({"find", "copy"}) \cup {NULL}]
        /\ pc' \in [Procs -> {"idle", "put", "search", "unlink", "create", "copy", "exited"}]
    BY <1>2, <1>5, Zenon DEF TypeOK
  <2> QED BY <2>1, <2>2, <1>2, <1>5, <1>6, <1>7, ZenonT(30) DEF TypeOK
<1>15. ASSUME NEW q \in Procs PROVE ProcInv(q)'
  BY <1>3, <1>10, <1>13, OthersLemma, ZenonT(30)
<1>16. Store' = Store
  <2>1. \A q \in Procs : old'[q] = NULL /\ (old[q] = NULL \/ old[q] = i)
    BY <1>1, <1>2, <1>3, <1>5, Zenon DEF TypeOK, Alone
  <2>2. \A j : Live(j)' <=> Live(j) /\ j # i
    BY <2>1, <1>4, <1>5, NullsAssumption, Zenon DEF Live
  <2>3. \A s \in Slots : file[i].ref[s] = NULL
    BY <1>1, Zenon DEF EndShrink, Refs
  <2>4. ASSUME NEW e, NEW s PROVE Holds(e, s)' <=> Holds(e, s)
    BY <2>2, <2>3, <1>7, Zenon DEF Holds, Live
  <2> QED BY <2>4, StoreSame, Zenon
<1> QED BY <1>2, <1>5, <1>11, <1>12, <1>14, <1>15, <1>16, Zenon DEF IInv

\* shf_detach whose count is right.
Unmaps(p) ==
  /\ tab_mmap' = [tab_mmap EXCEPT ![p] = [t \in Tabs |-> NULL]]
  /\ count_mmap' = [count_mmap EXCEPT ![p] = 1]
  /\ UNCHANGED <<pc, call>>

\* p unmaps its tables, whoever has the lock.
LEMMA UnmapsIInv ==
  ASSUME IInv, NEW p \in Procs, Unmaps(p), pc[p] = "idle", reply' = NULL,
         UNCHANGED <<tabs, tabs_used, name, file, readers, writer, old, missed>>
  PROVE  IInv'
<1>1. TypeOK /\ WindowInv /\ MapInv /\ ~missed /\ ProcInv(p) /\ pc[p] = "idle"
  BY Zenon DEF IInv
<1>2. old[p] = NULL /\ p \notin readers
  BY <1>1, Zenon DEF ProcInv, Working
<1>4. /\ tab_mmap' = [tab_mmap EXCEPT ![p] = [t \in Tabs |-> NULL]]
      /\ count_mmap' = [count_mmap EXCEPT ![p] = 1] /\ reply' = NULL
      /\ UNCHANGED <<tabs, tabs_used, name, file, readers, writer, pc, call, old, missed>>
  BY Zenon DEF Unmaps
<1>5. /\ tab_mmap' \in [Procs -> [Tabs -> Inodes \cup {NULL, REPLACED}]]
      /\ \A q \in Procs, u \in Tabs : tab_mmap'[q][u] = IF q = p THEN NULL ELSE tab_mmap[q][u]
      /\ count_mmap' \in [Procs -> Nat] /\ count_mmap'[p] = 1
      /\ \A q \in Procs : q # p => count_mmap'[q] = count_mmap[q]
  BY <1>1, <1>4, Zenon DEF TypeOK
<1>6. \A q \in Procs : TabFor(call[q])' = TabFor(call[q])
  BY <1>4, Zenon DEF TabFor, TabOf
<1>7. TypeOK'
  BY <1>1, <1>4, <1>5, Zenon DEF TypeOK
<1>8. WindowInv'
  BY <1>1, <1>4, <1>6, Zenon DEF WindowInv
<1>9. MapInv'
  <2>1. ASSUME NEW q \in Procs, NEW u \in Tabs
        PROVE  tab_mmap'[q][u] \in {NULL, tab_mmap[q][u]}
    BY <1>5, Zenon
  <2>2. ASSUME NEW q \in Procs, NEW u \in Tabs
        PROVE  /\ u >= tabs_used => tab_mmap'[q][u] = NULL
               /\ \/ tab_mmap'[q][u] \in {NULL, REPLACED, name'[u]}
                  \/ \E r \in Procs : /\ old'[r] # NULL /\ TabFor(call[r])' = u
                                      /\ tab_mmap'[q][u] = old'[r]
    <3>1. CASE tab_mmap'[q][u] = NULL
      BY <3>1, Zenon
    <3>2. CASE tab_mmap'[q][u] = tab_mmap[q][u]
      BY <3>2, <1>1, <1>4, <1>6, ZenonT(30) DEF MapInv
    <3> QED BY <3>1, <3>2, <2>1, Zenon
  <2>3. tabs_used' = tabs_used
    BY <1>4, Zenon
  <2> QED BY <2>2, <2>3, Zenon DEF MapInv
<1>10. ASSUME NEW q \in Procs, q # p PROVE ProcInv(q)'
  <2>1. \A u \in Tabs : tab_mmap'[q][u] = tab_mmap[q][u]
    BY <1>5, <1>10, Zenon
  <2>2. MappedBy(q)' = MappedBy(q) /\ count_mmap'[q] = count_mmap[q]
    BY <2>1, <1>5, <1>10, Zenon DEF MappedBy
  <2>3. /\ TabFor(call[q])' = TabFor(call[q]) /\ ProcInv(q)
        /\ pc[q] \in Working => TabFor(call[q]) \in Tabs
    BY <1>1, <1>6, TabForLemma, Zenon DEF IInv, ProcInv
  <2>4. pc[q] \in {"search", "unlink", "create", "copy"} =>
          tab_mmap'[q][TabFor(call[q])] = tab_mmap[q][TabFor(call[q])]
    BY <2>1, <2>3, Zenon DEF Working
  <2> QED BY <2>2, <2>3, <2>4, <1>4, Zenon DEF ProcInv
<1>11. ProcInv(p)'
  <2>1. MappedBy(p)' = {}
    BY <1>5, Zenon DEF MappedBy
  <2>2. count_mmap'[p] = 1 + Cardinality(MappedBy(p)')
    BY <2>1, <1>5, FS_EmptySet
  <2> QED BY <2>2, <1>1, <1>2, <1>4, CalmLemma, Zenon
<1>12. ASSUME NEW q \in Procs PROVE ProcInv(q)'
  BY <1>10, <1>11, Zenon
<1>13. ~missed'
  BY <1>1, Zenon
<1> QED BY <1>7, <1>8, <1>9, <1>12, <1>13, Zenon DEF IInv

\* p detaches: it unmaps its tables, or it ends, which it does only after a "tab
\* overflow".
LEMMA DetachIInv ==
  ASSUME IInv, NEW p \in Procs, Detach(p)
  PROVE  IInv'
<1>1. TypeOK /\ WindowInv /\ MapInv /\ ~missed /\ ProcInv(p) /\ pc[p] = "idle"
  BY Zenon DEF IInv, Detach
<1>2. old[p] = NULL /\ p \notin readers
  BY <1>1, Zenon DEF ProcInv, Working
<1>3. count_mmap[p] = 1 + Cardinality(MappedBy(p))
  <2>1. PICK c : c = Cardinality(MappedBy(p)) /\ c \in Nat
    BY MappedFinite, Zenon
  <2>2. count_mmap[p] = 1 + c + (IF old[p] # NULL THEN 1 ELSE 0)
    BY <2>1, <1>1, Zenon DEF ProcInv
  <2>3. count_mmap[p] = 1 + c
    BY <2>1, <2>2, <1>2
  <2> QED BY <2>1, <2>3, Zenon
<1>4. /\ reply' = NULL
      /\ UNCHANGED <<tabs, tabs_used, name, file, readers, writer, old, missed>>
      /\ \/ Unmaps(p)
         \/ /\ tabs_used > TABS /\ pc' = [pc EXCEPT ![p] = "exited"]
            /\ UNCHANGED <<call, tab_mmap, count_mmap>>
  <2>1. PICK n : /\ n \in Munmaps(p)
                 /\ \/ count_mmap[p] = 1 + n /\ Unmaps(p)
                    \/ count_mmap[p] # 1 + n /\ Exit(p)
    BY Zenon DEF Detach, Unmaps
  <2>2. {t \in Tabs : t < tabs_used /\ tab_mmap[p][t] # NULL} = MappedBy(p)
    <3>1. \A t \in Tabs : tab_mmap[p][t] # NULL => t < tabs_used
      <4>1. \A t \in Tabs : t >= tabs_used => tab_mmap[p][t] = NULL
        BY <1>1, Zenon DEF MapInv
      <4>2. tabs_used \in Nat /\ \A t \in Tabs : t \in Nat
        BY <1>1, Constants DEF TypeOK
      <4> QED BY <4>1, <4>2
    <3> QED BY <3>1, Zenon DEF MappedBy
  <2>3. n = Cardinality(MappedBy(p)) \/ tabs_used > TABS
    BY <2>1, <2>2, Zenon DEF Munmaps
  <2>4. Unmaps(p) \/ (tabs_used > TABS /\ Exit(p))
    BY <2>1, <2>3, <1>3, Zenon
  <2>5. reply' = NULL /\ UNCHANGED <<tabs, tabs_used, name, file, readers, writer, old, missed>>
    BY Zenon DEF Detach, window
  <2> QED BY <2>4, <2>5, Zenon DEF Exit, Goto
<1>5. CASE Unmaps(p)
  BY <1>1, <1>2, <1>4, <1>5, UnmapsIInv, Zenon
<1>6. CASE /\ tabs_used > TABS /\ pc' = [pc EXCEPT ![p] = "exited"]
           /\ UNCHANGED <<call, tab_mmap, count_mmap>>
  <2>1. /\ pc'[p] = "exited" /\ \A q \in Procs : q # p => pc'[q] = pc[q]
        /\ pc' \in [Procs -> {"idle", "put", "search", "unlink", "create", "copy", "exited"}]
    BY <1>1, <1>6, Zenon DEF TypeOK
  <2>2. \A q \in Procs : TabFor(call[q])' = TabFor(call[q]) /\ MappedBy(q)' = MappedBy(q)
    BY <1>4, <1>6, Zenon DEF TabFor, TabOf, MappedBy
  <2>3. TypeOK'
    BY <2>1, <1>1, <1>4, <1>6, Zenon DEF TypeOK
  <2>4. WindowInv'
    <3>1. \A q \in Procs : pc[q] = "create" => pc'[q] = "create"
      BY <2>1, <1>1, Zenon
    <3> QED BY <3>1, <2>2, <1>1, <1>4, Zenon DEF WindowInv
  <2>5. MapInv'
    <3>1. UNCHANGED <<old, name, tabs_used, tab_mmap, call, writer>>
      BY <1>4, <1>6, Zenon
    <3> QED BY <3>1, <2>2, <1>1, Zenon DEF MapInv
  <2>6. ASSUME NEW q \in Procs, q # p PROVE ProcInv(q)'
    <3>1. ProcInv(q) /\ pc'[q] = pc[q] /\ call'[q] = call[q]
      BY <2>1, <2>6, <1>6, Zenon DEF IInv
    <3> QED BY <3>1, <2>2, <1>4, <1>6, Zenon DEF ProcInv
  <2>7. ProcInv(p)'
    <3>1. writer' # NULL /\ tabs_used' > TABS /\ old'[p] = NULL /\ p \notin readers'
      BY <1>1, <1>2, <1>4, <1>6, Zenon DEF WindowInv
    <3>2. count_mmap'[p] = 1 + Cardinality(MappedBy(p)') + 0
      BY <2>2, <1>1, <1>2, <1>6, Zenon DEF ProcInv
    <3> QED BY <3>1, <3>2, <2>1, Zenon DEF ProcInv, Working
  <2> QED BY <2>3, <2>4, <2>5, <2>6, <2>7, <1>1, <1>4, Zenon DEF IInv
<1> QED BY <1>4, <1>5, <1>6, Zenon

\* Nothing happens.
LEMMA StutterIInv ==
  ASSUME IInv, UNCHANGED vars
  PROVE  IInv'
<1>1. UNCHANGED <<tabs, tabs_used, name, file, readers, writer, tab_mmap, count_mmap, pc, call,
                  old, reply, missed>>
  BY Zenon DEF vars, window
<1>2. (\A p \in Procs : TabFor(call[p])' = TabFor(call[p]) /\ MappedBy(p)' = MappedBy(p))
  BY <1>1, Zenon DEF TabFor, TabOf, MappedBy
<1>3. TypeOK' /\ WindowInv'
  BY <1>1, <1>2, Zenon DEF IInv, TypeOK, WindowInv
<1>4. MapInv'
  BY <1>1, <1>2, Zenon DEF IInv, MapInv
<1>5. ASSUME NEW p \in Procs PROVE ProcInv(p)'
  <2>1. ProcInv(p) /\ TabFor(call[p])' = TabFor(call[p]) /\ MappedBy(p)' = MappedBy(p)
    BY <1>2, Zenon DEF IInv
  <2> QED BY <2>1, <1>1, Zenon DEF ProcInv
<1> QED BY <1>1, <1>3, <1>4, <1>5, Zenon DEF IInv

-----------------------------------------------------------------------------
(***************************************************************************)
(* Parting.                                                                *)
(***************************************************************************)
\* A ref e of a parted table is in one of the two tables: a and b are what they
\* have in its place.
Parted(e, a, b) == (a = e /\ b = NULL) \/ (a = NULL /\ b = e)

\* Table tab is parted: n is its new file, m the file of the new table.
Parts(p, tab, n, m) ==
  /\ n \in FreeInodes /\ m \in FreeInodes /\ n # m /\ tabs_used < TABS
  /\ tabs_used' = tabs_used + 1 /\ tabs' \in [Tabs -> Tabs]
  /\ \A u \in Tabs : tabs'[u] = tabs[u] \/ (tabs[u] = tab /\ tabs'[u] = tabs_used)
  /\ file' \in [Inodes -> Tables]
  /\ Fits(tabs', file'[n], tab) /\ Fits(tabs', file'[m], tabs_used)
  /\ \A j \in Inodes : j # n /\ j # m /\ j # name[tab] => file'[j] = file[j]
  /\ \A r \in Slots : Parted(file[name[tab]].ref[r], file'[n].ref[r], file'[m].ref[r])
  /\ name' \in [Tabs -> Inodes \cup {NULL}]
  /\ \A u \in Tabs : name'[u] = IF u = tab THEN n ELSE IF u = tabs_used THEN m ELSE name[u]
  /\ tab_mmap' \in [Procs -> [Tabs -> Inodes \cup {NULL, REPLACED}]]
  /\ \A q \in Procs, u \in Tabs : tab_mmap'[q][u] =
       IF q = p /\ u = tab THEN n ELSE IF q = p /\ u = tabs_used THEN m
       ELSE IF tab_mmap[q][u] = name[tab] THEN REPLACED ELSE tab_mmap[q][u]
  /\ count_mmap' = [count_mmap EXCEPT ![p] = @ + FirstMap(p, tab) + 1]

\* Some tabs that led to one table lead to another.
LEMMA RedirectedLemma ==
  ASSUME TypeOK, NEW from, NEW to \in Tabs, NEW tb, tb = Redirected(from, to)
  PROVE  /\ tb \in [Tabs -> Tabs]
         /\ \A u \in Tabs : tb[u] = tabs[u] \/ (tabs[u] = from /\ tb[u] = to)
BY Zenon DEF Redirected, TypeOK

\* Some of the refs of t belong in table new, the others in tab.
Divides(moved, t, tb, tab, new) ==
  /\ moved \in SUBSET Refs(t) /\ \A s \in moved : tb[t.ref[s].tab] = new
  /\ \A s \in Refs(t) \ moved : tb[t.ref[s].tab] = tab

\* The refs of a table go to the two tables that take its place, each to the one
\* that its table index is redirected to.
LEMMA PartedRefs ==
  ASSUME NEW tb, NEW tab, NEW t, Fits(tb, t, tab),
         NEW tb2, NEW new, NEW moved, Divides(moved, t, tb2, tab, new)
  PROVE  /\ Fits(tb2, Copied(t, Refs(t) \ moved), tab)
         /\ Fits(tb2, Copied(t, moved), new)
         /\ \A r \in Slots : Parted(t.ref[r], Copied(t, Refs(t) \ moved).ref[r],
                                   Copied(t, moved).ref[r])
<1>0. PICK x, y : x = Copied(t, Refs(t) \ moved) /\ y = Copied(t, moved)
  BY Zenon
<1>1. moved \in SUBSET Refs(t) /\ Refs(t) \ moved \in SUBSET Refs(t) /\ t \in Tables
  BY Zenon DEF Fits, Divides
<1>4. Fits(tb2, x, tab)
  <2>1. \A s \in Refs(t) \ moved : tb2[t.ref[s].tab] = tab
    BY Zenon DEF Divides
  <2> QED BY <2>1, <1>0, <1>1, FitsCopied
<1>5. Fits(tb2, y, new)
  <2>1. \A s \in moved : tb2[t.ref[s].tab] = new
    BY Zenon DEF Divides
  <2> QED BY <2>1, <1>0, <1>1, FitsCopied, Zenon
<1>6. Refs(x) = Refs(t) \ moved /\ \A s \in Refs(t) \ moved : x.ref[s] = t.ref[s]
  BY <1>0, <1>1, CopiedLemma
<1>7. Refs(y) = moved /\ \A s \in moved : y.ref[s] = t.ref[s]
  BY <1>0, <1>1, CopiedLemma
<1>8. ASSUME NEW r \in Slots PROVE Parted(t.ref[r], x.ref[r], y.ref[r])
  <2>1. CASE r \in moved
    BY <2>1, <1>6, <1>7, Zenon DEF Refs, Parted
  <2>2. CASE r \in Refs(t) \ moved
    BY <2>2, <1>6, <1>7, Zenon DEF Refs, Parted
  <2>3. CASE r \notin Refs(t)
    BY <2>3, <1>1, <1>6, <1>7, Zenon DEF Refs, Parted
  <2> QED BY <2>1, <2>2, <2>3, Zenon
<1> QED BY <1>0, <1>4, <1>5, <1>8, Zenon

\* A put that finds no room parts its table.
LEMMA PutPartParts ==
  ASSUME IInv, NobodyInside, NEW p \in Procs, NEW c \in Puts, PutPart(p, c),
         NEW tab, tab = TabOf(c.key)
  PROVE  tab \in Tabs /\ tab < tabs_used /\ \E n, m : Parts(p, tab, n, m)
<1>1. /\ TypeOK /\ WindowInv /\ MapInv /\ \A q \in Procs : old[q] = NULL
      /\ tabs_used \in 1..TABS
  BY QuietLemma, Zenon DEF IInv
<1>2. tab \in Tabs /\ tab < tabs_used
  BY <1>1, TabOfLemma, Zenon DEF Puts
<1>3. PICK i, n, m, t, moved :
        /\ i = name[tab] /\ n = NewInode /\ m = Min(FreeInodes \ {n})
        /\ t = file[i] /\ moved = {s \in Refs(t) : tabs'[t.ref[s].tab] = tabs_used}
  BY ZenonT(30)
<1>4. i \in Inodes /\ i = Mapped(p, tab) /\ Fits(tabs, t, tab) /\ t \in Tables
  <2>1. i = name[tab] /\ t = file[i]
    BY <1>3, Zenon
  <2> QED BY <2>1, <1>2, QuietLemma, Zenon
<1>5. /\ tabs_used < TABS /\ tabs_used' = tabs_used + 1
      /\ tabs' = Redirected(tab, tabs_used)
      /\ name' = [name EXCEPT ![tab] = n, ![tabs_used] = m]
      /\ count_mmap' = [count_mmap EXCEPT ![p] = @ + FirstMap(p, tab) + 1]
  BY <1>3, <1>4, ZenonT(30) DEF PutPart
<1>6. file' = [file EXCEPT ![i] = NewTable, ![m] = Copied(t, moved),
                           ![n] = Copied(t, Refs(t) \ moved)]
  BY <1>3, <1>4, ZenonT(30) DEF PutPart
<1>7. tab_mmap' = [Replaced(i) EXCEPT ![p][tab] = n, ![p][tabs_used] = m]
  BY <1>3, <1>4, ZenonT(30) DEF PutPart
<1>8. n \in FreeInodes /\ m \in FreeInodes /\ n # m
  <2>1. PICK used : used = 0..(tabs_used - 1)
    BY Zenon
  <2>2. /\ used \in SUBSET Tabs /\ Cardinality(used) = tabs_used
        /\ \A t_1 \in Tabs : name[t_1] # NULL => t_1 \in used
    <3>1. tabs_used - 1 \in Int /\ 0 <= tabs_used - 1 /\ (tabs_used - 1) - 0 + 1 = tabs_used
      BY <1>1
    <3>2. Cardinality(used) = tabs_used
      BY <3>1, <2>1, FS_Interval
    <3>3. used \in SUBSET Tabs
      BY <2>1, <1>1, Constants DEF Tabs
    <3>4. \A t_1 \in Tabs : name[t_1] # NULL => t_1 < tabs_used
      BY <1>1, Constants DEF WindowInv
    <3> QED BY <3>2, <3>3, <3>4, <2>1, <1>1, Constants
  <2>3. Cardinality(used) + Cardinality({}) < TABS /\ Cardinality(used) + Cardinality({}) <= TABS
    BY <2>2, <1>1, <1>5, FS_EmptySet, Constants
  <2>4. \A q \in Procs : old[q] # NULL => old[q] \in {}
    BY <1>1, Zenon
  <2>5. TypeOK /\ MapInv
    BY <1>1, Zenon
  <2>6. NewInode \in FreeInodes /\ Min(FreeInodes \ {NewInode}) \in FreeInodes \ {NewInode}
    BY <2>2, <2>3, <2>4, <2>5, FreeFiles
  <2> QED BY <2>6, <1>3, Zenon
<1>9. /\ n \in Inodes /\ m \in Inodes /\ n # i /\ m # i /\ n # NULL /\ m # NULL
  BY <1>1, <1>2, <1>3, <1>8, NewInodeLemma, NullsAssumption, Zenon
<1>10. tabs_used \in Tabs /\ tabs_used # tab
  BY <1>1, <1>2, <1>5, Constants DEF Tabs
<1>11. /\ tabs' \in [Tabs -> Tabs]
       /\ \A u \in Tabs : tabs'[u] = tabs[u] \/ (tabs[u] = tab /\ tabs'[u] = tabs_used)
  BY <1>1, <1>5, <1>10, RedirectedLemma
<1>12. PICK x, y : x = Copied(t, Refs(t) \ moved) /\ y = Copied(t, moved)
  BY Zenon
<1>13. /\ Fits(tabs', x, tab) /\ Fits(tabs', y, tabs_used)
       /\ \A r \in Slots : Parted(t.ref[r], x.ref[r], y.ref[r])
  <2>1. ASSUME NEW s \in Refs(t) PROVE tabs'[t.ref[s].tab] \in {tab, tabs_used}
    <3>1. t.ref[s].tab \in Tabs
      BY <1>4, RefsLemma, Zenon
    <3>2. tabs[t.ref[s].tab] = tab
      BY <1>4, Zenon DEF Fits
    <3> QED BY <3>1, <3>2, <1>11, Zenon
  <2>2. Divides(moved, t, tabs', tab, tabs_used)
    BY <2>1, <1>3, Zenon DEF Divides
  <2>3. PICK tb, new : tb = tabs' /\ new = tabs_used
    BY Zenon
  <2>4. Fits(tabs, t, tab) /\ Divides(moved, t, tb, tab, new)
    BY <2>2, <2>3, <1>4, Zenon
  <2>5. /\ Fits(tb, Copied(t, Refs(t) \ moved), tab) /\ Fits(tb, Copied(t, moved), new)
        /\ \A r \in Slots : Parted(t.ref[r], Copied(t, Refs(t) \ moved).ref[r],
                                  Copied(t, moved).ref[r])
    BY <2>4, PartedRefs, Zenon
  <2> QED BY <2>3, <2>5, <1>12, Zenon
<1>14. /\ file' \in [Inodes -> Tables] /\ file'[n] = x /\ file'[m] = y
       /\ \A j \in Inodes : j # n /\ j # m /\ j # i => file'[j] = file[j]
  <2>1. x \in Tables /\ y \in Tables
    BY <1>13, Zenon DEF Fits
  <2>2. file' = [file EXCEPT ![i] = NewTable, ![m] = y, ![n] = x]
    BY <1>6, <1>12, Zenon
  <2>3. file \in [Inodes -> Tables] /\ NewTable \in Tables /\ n # m
    BY <1>1, <1>8, NewTableLemma, Zenon DEF TypeOK
  <2> QED BY <2>1, <2>2, <2>3, <1>4, <1>9, Zenon
<1>15. /\ name' \in [Tabs -> Inodes \cup {NULL}]
       /\ \A u \in Tabs : name'[u] = IF u = tab THEN n
                                     ELSE IF u = tabs_used THEN m ELSE name[u]
  BY <1>1, <1>2, <1>5, <1>9, <1>10, ZenonT(30) DEF TypeOK
<1>16. /\ tab_mmap' \in [Procs -> [Tabs -> Inodes \cup {NULL, REPLACED}]]
       /\ \A q \in Procs, u \in Tabs : tab_mmap'[q][u] =
            IF q = p /\ u = tab THEN n ELSE IF q = p /\ u = tabs_used THEN m
            ELSE IF tab_mmap[q][u] = i THEN REPLACED ELSE tab_mmap[q][u]
  <2>1. PICK g : g = Replaced(i)
    BY Zenon
  <2>2. /\ g \in [Procs -> [Tabs -> Inodes \cup {NULL, REPLACED}]]
        /\ \A q \in Procs, u \in Tabs :
             g[q][u] = IF tab_mmap[q][u] = i THEN REPLACED ELSE tab_mmap[q][u]
    BY <2>1, <1>1, Zenon DEF TypeOK, Replaced
  <2>3. tab_mmap' = [g EXCEPT ![p][tab] = n, ![p][tabs_used] = m]
    BY <2>1, <1>7, ZenonT(30)
  <2> QED BY <2>2, <2>3, <1>2, <1>9, <1>10
<1>17. Parts(p, tab, n, m)
  <2>1. /\ Fits(tabs', file'[n], tab) /\ Fits(tabs', file'[m], tabs_used)
        /\ \A r \in Slots :
             Parted(file[name[tab]].ref[r], file'[n].ref[r], file'[m].ref[r])
    BY <1>3, <1>13, <1>14, Zenon
  <2>2. i = name[tab]
    BY <1>3, Zenon
  <2>3. \A j \in Inodes : j # n /\ j # m /\ j # name[tab] => file'[j] = file[j]
    BY <2>2, <1>14, Zenon
  <2>4. \A q \in Procs, u \in Tabs : tab_mmap'[q][u] =
          IF q = p /\ u = tab THEN n ELSE IF q = p /\ u = tabs_used THEN m
          ELSE IF tab_mmap[q][u] = name[tab] THEN REPLACED ELSE tab_mmap[q][u]
    BY <2>2, <1>16, Zenon
  <2> QED BY <2>1, <2>3, <2>4, <1>5, <1>8, <1>11, <1>14, <1>15, <1>16, ZenonT(30) DEF Parts
<1> QED BY <1>2, <1>17, Zenon

\* A put that parted a table and will start again.
PartEnds(p) ==
  /\ \E c \in Puts : call' = [call EXCEPT ![p] = c]
  /\ pc' = [pc EXCEPT ![p] = "put"] /\ reply' = NULL
  /\ UNCHANGED <<readers, writer, old, missed>>

\* Parting a table while nobody is inside keeps the invariant.
LEMMA PartsIInv ==
  ASSUME IInv, NobodyInside, NEW p \in Procs, NEW tab \in Tabs, tab < tabs_used,
         NEW n, NEW m, Parts(p, tab, n, m), PartEnds(p)
  PROVE  IInv'
<1>1. /\ TypeOK /\ WindowInv /\ MapInv /\ ~missed
      /\ \A q \in Procs : pc[q] \in {"idle", "put"} /\ old[q] = NULL /\ ProcInv(q)
      /\ tabs_used \in Nat /\ TABS \in Nat /\ tabs_used < TABS
      /\ \A t \in Tabs : t < tabs_used => name[t] \in Inodes
      /\ \A q \in Procs, t \in Tabs : tab_mmap[q][t] \in {NULL, REPLACED, name[t]}
  <2>1. TABS \in Nat /\ tabs_used \in 1..TABS /\ tabs_used < TABS
    BY QuietLemma, Constants, Zenon DEF Parts
  <2>2. tabs_used \in Nat
    BY <2>1
  <2>3. TypeOK /\ WindowInv /\ MapInv /\ ~missed /\ \A q \in Procs : ProcInv(q)
    BY Zenon DEF IInv
  <2>4. /\ \A q \in Procs : pc[q] \in {"idle", "put"} /\ old[q] = NULL
        /\ \A t \in Tabs : t < tabs_used => name[t] \in Inodes
        /\ \A q \in Procs, t \in Tabs : tab_mmap[q][t] \in {NULL, REPLACED, name[t]}
    BY QuietLemma, Zenon
  <2> QED BY <2>1, <2>2, <2>3, <2>4, Zenon
<1>2. PICK new \in Tabs : new = tabs_used /\ tabs_used' = new + 1 /\ new # tab
  <2>1. tabs_used' = tabs_used + 1
    BY Zenon DEF Parts
  <2>2. tabs_used \in Tabs /\ tabs_used # tab
    <3>1. tabs_used \in Nat /\ TABS \in Nat /\ tabs_used < TABS /\ tab \in Nat
      BY <1>1, Constants, Zenon
    <3> QED BY <3>1 DEF Tabs
  <2> QED BY <2>1, <2>2, Zenon
<1>3. \A u \in Tabs : name'[u] = IF u = tab THEN n ELSE IF u = new THEN m ELSE name[u]
  BY <1>2, ZenonT(30) DEF Parts
<1>4. /\ n \in Inodes /\ m \in Inodes /\ n # m
      /\ \A u \in Tabs \ {tab, new} : name[u] # n /\ name[u] # m /\ name[u] # name[tab]
  <2>1. n \in FreeInodes /\ m \in FreeInodes /\ n # m
    BY Zenon DEF Parts
  <2>2. n \in Inodes /\ m \in Inodes /\ \A u \in Tabs : name[u] # n /\ name[u] # m
    BY <2>1, <1>1, NewInodeLemma, Zenon
  <2>3. name[tab] # NULL
    BY <1>1, NullsAssumption, Zenon
  <2>4. \A u \in Tabs : name[tab] = name[u] => tab = u
    BY <2>3, <1>1, Zenon DEF WindowInv
  <2> QED BY <2>1, <2>2, <2>4, Zenon
<1>5. \A u \in Tabs : u \in Nat /\ (u < new + 1 <=> u < new \/ u = new)
  <2> TAKE u \in Tabs
  <2>1. u \in Nat /\ new \in Nat
    BY Constants, Zenon
  <2> QED BY <2>1
<1>6. WindowInv'
  <2>1. ASSUME NEW u \in Tabs, name'[u] # NULL PROVE Fits(tabs', file'[name'[u]], u)
    <3>1. CASE u = tab
      BY <3>1, <1>3, Zenon DEF Parts
    <3>2. CASE u = new
      BY <3>2, <1>2, <1>3, Zenon DEF Parts
    <3>3. CASE u # tab /\ u # new
      <4>1. name'[u] = name[u] /\ name[u] # NULL
        BY <2>1, <3>3, <1>3, Zenon
      <4>2. name[u] \in Inodes /\ name[u] # n /\ name[u] # m /\ name[u] # name[tab]
        BY <4>1, <3>3, <1>1, <1>4 DEF TypeOK, WindowInv
      <4>3. file'[name'[u]] = file[name[u]] /\ Fits(tabs, file[name[u]], u)
        BY <4>1, <4>2, <1>1, ZenonT(30) DEF Parts, WindowInv
      <4>4. \A w \in Tabs : tabs[w] = u => tabs'[w] = u
        BY <3>3, Zenon DEF Parts
      <4> QED BY <4>3, <4>4, FitsAgain, Zenon
    <3> QED BY <3>1, <3>2, <3>3, Zenon
  <2>2. \A t, u \in Tabs : name'[t] # NULL /\ name'[t] = name'[u] => t = u
    <3>1. \A t, u \in Tabs : name[t] # NULL /\ name[t] = name[u] => t = u
      BY <1>1, Zenon DEF WindowInv
    <3> QED BY <3>1, <1>3, <1>4
  <2>3. \A u \in Tabs : u < tabs_used' => name'[u] # NULL
    BY <1>1, <1>2, <1>3, <1>4, <1>5, NullsAssumption, ZenonT(30)
  <2>4. \A u \in Tabs : u >= tabs_used' => name'[u] = NULL
    <3>1. \A u \in Tabs : u >= new => name[u] = NULL
      BY <1>1, <1>2, Zenon DEF WindowInv
    <3>2. ASSUME NEW u \in Tabs, u >= new + 1 PROVE u >= new /\ u # new
      <4>1. u \in Nat /\ new \in Nat
        BY Constants, Zenon
      <4> QED BY <4>1, <3>2
    <3>3. ASSUME NEW u \in Tabs, u >= new + 1 PROVE u # tab
      <4>1. u \in Nat /\ new \in Nat /\ tab \in Nat /\ tab < new
        BY <1>2, Constants, Zenon
      <4> QED BY <4>1, <3>3
    <3> QED BY <3>1, <3>2, <3>3, <1>2, <1>3, Zenon
  <2>5. ASSUME NEW u \in Tabs PROVE tabs'[u] < tabs_used'
    <3>1. tabs[u] \in Tabs /\ tabs[u] < new
      BY <1>1, <1>2, Zenon DEF WindowInv, TypeOK
    <3>2. tabs'[u] \in {tabs[u], new}
      BY <1>2, Zenon DEF Parts
    <3> QED BY <3>1, <3>2, <1>2, <1>5, Zenon
  <2>6. ~(tabs_used' > TABS)
    <3>1. new \in Nat /\ TABS \in Nat /\ new < TABS /\ tabs_used' = new + 1
      BY <1>1, <1>2, Zenon
    <3> QED BY <3>1
  <2> QED BY <2>1, <2>2, <2>3, <2>4, <2>5, <2>6, Zenon DEF WindowInv
<1>7. MapInv'
  <2>1. ASSUME NEW q \in Procs, NEW u \in Tabs
        PROVE  /\ tab_mmap'[q][u] \in {NULL, REPLACED, name'[u]}
               /\ u >= tabs_used' => tab_mmap'[q][u] = NULL
    <3>1. /\ u >= new => tab_mmap[q][u] = NULL
          /\ u >= tabs_used' => u >= new /\ u # new /\ u # tab
      <4>1. u >= tabs_used => tab_mmap[q][u] = NULL
        BY <1>1, Zenon DEF MapInv
      <4> QED BY <4>1, <1>2, <1>5
    <3>2. tab_mmap'[q][u] = IF q = p /\ u = tab THEN n ELSE IF q = p /\ u = new THEN m
            ELSE IF tab_mmap[q][u] = name[tab] THEN REPLACED ELSE tab_mmap[q][u]
      BY <1>2, Zenon DEF Parts
    <3>3. name[tab] # NULL /\ (u = new => u >= new)
      BY <1>1, <1>5, NullsAssumption
    <3>4. tab_mmap[q][u] \in {NULL, REPLACED, name[u]}
      BY <1>1, Zenon
    <3> QED BY <3>1, <3>2, <3>3, <3>4, <1>3, Zenon
  <2> QED BY <2>1, Zenon DEF MapInv
<1>8. ASSUME NEW q \in Procs PROVE ProcInv(q)'
  <2>1. MappedBy(q)' = IF q = p THEN (MappedBy(p) \cup {tab}) \cup {new} ELSE MappedBy(q)
    <3>1. \A u \in Tabs : tab_mmap'[q][u] # NULL <=>
             tab_mmap[q][u] # NULL \/ (q = p /\ u \in {tab, new})
      <4> TAKE u \in Tabs
      <4>1. tab_mmap'[q][u] = IF q = p /\ u = tab THEN n ELSE IF q = p /\ u = new THEN m
              ELSE IF tab_mmap[q][u] = name[tab] THEN REPLACED ELSE tab_mmap[q][u]
        BY <1>2, Zenon DEF Parts
      <4>2. name[tab] # NULL /\ n # NULL /\ m # NULL /\ REPLACED # NULL
        BY <1>1, <1>4, NullsAssumption, Zenon
      <4> QED BY <4>1, <4>2, Zenon
    <3> QED BY <3>1, Zenon DEF MappedBy
  <2>2. count_mmap[q] = 1 + Cardinality(MappedBy(q))
    BY <1>1, MappedFinite DEF ProcInv
  <2>3. count_mmap'[q] = 1 + Cardinality(MappedBy(q)')
    <3>1. CASE q # p
      BY <3>1, <2>1, <2>2, <1>1, ZenonT(30) DEF Parts, TypeOK
    <3>2. CASE q = p
      <4>1. PICK k : k = count_mmap[p] + FirstMap(p, tab) + 1
        BY Zenon
      <4>2. count_mmap'[q] = k
        BY <4>1, <3>2, <1>1, Zenon DEF Parts, TypeOK
      <4>3. PICK S : S = MappedBy(p) \cup {tab}
        BY Zenon
      <4>4. /\ Cardinality(S) = Cardinality(MappedBy(p)) + FirstMap(p, tab)
            /\ IsFiniteSet(S) /\ Cardinality(S) \in Nat
        BY <4>3, CountLemma, MappedFinite, FS_AddElement, FS_CardinalityType, Zenon
      <4>5. new \notin S
        <5>1. tab_mmap[p][new] = NULL
          BY <1>1, <1>2, <1>5 DEF MapInv
        <5> QED BY <5>1, <4>3, <1>2, Zenon DEF MappedBy
      <4>6. Cardinality(MappedBy(q)') = Cardinality(S) + 1
        BY <4>3, <4>4, <4>5, <3>2, <2>1, FS_AddElement
      <4> QED BY <4>1, <4>2, <4>4, <4>6, <3>2, <2>2, MappedFinite DEF FirstMap
    <3> QED BY <3>1, <3>2, Zenon
  <2>4. /\ pc'[q] \in {"idle", "put"} /\ q \notin readers' /\ old'[q] = NULL
        /\ pc'[q] = "put" => call'[q] \in Puts
    BY <1>1 DEF PartEnds, ProcInv, NobodyInside, TypeOK
  <2> QED BY <2>3, <2>4, CalmLemma, Zenon
<1>9. TypeOK'
  <2>1. tabs' \in [Tabs -> Tabs] /\ tabs_used' \in 1..(TABS + 1)
    BY <1>1, <1>2 DEF Parts
  <2>2. count_mmap' \in [Procs -> Nat]
    <3>1. count_mmap' = [count_mmap EXCEPT ![p] = count_mmap[p] + FirstMap(p, tab) + 1]
      BY Zenon DEF Parts
    <3>2. count_mmap \in [Procs -> Nat]
      BY <1>1, Zenon DEF TypeOK
    <3>3. FirstMap(p, tab) \in {0, 1}
      BY Zenon DEF FirstMap
    <3> QED BY <3>1, <3>2, <3>3
  <2>3. /\ call' \in [Procs -> Puts \cup Wanted({"find", "copy"}) \cup {NULL}]
        /\ pc' \in [Procs -> {"idle", "put", "search", "unlink", "create", "copy",
                              "exited"}]
    <3>1. PICK c \in Puts : call' = [call EXCEPT ![p] = c]
      BY Zenon DEF PartEnds
    <3>2. /\ call \in [Procs -> Puts \cup Wanted({"find", "copy"}) \cup {NULL}]
          /\ pc \in [Procs -> {"idle", "put", "search", "unlink", "create", "copy", "exited"}]
          /\ pc' = [pc EXCEPT ![p] = "put"]
      BY <1>1, Zenon DEF TypeOK, PartEnds
    <3>3. call' \in [Procs -> Puts \cup Wanted({"find", "copy"}) \cup {NULL}]
      BY <3>1, <3>2, Zenon
    <3>4. "put" \in {"idle", "put", "search", "unlink", "create", "copy", "exited"}
      BY Zenon
    <3> QED BY <3>2, <3>3, <3>4, Zenon
  <2> QED BY <2>1, <2>2, <2>3, <1>1, ZenonT(30) DEF TypeOK, Parts, PartEnds
<1> QED BY <1>1, <1>6, <1>7, <1>8, <1>9, Zenon DEF IInv, PartEnds

-----------------------------------------------------------------------------
(***************************************************************************)
(* The writers keep the invariant.                                         *)
(***************************************************************************)
\* "tab overflow": the process ends with the lock held.
LEMMA OverflowIInv ==
  ASSUME IInv, NobodyInside, NEW p \in Procs, NEW c \in Puts, PutOverflow(p, c)
  PROVE  IInv'
<1>1. TypeOK /\ WindowInv /\ MapInv /\ ~missed /\ p # NULL
  BY NullsAssumption, Zenon DEF IInv
<1>2. /\ TABS \in Nat /\ tabs_used = TABS /\ tabs_used' = TABS + 1
      /\ \A t \in Tabs : t \in Nat /\ t < TABS
  <2>1. TABS \in Nat /\ tabs_used \in 1..TABS
    BY QuietLemma, Constants, Zenon
  <2>2. tabs_used >= TABS /\ tabs_used' = tabs_used + 1
    BY Zenon DEF PutOverflow
  <2>3. tabs_used = TABS
    BY <2>1, <2>2
  <2>4. \A t \in Tabs : t \in Nat /\ t < TABS
    BY <2>1 DEF Tabs
  <2> QED BY <2>1, <2>2, <2>3, <2>4, Zenon
<1>3. /\ UNCHANGED <<tabs, name, file, readers, tab_mmap, count_mmap, old, missed>>
      /\ writer' = p /\ reply' = NULL /\ pc' = [pc EXCEPT ![p] = "exited"]
      /\ call' = [call EXCEPT ![p] = c]
  BY Zenon DEF PutOverflow
<1>4. \A t \in Tabs : name[t] # NULL
  BY <1>2, QuietLemma, NullsAssumption, Zenon
<1>5. WindowInv'
  <2>1. \A t \in Tabs : tabs[t] \in Tabs /\ ~(t >= TABS + 1)
    BY <1>1, <1>2 DEF TypeOK
  <2>2. \A t \in Tabs : tabs[t] < TABS + 1
    BY <2>1, <1>2
  <2> QED BY <2>1, <2>2, <1>1, <1>2, <1>3, <1>4, Zenon DEF WindowInv
<1>6. MapInv'
  <2>1. \A t \in Tabs : ~(t >= TABS + 1)
    BY <1>2
  <2>2. \A q \in Procs, t \in Tabs : tab_mmap[q][t] \in {NULL, REPLACED, name[t]}
    BY QuietLemma, Zenon
  <2> QED BY <2>1, <2>2, <1>2, <1>3, Zenon DEF MapInv
<1>7. ASSUME NEW q \in Procs PROVE ProcInv(q)'
  <2>1. /\ pc[q] \in {"idle", "put"} /\ old'[q] = NULL /\ q \notin readers'
        /\ MappedBy(q)' = MappedBy(q) /\ count_mmap'[q] = count_mmap[q] /\ ProcInv(q)
    BY <1>3, QuietLemma, Zenon DEF NobodyInside, MappedBy, IInv
  <2>2. count_mmap'[q] = 1 + Cardinality(MappedBy(q)') + 0
    BY <2>1, <1>3, Zenon DEF ProcInv
  <2>3. CASE q = p
    <3>1. pc'[q] = "exited" /\ writer' # NULL /\ tabs_used' > TABS
      BY <2>3, <1>1, <1>2, <1>3 DEF TypeOK
    <3> QED BY <3>1, <2>1, <2>2, Zenon DEF ProcInv, Working
  <2>4. CASE q # p
    <3>1. pc'[q] = pc[q] /\ call'[q] = call[q]
      BY <2>4, <1>1, <1>3, Zenon DEF TypeOK
    <3>2. count_mmap'[q] = 1 + Cardinality(MappedBy(q)')
      BY <2>1, <2>2, MappedFinite
    <3> QED BY <3>1, <3>2, <2>1, CalmLemma, Zenon DEF ProcInv
  <2> QED BY <2>3, <2>4, Zenon
<1>8. TypeOK'
  <2>1. tabs_used' \in 1..(TABS + 1)
    BY <1>2
  <2>2. /\ call' \in [Procs -> Puts \cup Wanted({"find", "copy"}) \cup {NULL}]
        /\ pc' \in [Procs -> {"idle", "put", "search", "unlink", "create", "copy",
                              "exited"}]
    BY <1>1, <1>3, Zenon DEF TypeOK
  <2> QED BY <2>1, <2>2, <1>1, <1>3, Zenon DEF TypeOK
<1> QED BY <1>1, <1>3, <1>5, <1>6, <1>7, <1>8, Zenon DEF IInv

\* The three ways of a put.
LEMMA PutLemma ==
  ASSUME IInv, NEW p \in Procs, Put(p)
  PROVE  \E c \in Puts : PutStore(p, c) \/ PutPart(p, c) \/ PutOverflow(p, c)
<1>1. Putting(p)["idle"] = Puts /\ Putting(p)["put"] = {call[p]}
  BY Zenon DEF Putting
<1>2. pc[p] = "put" => call[p] \in Puts
  BY Zenon DEF IInv, ProcInv
<1>3. PICK c \in Putting(p)[pc[p]] : PutStore(p, c) \/ PutPart(p, c) \/ PutOverflow(p, c)
  BY Zenon DEF Put
<1>4. c \in Puts
  BY <1>1, <1>2, <1>3, Zenon DEF Put
<1> QED BY <1>3, <1>4, Zenon

\* A put keeps the invariant.
LEMMA PutIInv ==
  ASSUME IInv, NEW p \in Procs, Put(p)
  PROVE  IInv'
<1>1. PICK c \in Puts : PutStore(p, c) \/ PutPart(p, c) \/ PutOverflow(p, c)
  BY PutLemma, Zenon
<1>2. NobodyInside
  BY Zenon DEF Put
<1>3. PICK tab : tab = TabOf(c.key)
  BY Zenon
<1>4. CASE PutStore(p, c)
  <2>0. /\ tab \in Tabs /\ tab < tabs_used /\ Ends(p)
        /\ \E n, s : /\ WriteTable(p, tab, n) /\ Adds(tab, n, s, Entry(c.key, c.val))
                     /\ reply' = <<Tab2Of[c.key], s>>
    BY <1>2, <1>3, <1>4, PutStoreWrites, Zenon
  <2>1. PICK n, s : /\ WriteTable(p, tab, n) /\ Adds(tab, n, s, Entry(c.key, c.val))
                    /\ reply' = <<Tab2Of[c.key], s>>
    BY <2>0, Zenon
  <2>2. Tab2Of[c.key] \in Tabs /\ s \in Slots
    BY <2>1, Constants, Zenon DEF Puts, Adds
  <2>3. reply' \in Uids
    BY <2>1, <2>2 DEF Uids
  <2> QED BY <2>0, <2>1, <2>3, <1>2, WriteTableIInv, Zenon
<1>5. CASE PutPart(p, c)
  <2>1. PICK n, m : tab \in Tabs /\ tab < tabs_used /\ Parts(p, tab, n, m)
    BY <1>2, <1>3, <1>5, PutPartParts, Zenon
  <2>2. PartEnds(p)
    BY <1>5, Zenon DEF PutPart, PartEnds
  <2> QED BY <2>1, <2>2, <1>2, PartsIInv, Zenon
<1>6. CASE PutOverflow(p, c)
  BY <1>2, <1>6, OverflowIInv, Zenon
<1> QED BY <1>1, <1>4, <1>5, <1>6, Zenon

\* A delete keeps the invariant.
LEMMA DeleteIInv ==
  ASSUME IInv, NEW p \in Procs, Delete(p)
  PROVE  IInv'
<1>1. PICK tab \in Tabs, n \in Inodes :
        /\ tab < tabs_used /\ WriteTable(p, tab, n) /\ NobodyInside /\ Ends(p)
        /\ reply' \in {<<"deleted">>, NULL}
  BY DeleteWrites, Zenon
<1> QED BY <1>1, WriteTableIInv, Zenon

\* Every step keeps the invariant.
LEMMA NextIInv ==
  ASSUME OneGetter, IInv, [Next]_vars
  PROVE  IInv'
<1>1. ASSUME NEW p \in Procs, Put(p) \/ Delete(p) \/ Read(p) \/ Detach(p)
      PROVE  IInv'
  BY <1>1, PutIInv, DeleteIInv, GetLockIInv, SearchIInv, UnlinkIInv, CreateIInv, CopyRefIInv,
     EndShrinkIInv, DetachIInv, ZenonT(30) DEF Read
<1> QED BY <1>1, StutterIInv, Zenon DEF Next

-----------------------------------------------------------------------------
(***************************************************************************)
(* What a writer changes.                                                  *)
(***************************************************************************)
NoCopy == \A q \in Procs : old[q] = NULL

\* Ref e is in place s of a table other than tab.
Elsewhere(tab, e, s) ==
  \E u \in Tabs : u # tab /\ name[u] # NULL /\ file[name[u]].ref[s] = e

\* What is stored is in the tables.
InTables ==
  \A tab \in Tabs, s \in Slots : name[tab] # NULL =>
    \A e : Holds(e, s) <=> e # NULL /\ (file[name[tab]].ref[s] = e \/ Elsewhere(tab, e, s))

\* While nothing is copied, what is held is in this table or in another.
LEMMA InTablesHolds == TypeOK /\ NoCopy => InTables
<1> SUFFICES ASSUME TypeOK, NoCopy, NEW tab \in Tabs, NEW s \in Slots, name[tab] # NULL, NEW e
             PROVE  Holds(e, s) <=>
                      e # NULL /\ (file[name[tab]].ref[s] = e \/ Elsewhere(tab, e, s))
  BY Zenon DEF InTables
<1>1. \A i : Live(i) <=> \E u \in Tabs : name[u] = i /\ i # NULL
  BY NullsAssumption, Zenon DEF Live, TypeOK, NoCopy
<1> QED BY <1>1, Zenon DEF Holds, Elsewhere

\* What is in the other tables stays when p writes table tab.
LEMMA WriteHolds ==
  ASSUME IInv, IInv', NobodyInside, NEW p \in Procs, NEW tab \in Tabs, tab < tabs_used,
         NEW n, WriteTable(p, tab, n), UNCHANGED old, NEW e, NEW s \in Slots
  PROVE  /\ Holds(e, s) <=> e # NULL /\ (file[name[tab]].ref[s] = e \/ Elsewhere(tab, e, s))
         /\ Holds(e, s)' <=> e # NULL /\ (file'[n].ref[s] = e \/ Elsewhere(tab, e, s))
<1>1. /\ TypeOK /\ WindowInv /\ TypeOK' /\ NoCopy /\ NoCopy'
      /\ name[tab] \in Inodes /\ name[tab] # NULL /\ n \in Inodes /\ n # NULL
  BY QuietLemma, NullsAssumption, Zenon DEF IInv, WriteTable, NoCopy
<1>2. \A u \in Tabs : name'[u] = IF u = tab THEN n ELSE name[u]
  BY <1>1, Zenon DEF WriteTable, TypeOK
<1>3. ASSUME NEW u \in Tabs, u # tab, name[u] # NULL
      PROVE  file'[name[u]] = file[name[u]]
  <2>1. name[u] \in Inodes /\ name[u] # name[tab] /\ name[u] # n
    <3>1. name[u] \in Inodes
      BY <1>1, <1>3, Zenon DEF TypeOK
    <3>2. name[u] # name[tab]
      BY <1>1, <1>3, Zenon DEF WindowInv
    <3>3. n = name[tab] \/ n \in FreeInodes
      BY Zenon DEF WriteTable
    <3> QED BY <3>1, <3>2, <3>3, <1>1, NewInodeLemma, Zenon
  <2> QED BY <2>1, ZenonT(30) DEF WriteTable
<1>4. Elsewhere(tab, e, s)' <=> Elsewhere(tab, e, s)
  BY <1>2, <1>3, Zenon DEF Elsewhere
<1>5. InTables /\ InTables'
  BY <1>1, InTablesHolds, PTL
<1> QED BY <1>1, <1>2, <1>4, <1>5, Zenon DEF InTables

\* A put that adds a ref stores its triple.
LEMMA AddHolds ==
  ASSUME IInv, IInv', NobodyInside, NEW p \in Procs, NEW tab \in Tabs, tab < tabs_used,
         NEW n, WriteTable(p, tab, n), UNCHANGED old,
         NEW f \in Entries, NEW r, Adds(tab, n, r, f)
  PROVE  Store' = Store \cup {Triple(f, r)}
<1>1. ASSUME NEW e, NEW s \in Slots PROVE Holds(e, s)' <=> Holds(e, s) \/ (e = f /\ s = r)
  <2>1. /\ Holds(e, s) <=> e # NULL /\ (file[name[tab]].ref[s] = e \/ Elsewhere(tab, e, s))
        /\ Holds(e, s)' <=> e # NULL /\ (file'[n].ref[s] = e \/ Elsewhere(tab, e, s))
    BY WriteHolds, Zenon
  <2>2. /\ file'[n].ref[s] = IF s = r THEN f ELSE file[name[tab]].ref[s]
        /\ file[name[tab]].ref[r] = NULL /\ f # NULL
    BY NullsAssumption, Zenon DEF Adds
  <2>3. CASE s = r
    BY <2>1, <2>2, <2>3, Zenon
  <2>4. CASE s # r
    BY <2>1, <2>2, <2>4, Zenon
  <2> QED BY <2>3, <2>4, Zenon
<1>2. \A e, s : Holds(e, s)' <=> Holds(e, s) \/ (e = f /\ s = r)
  BY <1>1, ZenonT(30) DEF Holds, Adds
<1> QED BY <1>2, StoreAdds, Zenon

\* A delete that removes a ref removes its triple.
LEMMA RemoveHolds ==
  ASSUME IInv, IInv', NobodyInside, NEW p \in Procs, NEW tab \in Tabs, tab < tabs_used,
         NEW n, n = name[tab], WriteTable(p, tab, n), UNCHANGED old,
         NEW r \in Refs(file[n]), Removes(n, r)
  PROVE  Store' = Store \ {Triple(file[n].ref[r], r)}
<1>1. PICK f : f = file[n].ref[r]
  BY Zenon
<1>2. f # NULL /\ r \in Slots /\ TypeOK /\ WindowInv
  BY <1>1, Zenon DEF Refs, IInv
<1>3. ~Elsewhere(tab, f, r)
  <2>1. ASSUME NEW u \in Tabs, u # tab, name[u] # NULL, file[name[u]].ref[r] = f
        PROVE  FALSE
    <3>1. r \in Refs(file[name[u]]) /\ Fits(tabs, file[name[u]], u)
      BY <2>1, <1>2, Zenon DEF Refs, WindowInv
    <3>2. Fits(tabs, file[n], tab)
      BY QuietLemma, Zenon
    <3>3. tabs[f.tab] = u
      BY <3>1, <2>1, Zenon DEF Fits
    <3>4. tabs[f.tab] = tab
      BY <3>2, <1>1, Zenon DEF Fits
    <3> QED BY <3>3, <3>4, <2>1, Zenon
  <2> QED BY <2>1, Zenon DEF Elsewhere
<1>4. ASSUME NEW e, NEW s \in Slots PROVE Holds(e, s)' <=> Holds(e, s) /\ ~(e = f /\ s = r)
  <2>1. /\ Holds(e, s) <=> e # NULL /\ (file[name[tab]].ref[s] = e \/ Elsewhere(tab, e, s))
        /\ Holds(e, s)' <=> e # NULL /\ (file'[n].ref[s] = e \/ Elsewhere(tab, e, s))
    BY WriteHolds, Zenon
  <2>2. file'[n].ref[s] = IF s = r THEN NULL ELSE file[n].ref[s]
    BY Zenon DEF Removes
  <2> QED BY <2>1, <2>2, <1>1, <1>3, Zenon
<1>5. \A e, s : Holds(e, s)' <=> Holds(e, s) /\ ~(e = f /\ s = r)
  BY <1>4, Zenon DEF Holds
<1>6. Holds(f, r)
  BY <1>1, <1>2, WriteHolds, Zenon
<1> QED BY <1>1, <1>2, <1>5, <1>6, StoreRemoves, Zenon

\* Parting leaves each ref in one of the two tables.
LEMMA PartHolds ==
  ASSUME IInv, IInv', NobodyInside, NEW p \in Procs, NEW tab \in Tabs, tab < tabs_used,
         NEW n, NEW m, Parts(p, tab, n, m), UNCHANGED old
  PROVE  Store' = Store
<1>1. /\ TypeOK /\ WindowInv /\ TypeOK' /\ NoCopy /\ NoCopy'
      /\ name[tab] \in Inodes /\ name[tab] # NULL /\ n \in Inodes /\ n # NULL
      /\ m \in Inodes /\ m # NULL
  BY QuietLemma, NewInodeLemma, NullsAssumption, Zenon DEF IInv, Parts, NoCopy
<1>2. PICK new : new = tabs_used /\ new \in Tabs /\ new # tab /\ name[new] = NULL
  <2>1. tabs_used < TABS
    BY Zenon DEF Parts
  <2>2. tabs_used \in 1..(TABS + 1)
    BY <1>1, ZenonT(30) DEF TypeOK
  <2>3. tabs_used \in Tabs /\ tabs_used # tab /\ tabs_used >= tabs_used
    <3>1. TABS \in Nat /\ tab \in Nat
      BY Constants, Zenon
    <3> QED BY <3>1, <2>1, <2>2 DEF Tabs
  <2> QED BY <2>3, <1>1, Zenon DEF WindowInv
<1>3. \A u \in Tabs : name'[u] = IF u = tab THEN n ELSE IF u = new THEN m ELSE name[u]
  BY <1>2, Zenon DEF Parts
<1>4. ASSUME NEW u \in Tabs, u # tab, name[u] # NULL
      PROVE  file'[name[u]] = file[name[u]]
  <2>1. name[u] \in Inodes /\ name[u] # name[tab] /\ name[u] # n /\ name[u] # m
    <3>1. name[u] \in Inodes
      BY <1>1, <1>4, Zenon DEF TypeOK
    <3>2. name[u] # name[tab]
      BY <1>1, <1>4, Zenon DEF WindowInv
    <3>3. n \in FreeInodes /\ m \in FreeInodes
      BY Zenon DEF Parts
    <3> QED BY <3>1, <3>2, <3>3, <1>1, NewInodeLemma, Zenon
  <2> QED BY <2>1, ZenonT(30) DEF Parts
<1>5. ASSUME NEW e, NEW s \in Slots, e # NULL PROVE Holds(e, s)' <=> Holds(e, s)
  <2>1. Elsewhere(tab, e, s)' <=> file'[m].ref[s] = e \/ Elsewhere(tab, e, s)
    <3>1. file'[m].ref[s] = e => Elsewhere(tab, e, s)'
      BY <1>1, <1>2, <1>3, Zenon DEF Elsewhere
    <3>2. Elsewhere(tab, e, s) => Elsewhere(tab, e, s)'
      BY <1>2, <1>3, <1>4, Zenon DEF Elsewhere
    <3>3. Elsewhere(tab, e, s)' => file'[m].ref[s] = e \/ Elsewhere(tab, e, s)
      BY <1>2, <1>3, <1>4, Zenon DEF Elsewhere
    <3> QED BY <3>1, <3>2, <3>3, Zenon
  <2>2. InTables /\ InTables'
    BY <1>1, InTablesHolds, PTL
  <2>3. /\ Holds(e, s) <=> file[name[tab]].ref[s] = e \/ Elsewhere(tab, e, s)
        /\ Holds(e, s)' <=> file'[n].ref[s] = e \/ Elsewhere(tab, e, s)'
    BY <2>2, <1>1, <1>3, <1>5, Zenon DEF InTables
  <2>4. Parted(file[name[tab]].ref[s], file'[n].ref[s], file'[m].ref[s])
    BY Zenon DEF Parts
  <2>5. file[name[tab]].ref[s] = e <=> file'[n].ref[s] = e \/ file'[m].ref[s] = e
    <3>1. PICK a, b, c : /\ a = file[name[tab]].ref[s] /\ b = file'[n].ref[s]
                         /\ c = file'[m].ref[s]
      BY Zenon
    <3>2. (b = a /\ c = NULL) \/ (b = NULL /\ c = a)
      BY <2>4, <3>1, Zenon DEF Parted
    <3>3. e # NULL
      BY <1>5, Zenon
    <3>4. CASE b = a /\ c = NULL
      BY <3>1, <3>3, <3>4, Zenon
    <3>5. CASE b = NULL /\ c = a
      BY <3>1, <3>3, <3>5, Zenon
    <3> QED BY <3>2, <3>4, <3>5, Zenon
  <2> QED BY <2>1, <2>3, <2>5, Zenon
<1>6. \A e, s : Holds(e, s)' <=> Holds(e, s)
  BY <1>5, Zenon DEF Holds
<1> QED BY <1>6, StoreSame, Zenon

-----------------------------------------------------------------------------
(***************************************************************************)
(* The steps that a caller sees.                                           *)
(***************************************************************************)
\* A step that changes nothing that is stored and returns nothing.
LEMMA WorkMaps ==
  ASSUME Store' = Store, reply' = NULL
  PROVE  Promise!Next
BY Zenon DEF Promise!Next, Promise!Work, Promise!Returns

\* A ref that matches is stored under the key, or the UID, that is asked for.
LEMMA MatchLemma ==
  ASSUME TypeOK, WindowInv, NEW ops, NEW c \in Wanted(ops),
         NEW tab \in Tabs, name[tab] # NULL, NEW s \in Matches(file[name[tab]], c)
  PROVE  s \in Refs(file[name[tab]]) /\ Triple(file[name[tab]].ref[s], s) \in Asked(c)
<1>1. PICK i, e : i = name[tab] /\ e = file[i].ref[s]
  BY Zenon
<1>2. s \in Refs(file[i]) /\ s \in Slots /\ e # NULL
  BY <1>1, Zenon DEF Matches, Refs
<1>3. Holds(e, s)
  BY <1>1, <1>2, Zenon DEF Holds, Live, TypeOK
<1>4. Triple(e, s) \in Store
  BY <1>3, StoreIsHolds, Zenon DEF StoreIs
<1>5. Triple(e, s)[1] = <<e.tab, s>> /\ Triple(e, s)[2] = e.key
  BY Zenon DEF Triple
<1>6. CASE c.uid = NULL
  <2>1. e.key = c.key
    BY <1>1, <1>6, Zenon DEF Matches
  <2> QED BY <2>1, <1>1, <1>2, <1>4, <1>5, <1>6, Zenon DEF Asked
<1>7. CASE c.uid # NULL
  <2>1. s = c.uid[2] /\ e.tab = c.uid[1]
    BY <1>1, <1>7, Zenon DEF Matches
  <2>2. PICK t \in Tabs, r \in Slots : c.uid = <<t, r>>
    BY <1>7, TabForLemma, Zenon
  <2>3. c.uid = <<e.tab, s>>
    BY <2>1, <2>2
  <2> QED BY <2>3, <1>1, <1>2, <1>4, <1>5, <1>7, ZenonT(30) DEF Asked
<1> QED BY <1>6, <1>7, Zenon

\* Returning, or removing, one of what is asked for is a step of the promise.
LEMMA AskedMaps ==
  ASSUME TypeOK, WindowInv, NEW ops, NEW c \in Wanted(ops), NEW x \in Asked(c),
         \/ Store' = Store /\ reply' = x[3]
         \/ Store' = Store \ {x} /\ reply' = <<"deleted">>
  PROVE  Promise!Next
<1>1. CASE c.uid = NULL
  <2>1. c.key \in Keys
    BY <1>1, TabForLemma, Zenon
  <2>2. x \in Promise!WithKey(c.key)
    BY <1>1, Zenon DEF Asked, Promise!WithKey
  <2>3. Promise!Find(Promise!WithKey(c.key)) \/ Promise!Delete(Promise!WithKey(c.key))
    BY <2>2, Zenon DEF Promise!Find, Promise!Delete, Promise!Returns
  <2> QED BY <2>1, <2>3, Zenon DEF Promise!Next
<1>2. CASE c.uid # NULL
  <2>1. c.uid \in Uids
    <3>1. PICK t \in Tabs, s \in Slots : c.uid = <<t, s>>
      BY <1>2, TabForLemma, Zenon
    <3> QED BY <3>1 DEF Uids
  <2>2. x \in Promise!WithUid(c.uid)
    BY <1>2, Zenon DEF Asked, Promise!WithUid
  <2>3. Promise!Find(Promise!WithUid(c.uid)) \/ Promise!Delete(Promise!WithUid(c.uid))
    BY <2>2, Zenon DEF Promise!Find, Promise!Delete, Promise!Returns
  <2> QED BY <2>1, <2>3, Zenon DEF Promise!Next
<1> QED BY <1>1, <1>2, Zenon

\* The UID that a put returns is of nothing that is stored.
LEMMA FreshLemma ==
  ASSUME IInv, NobodyInside, NEW tab \in Tabs, tab < tabs_used, NEW t \in Tabs, tabs[t] = tab,
         NEW s \in Slots, file[name[tab]].ref[s] = NULL, NEW x \in Store
  PROVE  x[1] # <<t, s>>
<1> SUFFICES ASSUME x[1] = <<t, s>> PROVE FALSE
  BY Zenon
<1>1. PICK e, r : Holds(e, r) /\ x = Triple(e, r)
  BY StoreIsHolds, Zenon DEF StoreIs
<1>2. r = s /\ e.tab = t
  BY <1>1, Zenon DEF Triple
<1>3. TypeOK /\ WindowInv /\ NoCopy /\ name[tab] # NULL
  BY QuietLemma, NullsAssumption, Zenon DEF IInv, NoCopy
<1>4. e # NULL /\ Elsewhere(tab, e, s)
  BY <1>1, <1>2, <1>3, InTablesHolds, Zenon DEF InTables
<1>5. PICK u \in Tabs : u # tab /\ name[u] # NULL /\ file[name[u]].ref[s] = e
  BY <1>4, Zenon DEF Elsewhere
<1>6. tabs[e.tab] = u
  BY <1>3, <1>4, <1>5, ZenonT(30) DEF WindowInv, Fits, Refs
<1> QED BY <1>2, <1>5, <1>6, Zenon

\* A put is a step of the promise: it stores under a new UID, or is not over.
LEMMA PutMaps ==
  ASSUME IInv, IInv', NEW p \in Procs, Put(p)
  PROVE  Promise!Next
<1>1. PICK c \in Puts : PutStore(p, c) \/ PutPart(p, c) \/ PutOverflow(p, c)
  BY PutLemma, Zenon
<1>2. NobodyInside
  BY Zenon DEF Put
<1>3. PICK tab : tab = TabOf(c.key)
  BY Zenon
<1>4. CASE PutStore(p, c)
  <2>1. /\ tab \in Tabs /\ tab < tabs_used /\ Ends(p)
        /\ \E n, s : /\ WriteTable(p, tab, n) /\ Adds(tab, n, s, Entry(c.key, c.val))
                     /\ reply' = <<Tab2Of[c.key], s>>
    BY <1>2, <1>3, <1>4, PutStoreWrites, Zenon
  <2>2. PICK n, s : /\ WriteTable(p, tab, n) /\ Adds(tab, n, s, Entry(c.key, c.val))
                    /\ reply' = <<Tab2Of[c.key], s>>
    BY <2>1, Zenon
  <2>3. PICK f, t : f = Entry(c.key, c.val) /\ t = Tab2Of[c.key]
    BY Zenon
  <2>4. c.key \in Keys /\ c.val \in Vals /\ t \in Tabs /\ tabs[t] = tab
    BY <2>3, <1>3, Constants, Zenon DEF Puts, TabOf
  <2>5. f \in Entries /\ Triple(f, s) = <<<<t, s>>, c.key, c.val>>
    BY <2>3, <2>4, Zenon DEF Entry, Entries, Triple
  <2>6. Store' = Store \cup {<<<<t, s>>, c.key, c.val>>}
    <3>1. UNCHANGED old /\ Adds(tab, n, s, f)
      BY <2>1, <2>2, <2>3, ZenonT(30) DEF Ends
    <3>2. Store' = Store \cup {Triple(f, s)}
      BY <3>1, <2>1, <2>2, <2>5, <1>2, AddHolds, Zenon
    <3> QED BY <3>2, <2>5, Zenon
  <2>7. s \in Slots /\ \A x \in Store : x[1] # <<t, s>>
    BY <2>1, <2>2, <2>4, <1>2, FreshLemma, Zenon DEF Adds
  <2>8. <<t, s>> \in Uids
    BY <2>4, <2>7 DEF Uids
  <2>9. Promise!Put(c.key, c.val)
    BY <2>2, <2>3, <2>6, <2>7, <2>8, Zenon DEF Promise!Put, Promise!Returns
  <2> QED BY <2>4, <2>9, Zenon DEF Promise!Next
<1>5. CASE PutPart(p, c)
  <2>1. PICK n, m : tab \in Tabs /\ tab < tabs_used /\ Parts(p, tab, n, m)
    BY <1>2, <1>3, <1>5, PutPartParts, Zenon
  <2>2. UNCHANGED old /\ reply' = NULL
    BY <1>5, Zenon DEF PutPart
  <2>3. Store' = Store
    BY <2>1, <2>2, <1>2, PartHolds, Zenon
  <2> QED BY <2>2, <2>3, WorkMaps, Zenon
<1>6. CASE PutOverflow(p, c)
  <2>1. UNCHANGED <<name, file, old>> /\ reply' = NULL
    BY <1>6, Zenon DEF PutOverflow
  <2> QED BY <2>1, StoreUnchanged, WorkMaps, Zenon
<1> QED BY <1>1, <1>4, <1>5, <1>6, Zenon

\* A delete is a step of the promise.
LEMMA DeleteMaps ==
  ASSUME IInv, IInv', NEW p \in Procs, Delete(p)
  PROVE  Promise!Next
<1>1. NobodyInside /\ Ends(p)
  BY DeleteWrites, Zenon
<1>2. PICK c \in Wanted({"delete"}), tab \in Tabs, n \in Inodes :
        /\ tab = TabFor(c) /\ n = name[tab] /\ tab < tabs_used
        /\ WriteTable(p, tab, n)
        /\ \/ /\ \E s \in Matches(file[n], c) : Removes(n, s)
              /\ reply' = <<"deleted">>
           \/ Matches(file[n], c) = {} /\ UNCHANGED file /\ reply' = NULL
  BY DeleteWrites, Zenon
<1>3. /\ TypeOK /\ WindowInv /\ name[tab] # NULL /\ UNCHANGED old /\ NoCopy
  BY <1>1, <1>2, QuietLemma, NullsAssumption, Zenon DEF IInv, Ends, NoCopy
<1>4. CASE (\E s \in Matches(file[n], c) : Removes(n, s)) /\ reply' = <<"deleted">>
  <2>1. PICK s \in Matches(file[n], c) : Removes(n, s)
    BY <1>4, Zenon
  <2>2. PICK x : x = Triple(file[n].ref[s], s)
    BY Zenon
  <2>3. s \in Refs(file[n]) /\ x \in Asked(c)
    BY <2>1, <2>2, <1>2, <1>3, MatchLemma, Zenon
  <2>4. Store' = Store \ {x}
    BY <2>1, <2>2, <2>3, <1>1, <1>2, <1>3, RemoveHolds, ZenonT(30)
  <2> QED BY <2>3, <2>4, <1>3, <1>4, AskedMaps, Zenon
<1>5. CASE UNCHANGED file /\ reply' = NULL
  <2>1. name' = name
    BY <1>2, <1>3, Zenon DEF WriteTable, TypeOK
  <2>2. Store' = Store
    BY <2>1, <1>3, <1>5, StoreUnchanged, Zenon
  <2> QED BY <2>2, <1>5, WorkMaps, Zenon
<1> QED BY <1>2, <1>4, <1>5, Zenon

\* The search of a get is a step of the promise.
LEMMA SearchMaps ==
  ASSUME OneGetter, IInv, NEW p \in Procs, Search(p)
  PROVE  Promise!Next
<1>1. PICK c, tab, t, found :
        /\ c = call[p] /\ tab = TabFor(c) /\ t = file[tab_mmap[p][tab]] /\ found = Matches(t, c)
        /\ pc[p] = "search"
        /\ reply' = IF found = {} THEN NULL ELSE t.ref[First(found)].val
        /\ UNCHANGED <<window, old>>
  BY ZenonT(30) DEF Search
<1>2. TypeOK /\ WindowInv /\ ProcInv(p)
  BY Zenon DEF IInv
<1>3. c \in Wanted({"find", "copy"}) /\ tab \in Tabs
  <2>1. pc[p] \in Working
    BY <1>1, Zenon DEF Working
  <2> QED BY <2>1, <1>1, ReaderLemma, Zenon
<1>4. name[tab] # NULL /\ t = file[name[tab]]
  <2>1. pc[p] \in {"search", "unlink", "copy"}
    BY <1>1, Zenon
  <2> QED BY <2>1, <1>1, <1>2, Zenon DEF ProcInv
<1>5. Store' = Store
  BY <1>1, StoreUnchanged, Zenon DEF window
<1>6. CASE found = {}
  BY <1>1, <1>5, <1>6, WorkMaps, Zenon
<1>7. CASE found # {}
  <2>1. PICK s, x : s = First(found) /\ x = Triple(t.ref[s], s)
    BY Zenon
  <2>2. found \subseteq Slots
    BY <1>1, Zenon DEF Matches, Refs
  <2>3. s \in found
    BY <2>1, <2>2, <1>7, FirstLemma, Zenon
  <2>4. x \in Asked(c)
    BY <2>1, <2>3, <1>1, <1>2, <1>3, <1>4, MatchLemma, ZenonT(30)
  <2>5. reply' = t.ref[s].val
    BY <2>1, <1>1, <1>7, Zenon
  <2>6. x[3] = t.ref[s].val
    BY <2>1, Zenon DEF Triple
  <2> QED BY <2>4, <2>5, <2>6, <1>2, <1>3, <1>5, AskedMaps, Zenon
<1> QED BY <1>6, <1>7, Zenon

\* Every step is a step of the promise, or nothing that it speaks of changes.
LEMMA NextMaps ==
  ASSUME OneGetter, IInv, IInv', [Next]_vars
  PROVE  [Promise!Next]_(Promise!promiseVars)
<1>1. ASSUME NEW p \in Procs, GetLock(p) \/ Detach(p)
      PROVE  Store' = Store /\ reply' = NULL
  BY <1>1, StoreUnchanged, Zenon DEF GetLock, Detach, window
<1>2. ASSUME NEW p \in Procs, Unlink(p) \/ Create(p) \/ CopyRef(p) \/ EndShrink(p)
      PROVE  Store' = Store /\ reply' = NULL
  <2>1. Store' = Store
    BY <1>2, UnlinkIInv, CreateIInv, CopyRefIInv, EndShrinkIInv, Zenon
  <2>2. reply' = NULL
    BY <1>2, Zenon DEF Unlink, Create, CopyRef, EndShrink
  <2> QED BY <2>1, <2>2, Zenon
<1>3. ASSUME NEW p \in Procs, Put(p) \/ Delete(p) \/ Read(p) \/ Detach(p)
      PROVE  Promise!Next
  BY <1>1, <1>2, <1>3, WorkMaps, PutMaps, DeleteMaps, SearchMaps, Zenon DEF Read
<1>4. ASSUME UNCHANGED vars PROVE UNCHANGED Promise!promiseVars
  <2>1. UNCHANGED <<name, file, old>> /\ reply' = reply
    BY <1>4, Zenon DEF vars, window
  <2> QED BY <2>1, StoreUnchanged, Zenon DEF Promise!promiseVars
<1> QED BY <1>3, <1>4, Zenon DEF Next

\* At first the files are empty.
LEMMA InitMaps ==
  ASSUME Init
  PROVE  Promise!Init
<1>1. \A i \in Inodes, s \in Slots : file[i].ref[s] = NULL
  BY Zenon DEF Init, NewTable
<1>2. \A x : x \notin Store
  BY <1>1, StoreIsHolds, Zenon DEF StoreIs, Holds, Live
<1>3. Store = {}
  BY <1>2, Zenon
<1> QED BY <1>3, Zenon DEF Init, Promise!Init

-----------------------------------------------------------------------------
(***************************************************************************)
(* Theorems.  OneGetter is needed: with two processes that get keys, the   *)
(* one finds a table's file removed, or half copied, by the other.         *)
(***************************************************************************)
\* The inductive invariant of the window, its files, and the processes' mappings.
THEOREM WindowInvariant ==
  ASSUME OneGetter
  PROVE  Spec => []IInv
<1>1. Init => IInv
  BY InitIInv, Zenon
<1>2. IInv /\ [Next]_vars => IInv'
  BY NextIInv, Zenon
<1> QED BY <1>1, <1>2, PTL DEF Spec

\* The assertions of shf_tab_part never fail: each ref is in the table that its
\* table index is redirected to, for any number of tables, rows, refs and keys,
\* and any number of processes that put, delete and detach beside the one that
\* gets.
THEOREM RefsBelongHolds ==
  ASSUME OneGetter
  PROVE  Spec => []RefsBelong
<1>1. ASSUME IInv PROVE RefsBelong
  <2>1. \A t \in Tabs : name[t] # NULL => \A s \in Refs(file[name[t]]) :
          tabs[file[name[t]].ref[s].tab] = t
    BY <1>1, Zenon DEF IInv, WindowInv, Fits
  <2>2. \A p \in Procs : old[p] # NULL => \A s \in Refs(file[old[p]]) :
          tabs[file[old[p]].ref[s].tab] = TabFor(call[p])
    BY <1>1, ZenonT(30) DEF IInv, ProcInv, Fits
  <2> QED BY <2>1, <2>2, <1>1, Zenon DEF IInv, WindowInv, RefsBelong
<1> QED BY <1>1, WindowInvariant, PTL

\* tab_data_used is what the live refs of a table take, so that the decision to
\* shrink rests on the right number however the table was parted and shrunk.
THEOREM DataCountedHolds ==
  ASSUME OneGetter
  PROVE  Spec => []DataCounted
<1>1. IInv => DataCounted
  BY Zenon DEF IInv, WindowInv, Fits, DataCounted
<1> QED BY <1>1, WindowInvariant, PTL

\* The count of mappings that shf_detach asserts is right for every process that
\* attaches, gets, puts and detaches among any number of others, and no other
\* assertion ends a process, until a put has ended by "tab overflow".
THEOREM OnlyOverflowExitsHolds ==
  ASSUME OneGetter
  PROVE  Spec => []OnlyOverflowExits
<1>1. IInv => OnlyOverflowExits
  BY Zenon DEF IInv, ProcInv, OnlyOverflowExits
<1> QED BY <1>1, WindowInvariant, PTL

\* A get by key or by UID finds every key that is stored when it looks, while
\* the other processes part and shrink the tables.
THEOREM NothingMissedHolds ==
  ASSUME OneGetter
  PROVE  Spec => []NothingMissed
<1>1. IInv => NothingMissed
  BY Zenon DEF IInv, NothingMissed
<1> QED BY <1>1, WindowInvariant, PTL

\* The window is a store of keys and values that each have a UID: partings,
\* shrinkings and copies change nothing that is stored, a put adds what it was
\* given under a UID that nothing else has, a delete removes one entry with the
\* key or UID that it names, and a get returns the value of such an entry.
THEOREM KeepsPromiseHolds ==
  ASSUME OneGetter
  PROVE  Spec => KeepsPromise
<1>1. Init => Promise!Init
  BY InitMaps, Zenon
<1>2. IInv /\ IInv' /\ [Next]_vars => [Promise!Next]_(Promise!promiseVars)
  BY NextMaps, Zenon
<1> QED BY <1>1, <1>2, WindowInvariant, PTL DEF Spec, KeepsPromise, Promise!Spec
=============================================================================
