------------------------------ MODULE ShfTable ------------------------------
(***************************************************************************)
(* One window of a SharedHashFile (shf.c): its tables are files that each  *)
(* process maps into memory.  A table whose row is full is parted in two;  *)
(* a table with too much deleted data is shrunk, which is to say replaced  *)
(* by a new file of the same name.  Who has mapped the old file sees its   *)
(* tab_size of 1 and maps the new one.                                     *)
(*                                                                         *)
(* What a process does under the window's writer lock is one step, because *)
(* nobody is inside meanwhile (ShfRwLock).  Readers are inside together,   *)
(* so they take a step to search a row and one for each change they make.  *)
(*                                                                         *)
(* A key stands for its hash; all keys and values have the same length,    *)
(* and a table's data never outgrows the size its file starts with.        *)
(***************************************************************************)
EXTENDS Integers, FiniteSets, FiniteSetsExt

CONSTANTS Procs,      \* processes that have the SharedHashFile attached
          Getters,    \* those among them that look for keys
          Keys, Vals,
          Tab2Of,     \* the table index each key hashes to
          RowOf,      \* the row each key hashes to
          TABS,       \* SHF_TABS_PER_WIN, 2048 in the code
          REFS,       \* SHF_REFS_PER_ROW, 16 in the code
          Inodes,     \* bound: files that may exist at the same time
          NULL, REPLACED

ASSUME SizesAssumption ==
  /\ TABS \in Nat \ {0} /\ REFS \in Nat \ {0} /\ Inodes \subseteq Nat
  /\ Getters \subseteq Procs
  /\ Tab2Of \in [Keys -> 0..(TABS - 1)] /\ DOMAIN RowOf = Keys

Tabs  == 0..(TABS - 1)
Rows  == {RowOf[k] : k \in Keys}
Slots == Rows \X (1..REFS)

\* A UID is the table index before the indirection, the row and the ref.
Uids == {<<tab2, s>> : tab2 \in Tabs, s \in Slots}

\* A ref: the table index it was stored under, its key and its value.
Entries == [tab : Tabs, key : Keys, val : Vals]

\* What a key and its value take: type, lengths and bytes.
DATA == 10

\* Every table can have a file, and one of them a second one while it is copied.
ASSUME BoundsAssumption ==
  IsFiniteSet(Rows) /\ IsFiniteSet(Inodes) /\ Cardinality(Inodes) > TABS

ASSUME NullsAssumption ==
  /\ NULL # REPLACED /\ {NULL, REPLACED} \cap Inodes = {}
  /\ NULL \notin Procs /\ NULL \notin Uids /\ NULL \notin Entries

VARIABLES
  tabs,        \* the indirection: the table that each table index is in
  tabs_used,
  name,        \* the file of each table's name, or NULL
  file,        \* the contents of the files
  readers,     \* who holds the window's lock for reading
  writer,      \* who ended while it held the lock for writing, or NULL
  tab_mmap,    \* the file each process has mapped for each table: NULL when
               \* none, REPLACED when a file whose tab_size was set to 1
  count_mmap,  \* the mmap calls each process counts
  pc, call,    \* where each process is, and the arguments of its call
  old,         \* the file that a reader copies from, or NULL
  reply,       \* what the call that just ended returned, or NULL
  missed       \* history: somebody looked for a stored key and did not find it

window == <<tabs, tabs_used, name, file>>
vars == <<window, readers, writer, tab_mmap, count_mmap, pc, call, old, reply,
          missed>>

-----------------------------------------------------------------------------
(***************************************************************************)
(* Tables.                                                                 *)
(***************************************************************************)
NewTable ==
  [ref |-> [s \in Slots |-> NULL], used |-> 0, free |-> 0]

Refs(t) == {s \in Slots : t.ref[s] # NULL}

\* SHF_TAB_APPEND and the ref that is set after it.
Stored(t, s, entry) == [t EXCEPT !.ref[s] = entry, !.used = @ + DATA]

\* Mutation: the bytes are not taken from the used ones.
DeletedUncounted(t, s) == [t EXCEPT !.ref[s] = NULL, !.free = @ + DATA]

\* SHF_TAB_REF_MARK_AS_DELETED
Deleted(t, s) ==
  [t EXCEPT !.ref[s] = NULL, !.used = @ - DATA, !.free = @ + DATA]

\* Mutation: every ref is copied, whatever its table index.
CopiedAll(t, slots) ==
  [NewTable EXCEPT !.ref = t.ref, !.used = DATA * Cardinality(slots)]

\* SHF_TAB_REF_COPY of some refs to an empty table: same row, same ref.
Copied(t, slots) ==
  [NewTable EXCEPT
     !.ref  = [s \in Slots |-> IF s \in slots THEN t.ref[s] ELSE NULL],
     !.used = DATA * Cardinality(slots)]

\* When a table is shrunk after a put and after a get.
MuchAfterPut(t) == t.free > (t.used * 20) \div 100
MuchAfterGet(t) == t.free > t.used \div 4

\* Files that nobody has a name or a mapping for.
FreeInodes ==
  {i \in Inodes : /\ \A t \in Tabs : name[t] # i
                  /\ \A p \in Procs : old[p] # i
                  /\ \A p \in Procs, t \in Tabs : tab_mmap[p][t] # i}

NewInode == Min(FreeInodes)

\* SHF_GET_TAB_MMAP: the file p works on, NULL when stat finds none.
Mapped(p, t) ==
  IF tab_mmap[p][t] \in {NULL, REPLACED} THEN name[t] ELSE tab_mmap[p][t]

\* The mappings when the tab_size of file i is set to 1.
Replaced(i) ==
  [p \in Procs |-> [t \in Tabs |->
     IF tab_mmap[p][t] = i THEN REPLACED ELSE tab_mmap[p][t]]]

\* What p counts when it maps table t for the first time.
FirstMap(p, t) == IF tab_mmap[p][t] = NULL THEN 1 ELSE 0

\* p maps file i for table t.
Map(p, t, i) ==
  /\ tab_mmap' = [tab_mmap EXCEPT ![p][t] = i]
  /\ count_mmap' = [count_mmap EXCEPT ![p] = @ + FirstMap(p, t)]

\* Mutation: the ref holds the table instead of the index before redirection.
EntryRedirected(k, v) == [tab |-> tabs[Tab2Of[k]], key |-> k, val |-> v]

Entry(k, v) == [tab |-> Tab2Of[k], key |-> k, val |-> v]

TabOf(k) == tabs[Tab2Of[k]]

\* The refs that match what a call asks for: a key, or a UID.
Matches(t, c) ==
  IF c.uid = NULL
    THEN {s \in Refs(t) : /\ s[1] = RowOf[c.key]
                          /\ t.ref[s].tab = Tab2Of[c.key]
                          /\ t.ref[s].key = c.key}
    ELSE {s \in Refs(t) : s = c.uid[2] /\ t.ref[s].tab = c.uid[1]}

\* The search stops at the first ref of the row that matches.
First(slots) == CHOOSE s \in slots : \A r \in slots : s[2] <= r[2]

\* The table a call is about, looked up after the lock is taken.
TabFor(c) == IF c.uid = NULL THEN TabOf(c.key) ELSE tabs[c.uid[1]]

Init ==
  /\ tabs = [t \in Tabs |-> 0] /\ tabs_used = 1
  /\ name = [t \in Tabs |-> IF t = 0 THEN Min(Inodes) ELSE NULL]
  /\ file = [i \in Inodes |-> NewTable]
  /\ readers = {} /\ writer = NULL
  /\ tab_mmap = [p \in Procs |-> [t \in Tabs |-> NULL]]
  /\ count_mmap = [p \in Procs |-> 1]
  /\ pc = [p \in Procs |-> "idle"]
  /\ call = [p \in Procs |-> NULL] /\ old = [p \in Procs |-> NULL]
  /\ reply = NULL
  /\ missed = FALSE

-----------------------------------------------------------------------------
(***************************************************************************)
(* Calls.  A key is put, or found, copied or deleted by key or by UID.  A  *)
(* call does nothing before it has the lock, so it starts with that; a put *)
(* takes the lock again after it parted a table, so its call is on record. *)
(***************************************************************************)
Puts == [op : {"put"}, key : Keys, val : Vals, uid : {NULL}]

Wanted(ops) ==
  [op : ops, key : Keys, val : {NULL}, uid : {NULL}]
    \cup [op : ops, key : {NULL}, val : {NULL}, uid : Uids]

Goto(p, l) == pc' = [pc EXCEPT ![p] = l] /\ UNCHANGED call

Return(p) ==
  pc' = [pc EXCEPT ![p] = "idle"] /\ call' = [call EXCEPT ![p] = NULL]

\* It is a writer's turn to have the lock.
NobodyInside == readers = {} /\ writer = NULL

\* What p may put: anything when it starts, the same again after parting.
Putting(p) == [idle |-> Puts, put |-> {call[p]}]

\* Mutation: the old file is not marked as replaced.
ShrinkUnmarked(p, tab, i, t) ==
  LET n == NewInode
  IN  /\ file' = [file EXCEPT ![n] = Copied(t, Refs(t))]
      /\ name' = [name EXCEPT ![tab] = n]
      /\ tab_mmap' = [tab_mmap EXCEPT ![p][tab] = n]
      /\ count_mmap' = [count_mmap EXCEPT ![p] = @ + FirstMap(p, tab)]

\* shf_tab_shrink under the writer lock: t, the contents of file i, goes to a
\* new file, and what was in the old one is lost.
Shrink(p, tab, i, t) ==
  LET n == NewInode
  IN  /\ file' = [file EXCEPT ![i] = NewTable, ![n] = Copied(t, Refs(t))]
      /\ name' = [name EXCEPT ![tab] = n]
      /\ tab_mmap' = [Replaced(i) EXCEPT ![p][tab] = n]
      /\ count_mmap' = [count_mmap EXCEPT ![p] = @ + FirstMap(p, tab)]

\* shf_put_key_val when the row has room.
PutStore(p, c) ==
  LET tab  == TabOf(c.key)
      i    == Mapped(p, tab)
      room == {n \in 1..REFS : file[i].ref[<<RowOf[c.key], n>>] = NULL}
      s    == <<RowOf[c.key], Min(room)>>
      t    == Stored(file[i], s, Entry(c.key, c.val))
  IN  /\ room # {}
      /\ IF MuchAfterPut(t)
           THEN Shrink(p, tab, i, t)
           ELSE file' = [file EXCEPT ![i] = t] /\ Map(p, tab, i) /\ UNCHANGED name
      /\ reply' = <<Tab2Of[c.key], s>>
      /\ Return(p)
      /\ UNCHANGED <<tabs, tabs_used, readers, writer, old, missed>>

\* Every second one of the indices in table "from" goes to table "to".
Redirected(from, to) ==
  LET before(t) == Cardinality({u \in Tabs : u < t /\ tabs[u] = from})
  IN  [t \in Tabs |-> IF tabs[t] = from /\ before(t) % 2 = 1 THEN to ELSE tabs[t]]

RowFull(p, k) ==
  \A n \in 1..REFS : file[Mapped(p, TabOf(k))].ref[<<RowOf[k], n>>] # NULL

\* Mutation: the put starts again without having made room.
PutPartNothing(p, c) ==
  /\ RowFull(p, c.key)
  /\ tabs_used < TABS
  /\ pc' = [pc EXCEPT ![p] = "put"] /\ call' = [call EXCEPT ![p] = c]
  /\ reply' = NULL
  /\ UNCHANGED <<window, readers, writer, tab_mmap, count_mmap, old, missed>>

\* shf_tab_part, and the unlock before the put starts again.
PutPart(p, c) ==
  LET tab     == TabOf(c.key)
      i       == Mapped(p, tab)
      tab_new == tabs_used
      n       == NewInode
      m       == Min(FreeInodes \ {n})
      moved   == {s \in Refs(file[i]) : tabs'[file[i].ref[s].tab] = tab_new}
  IN  /\ RowFull(p, c.key)
      /\ tab_new < TABS
      /\ tabs_used' = tabs_used + 1
      /\ tabs' = Redirected(tab, tab_new)
      /\ file' = [file EXCEPT ![i] = NewTable, ![m] = Copied(file[i], moved),
                              ![n] = Copied(file[i], Refs(file[i]) \ moved)]
      /\ name' = [name EXCEPT ![tab] = n, ![tab_new] = m]
      /\ tab_mmap' = [Replaced(i) EXCEPT ![p][tab] = n, ![p][tab_new] = m]
      /\ count_mmap' = [count_mmap EXCEPT ![p] = @ + FirstMap(p, tab) + 1]
      /\ pc' = [pc EXCEPT ![p] = "put"] /\ call' = [call EXCEPT ![p] = c]
      /\ reply' = NULL
      /\ UNCHANGED <<readers, writer, old, missed>>

\* "tab overflow": the assertion ends the process, which still has the lock.
PutOverflow(p, c) ==
  /\ RowFull(p, c.key)
  /\ tabs_used >= TABS
  /\ tabs_used' = tabs_used + 1
  /\ writer' = p
  /\ pc' = [pc EXCEPT ![p] = "exited"] /\ call' = [call EXCEPT ![p] = c]
  /\ reply' = NULL
  /\ UNCHANGED <<tabs, name, file, readers, tab_mmap, count_mmap, old, missed>>

\* shf_put_key_val: it takes the lock, and again after each parting.
Put(p) ==
  /\ NobodyInside
  /\ pc[p] \in {"idle", "put"}
  /\ \E c \in Putting(p)[pc[p]] :
       PutStore(p, c) \/ PutPart(p, c) \/ PutOverflow(p, c)

\* What is stored, be it in a table or still in the file a table is copied
\* from, as triples of a UID, a key and a value.
Store ==
  LET files == {i \in Inodes : (\E t \in Tabs : name[t] = i)
                                 \/ (\E p \in Procs : old[p] = i)}
      entry(i, s) == file[i].ref[s]
  IN  {<<<<entry(x[1], x[2]).tab, x[2]>>, entry(x[1], x[2]).key,
         entry(x[1], x[2]).val>> :
        x \in {y \in files \X Slots : file[y[1]].ref[y[2]] # NULL}}

Asked(c) == {e \in Store : IF c.uid = NULL THEN e[2] = c.key ELSE e[1] = c.uid}

\* shf_find_key_internal with SHF_FIND_KEY_OR_UID_AND_DELETE
Delete(p) ==
  \E c \in Wanted({"delete"}) :
    LET tab   == TabFor(c)
        i     == Mapped(p, tab)
        found == Matches(file[i], c)
    IN  /\ pc[p] = "idle" /\ NobodyInside
        /\ Map(p, tab, i)
        /\ IF found # {}
             THEN /\ file' = [file EXCEPT ![i] = Deleted(@, First(found))]
                  /\ reply' = <<"deleted">>
             ELSE reply' = NULL /\ UNCHANGED file
        /\ missed' = (missed \/ (found = {} /\ Asked(c) # {}))
        /\ UNCHANGED <<tabs, tabs_used, name, readers, writer, pc, call, old>>

-----------------------------------------------------------------------------
(***************************************************************************)
(* shf_find_key_internal for a reader.                                     *)
(***************************************************************************)
Exit(p) == Goto(p, "exited") /\ UNCHANGED <<tab_mmap, count_mmap>>

\* It has the lock for reading and maps the table; without a file the stat
\* assertion ends the process.
GetLock(p) ==
  /\ p \in Getters
  /\ pc[p] = "idle" /\ writer = NULL
  /\ readers' = readers \cup {p}
  /\ \E c \in Wanted({"find", "copy"}) :
       /\ call' = [call EXCEPT ![p] = c]
       /\ IF Mapped(p, TabFor(c)) = NULL
            THEN /\ pc' = [pc EXCEPT ![p] = "exited"]
                 /\ UNCHANGED <<tab_mmap, count_mmap>>
            ELSE /\ pc' = [pc EXCEPT ![p] = "search"]
                 /\ Map(p, TabFor(c), Mapped(p, TabFor(c)))
  /\ reply' = NULL
  /\ UNCHANGED <<window, writer, old, missed>>

\* It looks for the ref and copies the value.  A get that meets much deleted
\* data goes on to shrink the table, with the lock for reading.
Search(p) ==
  LET c     == call[p]
      t     == file[tab_mmap[p][TabFor(c)]]
      found == Matches(t, c)
  IN  /\ pc[p] = "search"
      /\ reply' = IF found = {} THEN NULL ELSE t.ref[First(found)].val
      /\ missed' = (missed \/ (found = {} /\ Asked(c) # {}))
      /\ IF found # {} /\ c.op = "copy" /\ MuchAfterGet(t)
           THEN Goto(p, "unlink") /\ UNCHANGED readers
           ELSE Return(p) /\ readers' = readers \ {p}
      /\ UNCHANGED <<window, writer, tab_mmap, count_mmap, old>>

\* shf_tab_shrink by a reader: the name of the old file is removed, ...
Unlink(p) ==
  LET tab == TabFor(call[p])
  IN  /\ pc[p] = "unlink"
      /\ IF name[tab] = NULL
           THEN Exit(p) /\ UNCHANGED <<name, old>>
           ELSE /\ old' = [old EXCEPT ![p] = Mapped(p, tab)]
                /\ name' = [name EXCEPT ![tab] = NULL]
                /\ tab_mmap' = [tab_mmap EXCEPT ![p][tab] = NULL]
                /\ Goto(p, "create")
                /\ UNCHANGED count_mmap
      /\ reply' = NULL
      /\ UNCHANGED <<tabs, tabs_used, file, readers, writer, missed>>

\* ... a new file is created and mapped, ...
Create(p) ==
  LET tab == TabFor(call[p])
      i   == IF name[tab] = NULL THEN NewInode ELSE name[tab]
  IN  /\ pc[p] = "create"
      /\ name' = [name EXCEPT ![tab] = i]
      /\ file' = [file EXCEPT ![i] = IF name[tab] = NULL THEN NewTable ELSE @]
      /\ Map(p, tab, i)
      /\ Goto(p, "copy")
      /\ reply' = NULL
      /\ UNCHANGED <<tabs, tabs_used, readers, writer, old, missed>>

\* ... each ref goes to the same place of the new file, ...
CopyRef(p) ==
  LET i == old[p]
      n == tab_mmap[p][TabFor(call[p])]
      s == CHOOSE r \in Refs(file[i]) : TRUE
  IN  /\ pc[p] = "copy"
      /\ Refs(file[i]) # {}
      /\ file' = [file EXCEPT ![n] = Stored(@, s, file[i].ref[s]),
                              ![i] = Deleted(@, s)]
      /\ reply' = NULL
      /\ UNCHANGED <<tabs, tabs_used, name, readers, writer, tab_mmap, count_mmap,
                     pc, call, old, missed>>

\* Mutation: the mapping of the old file stays counted.
EndShrinkUncounted(p) ==
  /\ pc[p] = "copy"
  /\ Refs(file[old[p]]) = {}
  /\ file' = [file EXCEPT ![old[p]] = NewTable]
  /\ tab_mmap' = Replaced(old[p])
  /\ old' = [old EXCEPT ![p] = NULL]
  /\ readers' = readers \ {p}
  /\ Return(p)
  /\ reply' = NULL
  /\ UNCHANGED <<tabs, tabs_used, name, writer, count_mmap, missed>>

\* ... and the others are told to map the new file.
EndShrink(p) ==
  /\ pc[p] = "copy"
  /\ Refs(file[old[p]]) = {}
  /\ file' = [file EXCEPT ![old[p]] = NewTable]
  /\ tab_mmap' = Replaced(old[p])
  /\ old' = [old EXCEPT ![p] = NULL]
  /\ count_mmap' = [count_mmap EXCEPT ![p] = @ - 1]
  /\ readers' = readers \ {p}
  /\ Return(p)
  /\ reply' = NULL
  /\ UNCHANGED <<tabs, tabs_used, name, writer, missed>>

\* The munmap calls for the tables of the window.  The loop goes up to tabs_used,
\* which an overflow leaves one above the number of tables: what is read there is
\* the first table of the next window, which p may have mapped too.
Munmaps(p) ==
  LET n == Cardinality({t \in Tabs : t < tabs_used /\ tab_mmap[p][t] # NULL})
  IN  IF tabs_used > TABS THEN {n, n + 1} ELSE {n}

\* shf_detach, and shf_attach_existing after it.  The assertion: as many munmap
\* calls as mmap calls, one of them for the window itself.
Detach(p) ==
  /\ pc[p] = "idle"
  /\ \E n \in Munmaps(p) :
       IF count_mmap[p] = 1 + n
         THEN /\ tab_mmap' = [tab_mmap EXCEPT ![p] = [t \in Tabs |-> NULL]]
              /\ count_mmap' = [count_mmap EXCEPT ![p] = 1]
              /\ UNCHANGED <<pc, call>>
         ELSE Exit(p)
  /\ reply' = NULL
  /\ UNCHANGED <<window, readers, writer, old, missed>>

Read(p) ==
  \/ GetLock(p) \/ Search(p)
  \/ Unlink(p) \/ Create(p) \/ CopyRef(p) \/ EndShrink(p)

Next == \E p \in Procs : Put(p) \/ Delete(p) \/ Read(p) \/ Detach(p)

Spec == Init /\ [][Next]_vars

\* A process that waits for the lock gets its turn however many others come
\* (NoStarvation of ShfRwLock), and inside it does not stop.
FairSpec ==
  Spec /\ \A p \in Procs : SF_vars(pc[p] = "put" /\ Put(p))
                             /\ WF_vars(pc[p] # "idle" /\ Read(p))

-----------------------------------------------------------------------------
(***************************************************************************)
(* Properties.                                                             *)
(***************************************************************************)
Tables == [ref : [Slots -> Entries \cup {NULL}], used : Nat, free : Nat]

\* Type invariant of the window's header, its files and the processes.
TypeOK ==
  /\ tabs \in [Tabs -> Tabs] /\ tabs_used \in 1..(TABS + 1)
  /\ name \in [Tabs -> Inodes \cup {NULL}]
  /\ file \in [Inodes -> Tables]
  /\ readers \subseteq Procs /\ writer \in Procs \cup {NULL}
  /\ tab_mmap \in [Procs -> [Tabs -> Inodes \cup {NULL, REPLACED}]]
  /\ count_mmap \in [Procs -> Nat]
  /\ pc \in [Procs -> {"idle", "put", "search", "unlink", "create", "copy",
                       "exited"}]
  /\ call \in [Procs -> Puts \cup Wanted({"find", "copy"}) \cup {NULL}]
  /\ old \in [Procs -> Inodes \cup {NULL}]
  /\ reply \in Uids \cup Vals \cup {<<"deleted">>, NULL}
  /\ missed \in BOOLEAN

\* The assertions of shf_tab_part ("INTERNAL: expected tab %u or %u but got %u
\* during parting"): each ref is in the table that its table index is redirected
\* to, be it in the table itself or in a file that the table is copied from, and
\* only tables that exist are redirected to.
RefsBelong ==
  /\ TypeOK
  /\ \A t \in Tabs : name[t] # NULL => \A s \in Refs(file[name[t]]) :
                       tabs[file[name[t]].ref[s].tab] = t
  /\ \A p \in Procs : old[p] # NULL => \A s \in Refs(file[old[p]]) :
                       tabs[file[old[p]].ref[s].tab] = TabFor(call[p])
  /\ \A t \in Tabs : tabs[t] < tabs_used

\* What decides on shrinking, tab_data_used, is what the live refs take, in every
\* table, after any sequence of puts, deletes, partings and shrinkings.
DataCounted ==
  \A t \in Tabs : name[t] # NULL =>
    file[name[t]].used = DATA * Cardinality(Refs(file[name[t]]))

\* shf_detach asserts that munmap was called as often as mmap: after any sequence
\* of puts, partings, shrinkings and remappings by all processes the count is
\* right, and no process ends by that assertion or by another one until a put has
\* met a full row with all the tables in use, and has ended with the lock held.
OnlyOverflowExits ==
  \A p \in Procs : pc[p] = "exited" => tabs_used > TABS /\ writer # NULL

\* shf.h: "Every key stored can be accessed by the key or a 32 bit UID."  No get
\* and no delete misses a key that was stored before it and is not deleted.
NothingMissed == ~missed

Promise == INSTANCE ShfPromise WITH store <- Store

\* The window is the store it promises to be: parting and shrinking change
\* nothing that a caller sees, a UID stays valid until it is deleted, and gets
\* return what was put.
KeepsPromise == Promise!Spec

\* A put ends, even though other processes may fill the rows that it makes room
\* in by parting; unless a process ended with the lock held, after which all wait.
PutEnds ==
  \A p \in Procs :
    pc[p] = "put" ~> (pc[p] = "idle" \/ writer # NULL)
=============================================================================
