-------------------------------- MODULE Pak --------------------------------
(***************************************************************************)
(* The file system of a controller pak with one bank: libultra's pfs*.c    *)
(* and contpfs.c below, the pack* functions of saves.c on top.             *)
(*                                                                         *)
(* The pak holds two copies of a page table (inode and minode), each       *)
(* written block by block and sealed by a checksum in its first entry, a   *)
(* directory, and pages of data.  RAM holds one cached copy of the table   *)
(* and the flag that the pak was initialised.  An operation reads what it  *)
(* needs, decides on its writes, and then carries them out one block at a  *)
(* time (todo): power may fail between any two, and a write may fail.      *)
(*                                                                         *)
(* Scaled down: TableSize entries for 128, EntriesPerBlock for 16; a page  *)
(* of data is written by one step, not eight; names stand for the company  *)
(* code, game code, game name and extension together.                      *)
(***************************************************************************)
EXTENDS Naturals, FiniteSets, Sequences, SequencesExt

CONSTANTS
  Names,            \* files a game may save
  NoFile,           \* an unused directory entry
  NoTable,          \* nothing cached
  DirSize,          \* entries of the directory (16)
  FirstPage,        \* inode_start_page: 1 + DEF_DIR_PAGES + 2 * banks = 5
  TableSize,        \* entries of a table, the reserved ones included (128)
  EntriesPerBlock,  \* entries in one 32-byte block of the table (16)
  Sizes,            \* sizes of files, in pages
  FailsAt           \* pairs <<request, kind of write>> that may fail

EOF == 1   \* PFS_EOF
FREE == 3  \* PFS_PAGE_NOT_USED

Pages == FirstPage..(TableSize - 1)
Entries == {0} \cup Pages   \* the entries between are constant
Slots == 1..DirSize
Blocks == (TableSize - 1) \div EntriesPerBlock + 1

ASSUME PakAssumption ==
  /\ FirstPage \in Nat /\ FirstPage > FREE
  /\ TableSize \in (FirstPage + 1)..128
  /\ EntriesPerBlock \in Nat \ {0} /\ DirSize \in Nat \ {0}
  /\ Sizes \subseteq Nat \ {0}
  /\ NoFile \notin Names
  /\ NoFile \notin [name : Names, start : Pages, occupied : BOOLEAN]

VARIABLES
  disk,      \* the two copies of the page table
  dir,       \* the directory
  content,   \* which file last wrote each page of data
  cache,     \* __osPfsInodeCache
  mounted,   \* PFS_INITIALIZED of pfs->status
  op,        \* the request under way
  todo,      \* the blocks it has still to write, in order
  saved,     \* pages of the file last reported as saved, by name (history)
  clean      \* checked, and no write failed since (history)

vars == <<disk, dir, content, cache, mounted, op, todo, saved, clean>>

-----------------------------------------------------------------------------
(* Page tables.                                                            *)

\* Eight bits; the bank byte of each entry is 0 with a single bank.
__osSumcalc(t) ==
  LET sum[e \in FirstPage..TableSize] == IF e = TableSize THEN 0 ELSE t[e] + sum[e + 1]
  IN  sum[FirstPage] % 256
Sealed(t) == [t EXCEPT ![0] = __osSumcalc(t)]
SumOK(t) == t[0] = __osSumcalc(t)

\* The pages from p on, as long as they lead to a page not yet passed.
Walk(t, p) ==
  LET at[i \in 1..Cardinality(Pages)] ==
        IF i = 1 THEN p ELSE IF at[i - 1] \in Pages THEN t[at[i - 1]] ELSE EOF
      new(i) == at[i] \in Pages /\ \A j \in 1..(i - 1) : at[j] # at[i]
  IN  [i \in {k \in 1..Cardinality(Pages) : \A j \in 1..k : new(j)} |-> at[i]]

Ends(t, p) == Walk(t, p) # <<>> /\ t[Last(Walk(t, p))] = EOF

\* A set of numbers, in the order a loop that counts up meets them.
Ascending(S) ==
  CHOOSE s \in [1..Cardinality(S) -> S] : \A i, j \in DOMAIN s : i < j => s[i] < s[j]

\* Mutant: a page that leads nowhere is taken for free.
FreeOrLast(t) == Ascending({p \in Pages : t[p] \notin Pages})

\* The free pages, in the order the search meets them.
FreePages(t) == Ascending({p \in Pages : t[p] = FREE})

\* The first free pages become a chain that ends in PFS_EOF.
__osPfsDeclearPage(t, n) ==
  LET got == SubSeq(FreePages(t), 1, n)
  IN  [first |-> got[1], pages |-> got,
       inode |-> [e \in Entries |->
                    IF e \notin ToSet(got) THEN t[e]
                    ELSE IF e = Last(got) THEN EOF
                    ELSE got[CHOOSE i \in 2..n : got[i - 1] = e]]]

\* Mutant: the freed entries are zeroed.
ReleaseToZero(t, p) ==
  [ok    |-> t[p] = EOF \/ t[p] \in Pages,
   inode |-> [e \in Entries |-> IF e \in ToSet(Walk(t, p)) THEN 0 ELSE t[e]]]

\* Refused when the first link leads nowhere.
__osPfsReleasePages(t, p) ==
  [ok    |-> t[p] = EOF \/ t[p] \in Pages,
   inode |-> [e \in Entries |-> IF e \in ToSet(Walk(t, p)) THEN FREE ELSE t[e]]]

-----------------------------------------------------------------------------
(* __osPfsRWInode.                                                         *)

Write(to, at, val) == [to |-> to, at |-> at, val |-> val]

\* Block after block, each to the table and then to its mirror.
__osPfsWriteInode(t) ==
  [i \in 1..(2 * Blocks) |->
     Write(IF i % 2 = 1 THEN "inode" ELSE "minode", (i - 1) \div 2, Sealed(t))]

\* A good mirror is copied back over a bad table.
Restore == [i \in 1..Blocks |-> Write("restore", i - 1, disk["minode"])]

__osPfsReadInode(cached) ==
  IF cached # NoTable THEN [ok |-> TRUE, inode |-> cached, todo |-> <<>>]
  ELSE IF SumOK(disk["inode"])
       THEN [ok |-> TRUE, inode |-> disk["inode"], todo |-> <<>>]
  ELSE IF SumOK(disk["minode"])
       THEN [ok |-> TRUE, inode |-> disk["minode"], todo |-> Restore]
  ELSE [ok |-> FALSE, inode |-> disk["minode"], todo |-> <<>>]

NoOp == [kind |-> "none", name |-> NoFile, size |-> 0, whole |-> TRUE]

CacheAfter(read) == IF read.ok THEN read.inode ELSE NoTable

-----------------------------------------------------------------------------
(* osPfsChecker.                                                           *)

Hits(t, p) == Cardinality({q \in Pages : t[q] = p})

\* Nothing leads to the first page, one entry to each later one, and the
\* chain ends in PFS_EOF: the file is whole.
Whole(t, p) ==
  /\ Ends(t, p)
  /\ \A i \in DOMAIN Walk(t, p) : Hits(t, Walk(t, p)[i]) = (IF i = 1 THEN 0 ELSE 1)

Broken(t) == {s \in Slots : dir[s] # NoFile /\ ~Whole(t, dir[s].start)}
Kept(t) == {s \in Slots : dir[s] # NoFile} \ Broken(t)

\* Mutant: the table is sealed again, but lost pages are not taken back.
ResealedOnly(t) == t

\* Only the pages of the files that are left stay taken.
Rebuilt(t) ==
  LET used == UNION {ToSet(Walk(t, dir[s].start)) : s \in Kept(t)}
  IN  [e \in Entries |-> IF e \in {0} \cup used THEN t[e] ELSE FREE]

\* Mutant: when neither copy of the table can be read, the pak is emptied.
CheckerGivesUp(cached) ==
  LET read == __osPfsReadInode(cached)
      gone == Ascending(IF read.ok THEN Broken(read.inode) ELSE {s \in Slots : dir[s] # NoFile})
  IN  read.todo
      \o [i \in DOMAIN gone |-> Write("dir", gone[i], NoFile)]
      \o __osPfsWriteInode(Rebuilt(read.inode))

\* Broken files leave the directory first, then the table is written anew.
osPfsChecker(cached) ==
  LET read == __osPfsReadInode(cached)
      gone == Ascending(Broken(read.inode))
  IN  read.todo
      \o [i \in DOMAIN gone |-> Write("dir", gone[i], NoFile)]
      \o __osPfsWriteInode(Rebuilt(read.inode))

-----------------------------------------------------------------------------
(* Requests.                                                               *)

Idle == todo = <<>>
Ready == Idle /\ mounted

\* packOpen reads the table, from the cache if it can, to count free blocks.
PackGood == __osPfsReadInode(cache).ok

Start(kind, name, size, whole, writes) ==
  /\ writes # <<>>
  /\ op' = [kind |-> kind, name |-> name, size |-> size, whole |-> whole]
  /\ todo' = writes
  /\ UNCHANGED <<disk, dir, content>>

\* osPfsInit, from packOpen: the status read drops the cache.
osPfsInit ==
  /\ Idle /\ ~mounted
  /\ Start("init", NoFile, 0, TRUE, osPfsChecker(NoTable))
  /\ cache' = CacheAfter(__osPfsReadInode(NoTable))
  /\ UNCHANGED <<mounted, saved, clean>>

\* packRepair: the checker trusts a cached table.
packRepair ==
  /\ Ready
  /\ Start("check", NoFile, 0, TRUE, osPfsChecker(cache))
  /\ cache' = CacheAfter(__osPfsReadInode(cache))
  /\ UNCHANGED <<mounted, saved, clean>>

\* packFreeSpace, and packOpen of any request: the table is read, and a
\* good mirror is copied back.
packFreeSpace ==
  /\ Ready /\ cache = NoTable
  /\ LET read == __osPfsReadInode(cache) IN
     /\ cache' = CacheAfter(read)
     /\ op' = IF read.todo = <<>> THEN NoOp ELSE [NoOp EXCEPT !.kind = "read"]
     /\ todo' = read.todo
     /\ UNCHANGED <<disk, dir, content, mounted, saved, clean>>

SlotOf(n) == {s \in Slots : dir[s] # NoFile /\ dir[s].name = n}
FreeSlots == {s \in Slots : dir[s] = NoFile}
FirstFreeSlot == CHOOSE s \in FreeSlots : \A u \in FreeSlots : s <= u

DataWrites(pages, n) == [i \in DOMAIN pages |-> Write("page", pages[i], n)]

\* osPfsReadWriteFile marks the entry when the data of a new file is written.
Occupy(s, entry) ==
  IF entry.occupied THEN <<>>
  ELSE <<Write("dir", s, [entry EXCEPT !.occupied = TRUE])>>

\* packWriteFile of a new name: osPfsAllocateFile writes the table, then the
\* entry (whose status it never sets), and osPfsReadWriteFile the data.
WriteNew(n, size, read) ==
  LET got == __osPfsDeclearPage(read.inode, size) IN
  /\ SlotOf(n) = {} /\ FreeSlots # {} /\ read.ok
  /\ size <= Len(FreePages(read.inode))
  /\ \E status \in BOOLEAN :
       LET entry == [name |-> n, start |-> got.first, occupied |-> status] IN
       Start("write", n, size, TRUE,
             read.todo \o __osPfsWriteInode(got.inode)
             \o <<Write("dir", FirstFreeSlot, entry)>>
             \o DataWrites(got.pages, n) \o Occupy(FirstFreeSlot, entry))

\* packWriteFile of a name that is there: the chain is followed page by page,
\* and a table that cannot be read is noticed after the first page only.
WriteOver(n, size, read) ==
  \E s \in SlotOf(n) :
    LET all   == Walk(read.inode, dir[s].start)
        here  == IF read.ok THEN SubSeq(all, 1, Min({size, Len(all)})) ELSE <<dir[s].start>>
        whole == Len(here) = size
    IN  Start("write", n, size, whole,
              read.todo \o DataWrites(here, n)
              \o (IF whole THEN Occupy(s, dir[s]) ELSE <<>>))

packWriteFile(n, size) ==
  /\ Ready /\ PackGood
  /\ LET read == __osPfsReadInode(NoTable) IN   \* osPfsFindFile drops the cache
     /\ WriteNew(n, size, read) \/ WriteOver(n, size, read)
     /\ cache' = CacheAfter(read)
  /\ UNCHANGED <<mounted, saved, clean>>

\* packDeleteFile: osPfsFileState must find the chain whole, then
\* osPfsDeleteFile frees the pages and clears the entry last.
packDeleteFile(s) ==
  /\ Ready /\ PackGood
  /\ dir[s] # NoFile
  /\ Ends(__osPfsReadInode(cache).inode, dir[s].start)
  /\ LET read == __osPfsReadInode(NoTable)
         freed == __osPfsReleasePages(read.inode, dir[s].start)
     IN /\ read.ok /\ freed.ok
        /\ Start("delete", dir[s].name, 0, TRUE,
                 read.todo \o __osPfsWriteInode(freed.inode)
                 \o (IF Ends(read.inode, dir[s].start)
                     THEN <<Write("dir", s, NoFile)>> ELSE <<>>))
        /\ cache' = CacheAfter(read)
  /\ saved' = [saved EXCEPT ![dir[s].name] = 0]
  /\ UNCHANGED <<mounted, clean>>

\* packFormat: the entries go first; osPfsReFormat toggles PFS_INITIALIZED,
\* so that the next packOpen initialises the pak again.
packFormat ==
  /\ Ready
  /\ LET empty == [e \in Entries |-> IF e = 0 THEN 0 ELSE FREE] IN
     Start("format", NoFile, 0, TRUE,
           [s \in Slots |-> Write("dir", s, NoFile)] \o __osPfsWriteInode(empty))
  /\ mounted' = FALSE
  /\ cache' = NoTable
  /\ saved' = [n \in Names |-> 0]
  /\ UNCHANGED clean

-----------------------------------------------------------------------------
(* Writes, failures, and the power switch.                                 *)

\* One block of a table goes to the pak.
Inode(w) ==
  disk' = [disk EXCEPT ![IF w.to = "minode" THEN "minode" ELSE "inode"] =
             [e \in Entries |-> IF e \div EntriesPerBlock = w.at THEN w.val[e] ELSE @[e]]]

\* Mutant: a table written does not reach the cache.
CacheKept(w) == cache' = IF Tail(todo) = <<>> /\ op.kind = "write" THEN NoTable ELSE cache

\* The cache follows a table written whole; it is dropped by the status read
\* at the end of osPfsReadWriteFile.
CacheStep(w) ==
  cache' = IF Tail(todo) = <<>> /\ op.kind = "write" THEN NoTable
           ELSE IF w.to = "minode" /\ w.at = Blocks - 1 /\ op.kind # "format" THEN w.val
           ELSE cache

\* What is true once the last block is written.
Finish ==
  /\ op' = NoOp
  /\ mounted' = (mounted \/ op.kind = "init")
  /\ saved' = IF op.kind = "write" /\ op.whole
              THEN [saved EXCEPT ![op.name] = op.size] ELSE saved
  /\ clean' = (clean \/ op.kind \in {"init", "check"})

__osContRamWrite ==
  /\ todo # <<>>
  /\ LET w == Head(todo) IN
     /\ CASE w.to = "dir"  -> dir' = [dir EXCEPT ![w.at] = w.val] /\ UNCHANGED <<disk, content>>
          [] w.to = "page" -> content' = [content EXCEPT ![w.at] = w.val] /\ UNCHANGED <<disk, dir>>
          [] OTHER         -> Inode(w) /\ UNCHANGED <<dir, content>>
     /\ CacheStep(w)
  /\ todo' = Tail(todo)
  /\ IF Tail(todo) = <<>> THEN Finish ELSE UNCHANGED <<op, mounted, saved, clean>>

\* The result of a write to the first copy is overwritten by that of the next
\* write: only osPfsReFormat looks at it.
Unnoticed(w) == w.to = "restore" \/ (w.to = "inode" /\ op.kind # "format")

InodeWriteLost ==
  /\ todo # <<>>
  /\ Unnoticed(Head(todo))
  /\ <<op.kind, Head(todo).to>> \in FailsAt
  /\ todo' = Tail(todo)
  /\ IF Tail(todo) = <<>> THEN Finish ELSE UNCHANGED <<op, mounted, saved, clean>>
  /\ UNCHANGED <<disk, dir, content, cache>>

\* All retries fail: the request is given up where it stands, with the cache
\* as it was; osPfsInit sets PFS_INITIALIZED even then.
WriteFails ==
  /\ todo # <<>>
  /\ <<op.kind, Head(todo).to>> \in FailsAt
  /\ ~Unnoticed(Head(todo))
  /\ todo' = <<>>
  /\ mounted' = (mounted \/ op.kind = "init")
  /\ clean' = FALSE
  /\ op' = NoOp
  /\ UNCHANGED <<disk, dir, content, cache, saved>>

\* The machine is switched off, or reset: RAM is lost.
PowerLoss ==
  /\ mounted \/ todo # <<>>
  /\ todo' = <<>>
  /\ mounted' = FALSE
  /\ cache' = NoTable
  /\ clean' = FALSE
  /\ op' = NoOp
  /\ UNCHANGED <<disk, dir, content, saved>>

\* A pak as osPfsReFormat leaves it.
Init ==
  /\ disk = [c \in {"inode", "minode"} |->
               Sealed([e \in Entries |-> IF e = 0 THEN 0 ELSE FREE])]
  /\ dir = [s \in Slots |-> NoFile]
  /\ content = [p \in Pages |-> NoFile]
  /\ cache = NoTable
  /\ mounted = FALSE
  /\ op = NoOp
  /\ todo = <<>>
  /\ saved = [n \in Names |-> 0]
  /\ clean = FALSE

Next ==
  \/ osPfsInit \/ packRepair \/ packFreeSpace \/ packFormat
  \/ \E n \in Names, size \in Sizes : packWriteFile(n, size)
  \/ \E s \in Slots : packDeleteFile(s)
  \/ __osContRamWrite \/ InodeWriteLost \/ WriteFails \/ PowerLoss

Spec == Init /\ [][Next]_vars

-----------------------------------------------------------------------------
(* Properties.                                                             *)

Table == [Entries -> 0..255]
Entry == [name : Names, start : Pages, occupied : BOOLEAN]

\* Every variable keeps its type, links of a table included: whatever is torn,
\* a page's entry stays a page, PFS_EOF or PFS_PAGE_NOT_USED.
TypeOK ==
  /\ disk \in [{"inode", "minode"} -> Table]
  /\ \A c \in {"inode", "minode"}, p \in Pages : disk[c][p] \in Pages \cup {EOF, FREE}
  /\ dir \in [Slots -> Entry \cup {NoFile}]
  /\ content \in [Pages -> Names \cup {NoFile}]
  /\ cache = NoTable \/ cache \in Table
  /\ mounted \in BOOLEAN /\ clean \in BOOLEAN
  /\ op.kind \in {"none", "init", "check", "read", "write", "delete", "format"}
  /\ (op = NoOp) = Idle
  /\ saved \in [Names -> Sizes \cup {0}]

\* What osPfsInit would read and keep if power failed now.
Readable == __osPfsReadInode(NoTable).inode
Found == {dir[s].name : s \in Kept(Readable)}

\* Every file whose saving was reported as done is found with table t, with its
\* own data in every page saved.
SavedIn(t) ==
  \A n \in Names : saved[n] # 0 =>
    \E s \in Kept(t) :
      /\ dir[s].name = n
      /\ LET chain == Walk(t, dir[s].start) IN
         /\ saved[n] <= Len(chain)
         /\ \A i \in 1..saved[n] : content[chain[i]] = n

\* A file whose saving was reported as done is found again after any loss of
\* power, any failed write and any repair that follows: no other file was given
\* one of its pages.
SavedStays == SavedIn(Readable)

\* contpfs.c:284 and 349: the cached table is always a whole one, never the torn
\* table of the pak.  As long as nothing failed since the last check it is the
\* one on the pak whenever a request may use it.  After a failed write it is an
\* older one, from which packRepair writes the next: every file reported as
\* saved is whole in it as well.
CacheIsTable ==
  cache # NoTable =>
    /\ SumOK(cache)
    /\ Idle /\ clean => cache = disk["inode"]
    /\ SavedIn(cache)

\* Once checked, both copies agree, no page is lost, none is in two files,
\* and no directory entry is broken.
NothingLost ==
  Ready /\ clean =>
    LET t == disk["inode"]
        chain(s) == ToSet(Walk(t, dir[s].start))
    IN  /\ SumOK(t) /\ disk["minode"] = t
        /\ Broken(t) = {}
        /\ \A p \in Pages :
             Cardinality({s \in Kept(t) : p \in chain(s)}) = (IF t[p] = FREE THEN 0 ELSE 1)

\* The pak is a set of named files that come and go in one step, and only when
\* asked for, although every request is many writes and power may fail between
\* any two of them.
Asked ==
  CASE op.kind = "write"  -> {op.name} \ Found
    [] op.kind = "delete" -> {op.name} \cap Found
    [] op.kind = "format" -> Found
    [] OTHER              -> {}

Files == INSTANCE AbstractPak WITH files <- Found, asked <- Asked
PakSpec == Files!Spec
=============================================================================
