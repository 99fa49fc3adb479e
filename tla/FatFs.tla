------------------------------- MODULE FatFs -------------------------------
(***************************************************************************)
(* The FAT file system of kernel/fs/fs_service.c over a disk of sectors.   *)
(*                                                                         *)
(* The service keeps nothing in memory between two calls: a call loads the *)
(* table, works on copies, and writes sectors in a fixed order. A call is  *)
(* therefore the sequence of sectors it writes, worked out from the disk   *)
(* it finds; a sector that cannot be written, or a loss of power, ends it  *)
(* after some of them.                                                     *)
(*                                                                         *)
(* A path is a sequence of components as fs_next_path_component and        *)
(* fs_parse_83_name see them: a name, Bad for what the parser refuses, or  *)
(* Long for what does not fit the component buffer. A byte is a number;    *)
(* a block holds directory entries or bytes. What is in a cluster that no  *)
(* path leads to is not kept: a cluster is written before it is read,      *)
(* unless fs_mkdir is cut short. Directories stay under the 128 clusters   *)
(* the directory scans look at.                                            *)
(***************************************************************************)
EXTENDS Integers, Sequences, FiniteSets, FiniteSetsExt, SequencesExt

CONSTANTS
  MaxCluster,   \* FS_CLUSTER_MAX_ALLOC
  FatPer,       \* entries of the table in one sector
  BlockBytes,   \* FS_BLOCK_SIZE
  DirEntries,   \* FS_DIR_ENTRIES
  Names,        \* file and directory names in 8.3 form
  Texts,        \* what one call writes: sequences of bytes; 0 is in none of them
  MaxDepth,     \* bound: components of a path
  MaxSize       \* bound: bytes of a file

Root == 2  \* FS_ROOT_CLUSTER

Cluster == Root .. MaxCluster

Alloc == Root + 1 .. MaxCluster  \* FS_CLUSTER_MIN_ALLOC .. FS_CLUSTER_MAX_ALLOC

FreeMark == 0

EOC == MaxCluster + 1

ASSUME FatAssumption ==
  /\ MaxCluster \in Nat /\ MaxCluster > Root
  /\ FatPer \in Nat \ {0} /\ BlockBytes \in Nat \ {0} /\ DirEntries \in Nat \ {0}
  /\ \A t \in Texts : \A i \in DOMAIN t : t[i] \in Nat \ {0}

VARIABLES disk,   \* the sectors
          cut,    \* whether the last call stopped between two of its writes:
                  \* "whole" if not, "create" if it was to create a file in a
                  \* directory with room, "other" if it was another call
          ever,   \* history: whether any call has
          view    \* history: what reading each path gives

fsVars == <<disk, cut, ever, view>>

Bad == "bad"

Long == "long"

\* A directory entry is [mark, name, dir, first, size] when its first byte is
\* that of a name; 0x00 ends the block, 0xE5 is a deleted entry.
EndEntry == [mark |-> "end"]

\* Variant: an entry is deleted by clearing it.
ClearedEntry == EndEntry

DeletedEntry == [mark |-> "deleted"]

ZeroBlock == [entries |-> [i \in 1 .. DirEntries |-> EndEntry],
              bytes |-> [i \in 1 .. BlockBytes |-> 0]]

StaleEntry == [mark |-> "stale"]

StaleByte == -1

DirBlock(es) == [entries |-> es, bytes |-> [i \in 1 .. BlockBytes |-> StaleByte]]

FileBlock(bs) == [entries |-> [i \in 1 .. DirEntries |-> StaleEntry], bytes |-> bs]

StaleBlock == [entries |-> [i \in 1 .. DirEntries |-> StaleEntry],
               bytes |-> [i \in 1 .. BlockBytes |-> StaleByte]]

-----------------------------------------------------------------------------
(* The table.                                                              *)

FreeClusters(f) == {c \in Alloc : f[c] = FreeMark}

\* The clusters from c on. Every loop of the service takes any value that is
\* no cluster for the end.
Chain(f, c) ==
  LET walk[n \in Nat] ==
        IF n = 0 THEN <<c>>
        ELSE LET w == walk[n - 1]
             IN  IF Len(w) = n /\ f[w[n]] \in Alloc THEN Append(w, f[w[n]]) ELSE w
  IN  walk[MaxCluster]

\* fs_free_cluster_chain.
FreeChain(f, c) == [x \in Cluster |-> IF x \in Range(Chain(f, c)) THEN FreeMark ELSE f[x]]

\* The chain that ends in c, now with the clusters of more behind it.
Linked(f, c, more) ==
  LET tail == <<c>> \o more
  IN  [x \in Cluster |->
         IF more = <<>> \/ x \notin Range(tail) THEN f[x]
         ELSE LET k == CHOOSE i \in DOMAIN tail : tail[i] = x
              IN  IF k < Len(tail) THEN tail[k + 1] ELSE EOC]

-----------------------------------------------------------------------------
(* Directories.                                                            *)

\* The slots of a directory, along its chain.
DirSlots(dk, d) ==
  LET ch == Chain(dk.fat, d)
  IN  [q \in 1 .. Len(ch) * DirEntries |->
         LET c == ch[((q - 1) \div DirEntries) + 1]
             i == ((q - 1) % DirEntries) + 1
         IN  [cluster |-> c, index |-> i, entry |-> dk.block[c].entries[i]]]

\* The slots a search looks at: it skips the rest of a block behind an entry
\* that ends it.
Scanned(slots) ==
  {q \in DOMAIN slots : \A r \in 1 .. q - 1 :
     slots[r].cluster = slots[q].cluster => slots[r].entry.mark # "end"}

\* The slots a listing looks at: it is over at an entry that ends a block.
Listed(slots) ==
  {q \in DOMAIN slots : \A r \in 1 .. q : slots[r].entry.mark # "end"}

UsedSlots(slots, S) == {q \in S : slots[q].entry.mark = "used"}

\* fs_find_entry_in_dir_ext: the slot of the name, or the first free one, or
\* none when the directory is full.
NoSlot == [cluster |-> 0, index |-> 0]

\* Variant: the search is over at the first free slot.
SearchToFirstFree(slots, n) ==
  LET seen == Scanned(slots)
      free == seen \ UsedSlots(slots, seen)
      hits == {q \in UsedSlots(slots, seen) :
                 slots[q].entry.name = n /\ \A r \in free : q < r}
  IN  IF hits # {} THEN [found |-> TRUE, slot |-> slots[Min(hits)]]
      ELSE [found |-> FALSE, slot |-> IF free # {} THEN slots[Min(free)] ELSE NoSlot]

Search(slots, n) ==
  LET seen == Scanned(slots)
      free == seen \ UsedSlots(slots, seen)
      hits == {q \in UsedSlots(slots, seen) : slots[q].entry.name = n}
  IN  IF hits # {} THEN [found |-> TRUE, slot |-> slots[Min(hits)]]
      ELSE [found |-> FALSE, slot |-> IF free # {} THEN slots[Min(free)] ELSE NoSlot]

Find(dk, d, n) == Search(DirSlots(dk, d), n)

\* fs_resolve_dir_cluster, and the walk of fs_resolve_parent_and_leaf: the
\* cluster of the directory, 0 if there is none.
DirFound(hit) == IF hit.found /\ hit.slot.entry.dir THEN hit.slot.entry.first ELSE 0

DirAt(dk, path) ==
  LET Step(d, n) == IF d = 0 \/ n = Bad THEN 0 ELSE DirFound(Find(dk, d, n))
  IN  FoldLeft(Step, Root, path)

\* fs_next_path_component stops at a component that does not fit, as it does
\* at the end of the path: what is behind it is ignored.
Effective(path) ==
  LET fits == {n \in 0 .. Len(path) : \A i \in 1 .. n : path[i] # Long}
  IN  SubSeq(path, 1, Max(fits))

\* fs_resolve_parent_and_leaf and the search for the leaf; 0 for the
\* directory if the path is refused.
NoLeaf == [dir |-> 0]

Leaf(d, n, hit) == [dir |-> d, name |-> n, found |-> hit.found, slot |-> hit.slot]

LeafIn(dk, d, n) == IF d = 0 THEN NoLeaf ELSE Leaf(d, n, Find(dk, d, n))

ResolvePath(dk, p) ==
  IF p = <<>> THEN NoLeaf
  ELSE IF Last(p) = Bad THEN NoLeaf ELSE LeafIn(dk, DirAt(dk, Front(p)), Last(p))

Resolve(dk, path) == ResolvePath(dk, Effective(path))

\* fs_directory_is_empty.
IsEmpty(dk, d) == LET slots == DirSlots(dk, d) IN UsedSlots(slots, Listed(slots)) = {}

\* fs_list_dir.
Listing(dk, d) ==
  LET slots == DirSlots(dk, d) IN {slots[q].entry.name : q \in UsedSlots(slots, Listed(slots))}

-----------------------------------------------------------------------------
(* Writes to the disk.                                                     *)

BootWrite == [to |-> "boot"]

FatWrite(n, f) == [to |-> "fat", sector |-> n, fat |-> f]

BlockWrite(c, b) == [to |-> "block", cluster |-> c, block |-> b]

\* fs_store_fat: sector by sector.
StoreFat(f) == [n \in 1 .. (MaxCluster \div FatPer) + 1 |-> FatWrite(n - 1, f)]

Apply(dk, w) ==
  CASE w.to = "boot"  -> [dk EXCEPT !.boot = TRUE]
    [] w.to = "fat"   -> [dk EXCEPT !.fat = [c \in Cluster |->
                            IF c \div FatPer = w.sector THEN w.fat[c] ELSE dk.fat[c]]]
    [] w.to = "block" -> [dk EXCEPT !.block[w.cluster] = w.block]

ApplyAll(dk, ws) == FoldLeft(Apply, dk, ws)

\* fs_initialize_fat32_layout: the boot sector first.
Format ==
  <<BootWrite>>
    \o StoreFat([c \in Cluster |-> IF c = Root THEN EOC ELSE FreeMark])
    \o <<BlockWrite(Root, ZeroBlock)>>

\* fs_ensure_initialized.
Ensure(dk) == IF dk.boot THEN <<>> ELSE Format

\* What a call works on: the disk after fs_ensure_initialized.
Found(dk) == ApplyAll(dk, Ensure(dk))

\* A call: what it writes, and whether it reports success once it has.
Call(ws, ok) == [writes |-> ws, ok |-> ok]

Refused == Call(<<>>, FALSE)

-----------------------------------------------------------------------------
(* Where an entry goes: fs_find_entry_in_dir_ext and fs_extend_directory.  *)

\* A place: the table with the directory extended if need be, the writes made
\* for that, the cluster and index of the slot, and what is in the cluster.
Place(dk, r) ==
  IF r.slot # NoSlot
    THEN [fat |-> dk.fat, writes |-> <<>>, cluster |-> r.slot.cluster,
          index |-> r.slot.index, entries |-> dk.block[r.slot.cluster].entries]
    ELSE LET x == Min(FreeClusters(dk.fat))
         IN  [fat |-> Linked(dk.fat, Last(Chain(dk.fat, r.dir)), <<x>>),
              writes |-> <<BlockWrite(x, ZeroBlock)>>, cluster |-> x, index |-> 1,
              entries |-> ZeroBlock.entries]

\* No way to give the path a slot: it is refused, or the directory and the
\* disk are full.
Unplaceable(dk, r) ==
  r.dir = 0 \/ (r.slot = NoSlot /\ FreeClusters(dk.fat) = {})

\* The directory block with entry e in the place.
Put(pl, e) == BlockWrite(pl.cluster, DirBlock([pl.entries EXCEPT ![pl.index] = e]))

-----------------------------------------------------------------------------
(* fs_write_file_bytes.                                                    *)

\* The blocks a write from offset start on begins and ends in.
FirstBlock(start) == (start \div BlockBytes) + 1

LastBlock(start, content) ==
  IF content = <<>> THEN FirstBlock(start)
  ELSE ((start + Len(content) - 1) \div BlockBytes) + 1

\* Block k after the write: the bytes in front of start stay, those behind the
\* content are zeroed.
Filled(old, k, start, content) ==
  FileBlock([i \in 1 .. BlockBytes |->
    LET at == (k - 1) * BlockBytes + i - start
    IN  IF at \in DOMAIN content THEN content[at]
        ELSE IF k = FirstBlock(start) /\ start % BlockBytes # 0 THEN old.bytes[i] ELSE 0])

\* fs_write_entry_content on a chain ch that was extended by more: the blocks
\* it zeroes on its way to start, and those it fills.
Fill(dk, ch, more, start, content) ==
  LET have == ch \o more
      end == Min({LastBlock(start, content), Len(have)})
      Old(k) == IF k <= Len(ch) THEN dk.block[have[k]] ELSE ZeroBlock
      Zeroed(k) == BlockWrite(have[k], ZeroBlock)
      Written(k) == BlockWrite(have[k], Filled(Old(k), k, start, content))
  IN  [k \in 1 .. Min({FirstBlock(start), Len(have)}) - Len(ch) |-> Zeroed(Len(ch) + k)]
        \o IF content = <<>> THEN <<>>
           ELSE [k \in 1 .. end - FirstBlock(start) + 1 |-> Written(FirstBlock(start) + k - 1)]

\* It takes the clusters it lacks, lowest first, as long as there are any.
Extend(dk, f, ch, lacking, spare, start, content) ==
  LET more == SubSeq(spare, 1, Min({lacking, Len(spare)}))
  IN  [fits |-> lacking <= Len(spare), fat |-> Linked(f, Last(ch), more),
       writes |-> Fill(dk, ch, more, start, content)]

Content(dk, f, ch, start, content) ==
  Extend(dk, f, ch, Max({0, LastBlock(start, content) - Len(ch)}),
         SetToSortSeq(FreeClusters(f), <), start, content)

\* Variant: the entry is stored before the table.
EntryFirst(f, pl, e) == <<Put(pl, e)>> \o StoreFat(f)

\* The end of a write: the table, then the entry.
StoreEntry(f, pl, e) == StoreFat(f) \o <<Put(pl, e)>>

\* The entry of the file; a new one has a cluster of its own.
FileEntry(r, pl) ==
  IF r.found THEN r.slot.entry
  ELSE [mark |-> "used", name |-> r.name, dir |-> FALSE,
        first |-> Min(FreeClusters(pl.fat)), size |-> 0]

\* The table before the content is written: an overwritten file is cut to its
\* first cluster.
Trimmed(f, e, isNew, append) ==
  IF isNew THEN [f EXCEPT ![e.first] = EOC]
  ELSE IF append THEN f ELSE [FreeChain(f, e.first) EXCEPT ![e.first] = EOC]

FinishWrite(pl, e, size, c) ==
  IF ~c.fits THEN Call(pl.writes \o c.writes, FALSE)
  ELSE Call(pl.writes \o c.writes \o StoreEntry(c.fat, pl, [e EXCEPT !.size = size]), TRUE)

WriteContent(dk, f, pl, e, start, content) ==
  FinishWrite(pl, e, start + Len(content), Content(dk, f, Chain(f, e.first), start, content))

WriteEntry(dk, r, pl, e, content, append) ==
  WriteContent(dk, Trimmed(pl.fat, e, ~r.found, append), pl, e,
               IF append THEN e.size ELSE 0, content)

WriteAt(dk, r, pl, content, append) ==
  IF ~r.found /\ FreeClusters(pl.fat) = {} THEN Call(pl.writes, FALSE)
  ELSE WriteEntry(dk, r, pl, FileEntry(r, pl), content, append)

WriteFile(dk, r, content, append) ==
  IF Unplaceable(dk, r) THEN Refused
  ELSE IF r.found /\ r.slot.entry.dir THEN Refused
  ELSE WriteAt(dk, r, Place(dk, r), content, append)

-----------------------------------------------------------------------------
(* fs_mkdir, fs_unlink and fs_rmdir.                                       *)

MakeDirAt(r, pl, x) ==
  Call(pl.writes \o StoreFat([pl.fat EXCEPT ![x] = EOC])
         \o <<Put(pl, [mark |-> "used", name |-> r.name, dir |-> TRUE, first |-> x, size |-> 0]),
              BlockWrite(x, ZeroBlock)>>, TRUE)

MakeDirIn(r, pl) ==
  IF FreeClusters(pl.fat) = {} THEN Call(pl.writes, FALSE)
  ELSE MakeDirAt(r, pl, Min(FreeClusters(pl.fat)))

MakeDir(dk, r) ==
  IF Unplaceable(dk, r) THEN Refused
  ELSE IF r.found THEN Refused
  ELSE MakeDirIn(r, Place(dk, r))

\* fs_unlink of a file, fs_rmdir of an empty directory.
RemoveEntry(dk, r, isDir) ==
  IF r.dir = 0 THEN Refused
  ELSE IF ~r.found THEN Refused
  ELSE IF r.slot.entry.dir # isDir THEN Refused
  ELSE IF isDir /\ ~IsEmpty(dk, r.slot.entry.first) THEN Refused
  ELSE Call(StoreFat(FreeChain(dk.fat, r.slot.entry.first))
              \o <<Put(Place(dk, r), DeletedEntry)>>, TRUE)

-----------------------------------------------------------------------------
(* The state of a disk.                                                    *)

\* The entries of a directory with their chains.
EntriesIn(dk, d) ==
  LET slots == DirSlots(dk, d)
  IN  {[dir |-> d, slot |-> q, entry |-> slots[q].entry,
        chain |-> Chain(dk.fat, slots[q].entry.first)] : q \in UsedSlots(slots, Scanned(slots))}

\* Those of all directories.
Tree(dk) ==
  LET level[n \in Nat] ==
        IF n = 0 THEN EntriesIn(dk, Root)
        ELSE UNION {EntriesIn(dk, x.entry.first) : x \in {y \in level[n - 1] : y.entry.dir}}
  IN  UNION {level[n] : n \in 0 .. MaxDepth - 1}

Dirs(dk) == {Root} \cup {x.entry.first : x \in {y \in Tree(dk) : y.entry.dir}}

Reached(dk) == Range(Chain(dk.fat, Root)) \cup UNION {Range(x.chain) : x \in Tree(dk)}

Settled(dk) ==
  LET kept == Reached(dk)
  IN  [dk EXCEPT !.block = [c \in Cluster |-> IF c \in kept THEN @[c] ELSE StaleBlock]]

\* Chains are allocated, end, and share no cluster; sizes fit them; names are
\* unique; and directories hold entries.
Sound(dk) ==
  LET tree == Tree(dk)
      root == Chain(dk.fat, Root)
  IN  /\ dk.boot
      /\ IsInjective(root)
      /\ dk.fat[Root] = FreeMark \/ dk.fat[Last(root)] = EOC
      /\ \A x \in tree :
           /\ IsInjective(x.chain)
           /\ dk.fat[Last(x.chain)] = EOC
           /\ Range(x.chain) \cap Range(root) = {}
           /\ x.entry.size <= Len(x.chain) * BlockBytes
           /\ \A y \in tree \ {x} :
                /\ Range(x.chain) \cap Range(y.chain) = {}
                /\ x.dir = y.dir => x.entry.name # y.entry.name
      /\ \A d \in Dirs(dk) :
           LET slots == DirSlots(dk, d)
           IN  \A q \in Scanned(slots) : slots[q].entry.mark # "stale"

NoLeak(dk) == \A c \in Alloc : dk.fat[c] # FreeMark => c \in Reached(dk)

Paths == UNION {[1 .. n -> Names] : n \in 1 .. MaxDepth}

\* fs_read_file_bytes: nothing, a directory, the bytes, or an error when the
\* chain is too short.
ReadChain(dk, size, ch) ==
  IF size > Len(ch) * BlockBytes THEN [kind |-> "error", bytes |-> <<>>]
  ELSE [kind |-> "file",
        bytes |-> [i \in 1 .. size |->
          dk.block[ch[((i - 1) \div BlockBytes) + 1]].bytes[((i - 1) % BlockBytes) + 1]]]

ReadLeaf(dk, r) ==
  IF r.dir = 0 THEN [kind |-> "nothing", bytes |-> <<>>]
  ELSE IF ~r.found THEN [kind |-> "nothing", bytes |-> <<>>]
  ELSE IF r.slot.entry.dir THEN [kind |-> "dir", bytes |-> <<>>]
  ELSE ReadChain(dk, r.slot.entry.size, Chain(dk.fat, r.slot.entry.first))

Read(dk, p) == ReadLeaf(dk, Resolve(dk, p))

ReadAll(dk) == [p \in Paths |-> Read(dk, p)]

View(dk) == ReadAll(Found(dk))

-----------------------------------------------------------------------------

Blank == [boot |-> FALSE, fat |-> [c \in Cluster |-> FreeMark],
          block |-> [c \in Cluster |-> IF c = Root THEN ZeroBlock ELSE StaleBlock]]

FsInit == disk = Blank /\ cut = "whole" /\ ever = FALSE /\ view = View(Blank)

\* A call, or its first writes. The model follows a disk as long as it is
\* sound (FsNext).
Become(after) == disk' = after /\ view' = View(after)

Perform(ws, kind) ==
  \E k \in 0 .. Len(ws) :
    /\ IF k = 0 THEN UNCHANGED <<disk, view>>
       ELSE Become(Settled(ApplyAll(disk, SubSeq(ws, 1, k))))
    /\ cut' = IF k = Len(ws) THEN "whole" ELSE kind
    /\ ever' = (ever \/ k < Len(ws))

Execute(call, kind) == Perform(Ensure(disk) \o call.writes, kind)

\* Arguments: any path, also one with a component that is refused or dropped.
Inputs == UNION {[1 .. n -> Names \cup {Bad, Long}] : n \in 1 .. MaxDepth}

SizeOf(r) == IF r.dir = 0 THEN 0 ELSE IF r.found THEN r.slot.entry.size ELSE 0

Creates(r) == IF r.dir = 0 THEN FALSE ELSE ~r.found /\ r.slot # NoSlot

WriteCall(dk, r, content, append) ==
  /\ append => SizeOf(r) + Len(content) <= MaxSize
  /\ Execute(WriteFile(dk, r, content, append), IF Creates(r) THEN "create" ELSE "other")

FsWrite(path, content, append) ==
  WriteCall(Found(disk), Resolve(Found(disk), path), content, append)

FsMkdir(path) == Execute(MakeDir(Found(disk), Resolve(Found(disk), path)), "other")

FsUnlink(path) == Execute(RemoveEntry(Found(disk), Resolve(Found(disk), path), FALSE), "other")

FsRmdir(path) == Execute(RemoveEntry(Found(disk), Resolve(Found(disk), path), TRUE), "other")

\* fs_read_file_bytes and fs_list_dir only format.
FsLook == Execute(Refused, "create")

FsNext ==
  /\ disk.boot => Sound(disk)
  /\ \/ FsLook
     \/ \E path \in Inputs :
          \/ \E content \in Texts, append \in BOOLEAN : FsWrite(path, content, append)
          \/ FsMkdir(path)
          \/ FsUnlink(path)
          \/ FsRmdir(path)

FsSpec == FsInit /\ [][FsNext]_fsVars

-----------------------------------------------------------------------------

\* fs_list_dir and fs_directory_is_empty stop at the first entry that ends a
\* block, fs_find_entry_in_dir_ext goes on to the next cluster: they still
\* see the same entries.
ListingComplete ==
  (disk.boot /\ cut # "other") =>
    \A d \in Dirs(disk) :
      /\ Listing(disk, d) = {x.entry.name : x \in EntriesIn(disk, d)}
      /\ IsEmpty(disk, d) <=> EntriesIn(disk, d) = {}

\* The order of the writes keeps the disk sound when a call that creates a file
\* in a directory with room is cut short at any of them; and as long as no call
\* was cut short nothing is lost, every allocated cluster belongs to a file or
\* directory. A call that fails for lack of space or a bad path is a whole call.
\* The listing and the search then agree.
StaysSound ==
  /\ (disk.boot /\ cut # "other") => Sound(disk)
  /\ (disk.boot /\ ~ever) => NoLeak(disk)
  /\ ListingComplete

-----------------------------------------------------------------------------

FS == INSTANCE FileStore WITH store <- view

\* The service implements FileStore: a call changes what reading gives for the
\* path it is about as it should, and for no other path, however the files lie
\* on the disk, also when it is cut short or runs out of space.
ImplementsFileStore ==
  FS!StoreInit /\ [][view' # view => FS!StoreStep(cut' # "whole")]_view
=============================================================================
