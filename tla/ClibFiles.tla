------------------------------ MODULE ClibFiles ------------------------------
(* The two file layers of user/libs/clib: descriptors (posix_fd.c), each a   *)
(* snapshot of its file taken at open and written back by close, and streams *)
(* (stdio.c), each a buffer flushed through the write_file backend.  fdopen  *)
(* puts a stream on top of a descriptor, and fclose then closes both.  The   *)
(* storage call below them may fail; nothing is then lost or done twice.     *)
EXTENDS Naturals, Sequences

CONSTANTS
  FdSlots,    \* CLIB_POSIX_FD_SLOTS
  PoolSize,   \* CLIB_STDIO_POOL_SIZE
  FileCap,    \* CLIB_POSIX_FD_FILE_CAP
  BufCap,     \* CLIB_STDIO_FILE_BUF_CAP
  FilePaths, FileBytes   \* paths; bytes other than zero

VARIABLES
  disk,      \* what storage holds: a sequence of bytes, or Missing
  slots,     \* g_slots: the snapshots behind descriptors
  streams    \* g_pool
clibFileVars == <<disk, slots, streams>>

Missing == <<256>>    \* no byte has this value
Bytes(p) == IF disk[p] = Missing THEN <<>> ELSE disk[p]

Zeroes == [i \in 1 .. FileCap |-> 0]
FreeSlot == [used |-> FALSE, path |-> "none", writable |-> FALSE, append |-> FALSE,
             dirty |-> FALSE, data |-> Zeroes, len |-> 0, cursor |-> 0]
(* base, accepted and alone are history: the file when the stream was        *)
(* opened, the bytes fwrite took, and whether nothing else wrote the path.   *)
FreeStream == [used |-> FALSE, kind |-> "none", path |-> "none", buf |-> <<>>,
               flushed |-> FALSE, cursor |-> 0, fd |-> 0, base |-> <<>>, accepted |-> <<>>,
               alone |-> TRUE]

ClibFilesInit ==
  /\ disk \in [FilePaths -> {Missing, <<>>} \cup [1 .. 1 -> FileBytes]]
  /\ slots = [i \in 1 .. FdSlots |-> FreeSlot]
  /\ streams = [i \in 1 .. PoolSize |-> FreeStream]

Lowest(S) == CHOOSE i \in S : \A j \in S : i <= j
FreeSlots == {i \in 1 .. FdSlots : ~slots[i].used}
FreeStreams == {i \in 1 .. PoolSize : ~streams[i].used}

(* Somebody other than stream `but` wrote path p.                            *)
Disturbed(S, p, but) ==
  [i \in DOMAIN S |-> IF i # but /\ S[i].path = p THEN [S[i] EXCEPT !.alone = FALSE]
                      ELSE S[i]]

-----------------------------------------------------------------------------
(* Descriptors.                                                              *)

(* O_TRUNC that only forgets the length.                                     *)
TruncatedLen(s) == [s EXCEPT !.len = 0, !.cursor = 0, !.dirty = TRUE]

Snapshot(bytes) == [i \in 1 .. FileCap |-> IF i <= Len(bytes) THEN bytes[i] ELSE 0]
Truncated(s) == [s EXCEPT !.data = Zeroes, !.len = 0, !.cursor = 0, !.dirty = TRUE]

(* open: a snapshot, or with O_CREAT an empty one to be created at close.    *)
OpenSlot(p, writable, creat, trunc, append) ==
  LET fresh == [FreeSlot EXCEPT !.used = TRUE, !.path = p, !.writable = writable,
                                !.append = append]
      loaded == [fresh EXCEPT !.data = Snapshot(Bytes(p)), !.len = Len(Bytes(p))]
  IN IF disk[p] = Missing
     THEN IF creat THEN [fresh EXCEPT !.dirty = TRUE] ELSE FreeSlot
     ELSE IF Len(disk[p]) > FileCap THEN FreeSlot   \* EOVERFLOW
     ELSE IF trunc /\ loaded.len # 0 THEN Truncated(loaded) ELSE loaded

Open(p, writable, creat, trunc, append) ==
  /\ FreeSlots # {}
  /\ slots' = [slots EXCEPT ![Lowest(FreeSlots)] =
                 OpenSlot(p, writable, creat, trunc, append)]
  /\ UNCHANGED <<disk, streams>>

(* flush_snapshot: the whole snapshot replaces the file.                     *)
Flushed(s) == SubSeq(s.data, 1, s.len)

(* close keeps the slot when the write-back fails.                           *)
Close(i, stored) ==
  /\ slots[i].used
  /\ ~slots[i].dirty => stored
  /\ IF stored
     THEN /\ slots' = [slots EXCEPT ![i] = FreeSlot]
          /\ IF slots[i].dirty
             THEN /\ disk' = [disk EXCEPT ![slots[i].path] = Flushed(slots[i])]
                  /\ streams' = Disturbed(streams, slots[i].path, 0)
             ELSE UNCHANGED <<disk, streams>>
     ELSE UNCHANGED clibFileVars

Read(i, n) ==
  /\ slots[i].used /\ slots[i].cursor < slots[i].len
  /\ LET avail == slots[i].len - slots[i].cursor IN
       slots' = [slots EXCEPT ![i].cursor = @ + (IF n < avail THEN n ELSE avail)]
  /\ UNCHANGED <<disk, streams>>

Write(i, b) ==
  /\ slots[i].used /\ slots[i].writable
  /\ LET at == IF slots[i].append THEN slots[i].len ELSE slots[i].cursor IN
       slots' = [slots EXCEPT ![i] =
         IF at > FileCap - 1 THEN [@ EXCEPT !.cursor = at]
         ELSE [@ EXCEPT !.data[at + 1] = b, !.cursor = at + 1, !.dirty = TRUE,
                        !.len = IF at + 1 > @ THEN at + 1 ELSE @]]
  /\ UNCHANGED <<disk, streams>>

(* lseek may leave the cursor past the end (bound: FileCap).                 *)
Seek(i, to) ==
  /\ slots[i].used /\ to \in 0 .. FileCap
  /\ slots' = [slots EXCEPT ![i].cursor = to]
  /\ UNCHANGED <<disk, streams>>

(* unlink truncates a file it could open (which takes a free slot).          *)
Unlink(p) ==
  /\ FreeSlots # {} /\ disk[p] # Missing
  /\ disk' = [disk EXCEPT ![p] = <<>>]
  /\ streams' = Disturbed(streams, p, 0)
  /\ UNCHANGED slots

-----------------------------------------------------------------------------
(* Streams.                                                                  *)

(* pool_alloc: the first free stream.                                        *)
PoolAlloc == Lowest(FreeStreams)

(* read_file of the backend: what a stream opened for reading holds.         *)
Readable(p) == disk[p] # Missing /\ Len(disk[p]) <= BufCap
StreamBuffer(p, kind) == IF kind = "r" THEN Bytes(p) ELSE <<>>

Fopen(p, kind) ==
  /\ FreeStreams # {}
  /\ kind = "r" => Readable(p)
  /\ streams' = [streams EXCEPT ![PoolAlloc] =
       [FreeStream EXCEPT !.used = TRUE, !.kind = kind, !.path = p, !.buf = StreamBuffer(p, kind),
          !.base = IF kind = "w" THEN <<>> ELSE Bytes(p)]]
  /\ UNCHANGED <<disk, slots>>

(* fdopen: the stream becomes the descriptor's persistence path.             *)
Fdopen(i, kind) ==
  /\ slots[i].used /\ FreeStreams # {}
  /\ kind = "r" => Readable(slots[i].path)
  /\ streams' = [streams EXCEPT ![PoolAlloc] =
       [FreeStream EXCEPT !.used = TRUE, !.kind = kind, !.path = slots[i].path,
          !.buf = StreamBuffer(slots[i].path, kind),
          !.fd = i, !.flushed = (kind = "a"),
          !.base = IF kind = "w" THEN <<>> ELSE Bytes(slots[i].path)]]
  /\ slots' = IF kind = "r" THEN slots ELSE [slots EXCEPT ![i].dirty = FALSE]
  /\ UNCHANGED disk

(* fread moves through what was in the file at open.                         *)
Fread(j, n) ==
  /\ streams[j].used /\ streams[j].kind = "r" /\ streams[j].cursor < Len(streams[j].buf)
  /\ LET avail == Len(streams[j].buf) - streams[j].cursor IN
       streams' = [streams EXCEPT ![j].cursor = @ + (IF n < avail THEN n ELSE avail)]
  /\ UNCHANGED <<disk, slots>>

(* fwrite takes what fits its buffer.                                        *)
Fwrite(j, b) ==
  /\ streams[j].used /\ streams[j].kind \in {"w", "a"} /\ Len(streams[j].buf) < BufCap
  /\ streams' = [streams EXCEPT ![j].buf = Append(@, b), ![j].accepted = Append(@, b)]
  /\ UNCHANGED <<disk, slots>>

(* A flush that replaces the file every time.                                *)
WritesAtEndAppendOnly(s) == s.kind = "a"

(* fflush appends after the first time, and keeps the bytes if storage fails.*)
WritesAtEnd(s) == s.kind = "a" \/ s.flushed

FlushStored(s) ==
  (IF WritesAtEnd(s) THEN Bytes(s.path) ELSE <<>>) \o s.buf

FlushStep(j, stored) ==
  IF streams[j].buf = <<>> \/ ~stored
  THEN streams' = streams /\ disk' = disk
  ELSE /\ disk' = [disk EXCEPT ![streams[j].path] = FlushStored(streams[j])]
       /\ streams' = Disturbed([streams EXCEPT ![j].buf = <<>>, ![j].flushed = TRUE],
                               streams[j].path, j)

Fflush(j, stored) ==
  /\ streams[j].used /\ streams[j].kind \in {"w", "a"}
  /\ FlushStep(j, stored) /\ UNCHANGED slots

(* fclose flushes, frees the stream whatever came of it, and closes the      *)
(* descriptor it adopted.                                                    *)
Fclose(j, stored, fdStored) ==
  /\ streams[j].used
  /\ LET s == streams[j]
         flush == s.kind \in {"w", "a"} /\ stored /\ s.buf # <<>>
         D == IF flush THEN [disk EXCEPT ![s.path] = FlushStored(s)] ELSE disk
         back == s.fd # 0 /\ slots[s.fd].used /\ slots[s.fd].dirty
         S == [streams EXCEPT ![j] = FreeStream]
     IN /\ ~back => fdStored
        /\ disk' = IF back /\ fdStored THEN [D EXCEPT ![slots[s.fd].path] = Flushed(slots[s.fd])]
                   ELSE D
        /\ streams' = IF back /\ fdStored
                      THEN Disturbed(IF flush THEN Disturbed(S, s.path, 0) ELSE S,
                                     slots[s.fd].path, 0)
                      ELSE IF flush THEN Disturbed(S, s.path, 0) ELSE S
        /\ slots' = IF s.fd # 0 /\ fdStored THEN [slots EXCEPT ![s.fd] = FreeSlot]
                    ELSE slots

ClibFilesNext ==
  \/ \E p \in FilePaths, w, c, t, a \in BOOLEAN : Open(p, w, c, t, a)
  \/ \E i \in 1 .. FdSlots :
       \/ \E ok \in BOOLEAN : Close(i, ok)
       \/ Read(i, 1)
       \/ \E b \in FileBytes : Write(i, b)
       \/ \E to \in 0 .. FileCap : Seek(i, to)
       \/ \E k \in {"r", "w", "a"} : Fdopen(i, k)
  \/ \E p \in FilePaths : Unlink(p) \/ \E k \in {"r", "w", "a"} : Fopen(p, k)
  \/ \E j \in 1 .. PoolSize :
       \/ \E b \in FileBytes : Fwrite(j, b) /\ Len(streams[j].base \o streams[j].accepted) <= BufCap
       \/ Fread(j, 1)
       \/ \E ok \in BOOLEAN : Fflush(j, ok)
       \/ \E ok, fdOk \in BOOLEAN : Fclose(j, ok, fdOk)

-----------------------------------------------------------------------------
(* What programs rely on in these layers: a byte read from a hole left by    *)
(* lseek is zero, whatever the slot held before (posix_fd.c:231,320,337);    *)
(* and a stream whose file nobody else writes leaves in the file, together   *)
(* with what it still buffers, exactly the bytes fwrite accepted, in order,  *)
(* after what append mode kept, however often it was flushed and storage     *)
(* failed (stdio.c:326).                                                     *)
FilesKeepWhatWasWritten ==
  /\ \A i \in 1 .. FdSlots : \A k \in (slots[i].len + 1) .. FileCap :
       slots[i].data[k] = 0
  /\ \A j \in 1 .. PoolSize :
       LET s == streams[j] IN
         s.used /\ s.kind \in {"w", "a"} /\ s.alone =>
           (IF s.kind = "a" \/ s.flushed THEN Bytes(s.path) ELSE <<>>) \o s.buf
             = s.base \o s.accepted
=============================================================================
