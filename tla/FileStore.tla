----------------------------- MODULE FileStore -----------------------------
(***************************************************************************)
(* What kernel/fs/fs_service.h promises its callers: files and directories *)
(* under paths, changed one call at a time. It says nothing of clusters    *)
(* and tables. A call that is cut short by a failing disk may leave        *)
(* anything under the path it was about, and an overwrite that runs out of *)
(* space may leave any bytes in the file; everything else stays.           *)
(***************************************************************************)
EXTENDS Naturals, SequencesExt

CONSTANTS Names, Texts, MaxDepth

VARIABLE store  \* path -> what reading it gives

StorePaths == UNION {[1 .. n -> Names] : n \in 1 .. MaxDepth}

Nothing == [kind |-> "nothing", bytes |-> <<>>]

Directory == [kind |-> "dir", bytes |-> <<>>]

File(bs) == [kind |-> "file", bytes |-> bs]

\* The directory a path is in exists.
Has(p) == Len(p) = 1 \/ store[Front(p)] = Directory

Below(p, q) == Len(p) <= Len(q) /\ SubSeq(q, 1, Len(p)) = p

StoreInit == store = [p \in StorePaths |-> Nothing]

Write(p, bs, append) ==
  /\ Has(p)
  /\ store[p].kind \in {"nothing", "file"}
  /\ store' = [store EXCEPT ![p] = File(IF append THEN @.bytes \o bs ELSE bs)]

MakeDirectory(p) ==
  /\ Has(p)
  /\ store[p] = Nothing
  /\ store' = [store EXCEPT ![p] = Directory]

RemoveFile(p) ==
  /\ store[p].kind = "file"
  /\ store' = [store EXCEPT ![p] = Nothing]

RemoveDirectory(p) ==
  /\ store[p] = Directory
  /\ \A q \in StorePaths : Below(p, q) /\ q # p => store[q] = Nothing
  /\ store' = [store EXCEPT ![p] = Nothing]

\* The file keeps its length.
OverwriteRunsOut(p) ==
  /\ store[p].kind = "file" /\ store'[p].kind = "file"
  /\ Len(store'[p].bytes) = Len(store[p].bytes)
  /\ \A q \in StorePaths \ {p} : store'[q] = store[q]

CutShort(p) == \A q \in StorePaths : ~Below(p, q) => store'[q] = store[q]

StoreNext ==
  \E p \in StorePaths :
    \/ \E t \in Texts, append \in BOOLEAN : Write(p, t, append)
    \/ MakeDirectory(p) \/ RemoveFile(p) \/ RemoveDirectory(p)
    \/ OverwriteRunsOut(p)

\* fails: whether the call was cut short.
StoreStep(fails) == StoreNext \/ (fails /\ \E p \in StorePaths : CutShort(p))
=============================================================================
