------------------------------ MODULE SofFormat ------------------------------
(* The SecureOS file container (kernel/format/sof.c), the certificates it    *)
(* carries (kernel/crypto/cert.c) and the second writer of the format that   *)
(* user programs link (user/libs/sofpack).  One file is made by one of the   *)
(* writers, may be cut short or altered where it is stored, and is then      *)
(* parsed and verified.                                                      *)
(*                                                                           *)
(* A file is its decoded header and the cells behind it.  The header counts  *)
(* as one cell, at offset 0, so the cell at offset o is body[o]; a           *)
(* certificate and a signature are one cell each.  Every cell is             *)
(* <<kind, value, ...>> and a reader that expects a number takes the second  *)
(* component, whatever the kind, as the code reads any byte.                 *)
EXTENDS Integers, Sequences, SequencesExt

CONSTANTS
    SofParams,      \* what callers ask for: [type, payload, meta]
    MetaCount,      \* optional metadata fields (seven in the code)
    BufferSizes,    \* sizes of the output buffers callers bring
    ValueWireMax,   \* 255, the largest length a TLV byte can hold
    MetaValueMax,   \* SOF_META_VALUE_MAX
    EntryMax,       \* SOF_META_MAX_ENTRIES
    SignKeys,       \* keys that sign payloads
    BakedRoot,      \* SECUREOS_ROOT_PUBLIC_KEY
    OtherRoot       \* a root key installed at run time

VARIABLES
    sofFile,    \* the file, or NoImage
    made,       \* history: how the file was made
    harm,       \* history: "none", "cut" or "altered"
    rootKey,    \* cert_root_key_cache, 0 while not set
    loaded,     \* the result of sof_parse, or NotLoaded
    verified    \* the result of sof_verify_signature

sofVars == <<sofFile, made, harm, rootKey, loaded, verified>>

NoImage == [size |-> 0]
NotLoaded == [res |-> "none"]
Null == <<-1>>          \* a metadata field the caller leaves out
Roots == {BakedRoot, OtherRoot}

-----------------------------------------------------------------------------
\* Cryptography, external: a signature is valid for exactly the key and the
\* message it was made with.
Sign(key, msg) == <<"sig", key, msg>>
SignatureHolds(sig, msg, key) == sig = <<"sig", key, msg>>

cert_build(issuer, subject) ==
    <<"cert", issuer, subject, Sign(issuer, <<issuer, subject>>)>>

cert_parse(cell) == cell[1] = "cert"

cert_verify(cert, key) == SignatureHolds(cert[4], <<cert[2], cert[3]>>, key)

cert_get_root_public_key == IF rootKey # 0 THEN rootKey ELSE BakedRoot

-----------------------------------------------------------------------------
\* Writers.
Given(p) == SelectSeq([k \in 1..MetaCount |-> k], LAMBDA k : p.meta[k] # Null)
Wire(v) == IF Len(v) > ValueWireMax THEN ValueWireMax ELSE Len(v)
ByteCells(v) == [i \in 1..Len(v) |-> <<"byte", v[i]>>]
Zeros(n) == [i \in 1..n |-> <<"byte", 0>>]
Total(lens) == FoldSeq(LAMBDA a, b : a + b, 0, lens)

\* A mutant: the length byte is not clamped with the value.
EntryUnclamped(k, v) ==
    <<<<"key", k>>, <<"len", Len(v)>>>> \o ByteCells(SubSeq(v, 1, Wire(v)))

sof_write_meta_entry(k, v) ==
    <<<<"key", k>>, <<"len", Wire(v)>>>> \o ByteCells(SubSeq(v, 1, Wire(v)))

sofpack_write_tlv(k, v) ==
    <<<<"key", k>>, <<"len", Wire(v)>>>> \o ByteCells(SubSeq(v, 1, Wire(v)))

sofpack_tlv_len(v) == 2 + Wire(v)

\* The dry run of sof_build counts the values as they are, not as they are
\* clamped when they are written.
DryMetaSize(p) ==
    Total([i \in 1..Len(Given(p)) |-> 2 + Len(p.meta[Given(p)[i]])])

sofpack_layout(p) ==
    Total([i \in 1..Len(Given(p)) |-> sofpack_tlv_len(p.meta[Given(p)[i]])])

Entries(p) ==
    FlattenSeq([i \in 1..Len(Given(p)) |->
        sof_write_meta_entry(Given(p)[i], p.meta[Given(p)[i]])])

PackedEntries(p) ==
    FlattenSeq([i \in 1..Len(Given(p)) |->
        sofpack_write_tlv(Given(p)[i], p.meta[Given(p)[i]])])

Header(p, metaSize) ==
    [type |-> p.type, total |-> 1 + metaSize + Len(p.payload),
     meta_offset |-> 1, meta_count |-> Len(Given(p)), meta_size |-> metaSize,
     payload_offset |-> 1 + metaSize, payload_size |-> Len(p.payload),
     sig_offset |-> 0, sig_size |-> 0]

\* The zeroed buffer shows between the entries and the payload.
Layout(p, metaSize, entries) ==
    [size |-> 1 + metaSize + Len(p.payload),
     hdr |-> Header(p, metaSize),
     body |-> entries \o Zeros(metaSize - Len(entries)) \o ByteCells(p.payload)]

BuildCheck(p, metaSize, bufferSize) ==
    IF p.payload = <<>> THEN "no_payload"
    ELSE IF p.type \notin {"bin", "lib"} THEN "invalid_type"
    ELSE IF 1 + metaSize + Len(p.payload) > bufferSize THEN "too_small"
    ELSE "ok"

PackCheck(p, bufferSize) ==
    IF p.payload = <<>> THEN "no_payload"
    ELSE IF p.type \notin {"bin", "lib"} THEN "invalid_type"
    ELSE IF 1 + sofpack_layout(p) + Len(p.payload) > bufferSize THEN "too_small"
    ELSE "ok"

sof_build(p) == Layout(p, DryMetaSize(p), Entries(p))

sofpack_wrap(p) == Layout(p, sofpack_layout(p), PackedEntries(p))

\* The signature section is appended and the three header fields that know of
\* it are rewritten.
Signed(f, key, cert) ==
    [size |-> f.size + 2,
     hdr |-> [f.hdr EXCEPT !.total = f.size + 2, !.sig_offset = f.size,
                           !.sig_size = 2],
     body |-> f.body \o
        <<cert, Sign(key, SubSeq(f.body, f.hdr.payload_offset,
                           f.hdr.payload_offset + f.hdr.payload_size - 1))>>]

-----------------------------------------------------------------------------
\* Readers.
sof_validate_header(f) ==
    IF f.size < 1 THEN "invalid_size"
    ELSE IF f.hdr.type \notin {"bin", "lib", "app"} THEN "invalid_type"
    ELSE IF f.hdr.total > f.size THEN "invalid_size"
    ELSE "ok"

\* One turn of the TLV loop; st is [res, cursor, meta].
Clipped(n) == IF n >= MetaValueMax THEN MetaValueMax - 1 ELSE n

TakeEntry(f, st) ==
    IF st.res # "ok" THEN st
    ELSE IF st.cursor + 2 > f.size THEN [st EXCEPT !.res = "invalid_meta"]
    ELSE IF st.cursor + 2 + f.body[st.cursor + 1][2] > f.size
         THEN [st EXCEPT !.res = "invalid_meta"]
    ELSE [res |-> "ok",
          cursor |-> st.cursor + 2 + f.body[st.cursor + 1][2],
          meta |-> Append(st.meta,
             [key |-> f.body[st.cursor][2],
              len |-> f.body[st.cursor + 1][2],
              value |-> [j \in 1..Clipped(f.body[st.cursor + 1][2]) |->
                            f.body[st.cursor + 1 + j][2]]])]

TakeEntries(f) ==
    FoldSeq(LAMBDA i, st : TakeEntry(f, st),
            [res |-> "ok", cursor |-> f.hdr.meta_offset, meta |-> <<>>],
            [i \in 1..(IF f.hdr.meta_count < EntryMax
                       THEN f.hdr.meta_count ELSE EntryMax) |-> i])

ParsedFile(f, st) ==
    IF st.res # "ok" THEN [res |-> st.res]
    ELSE [res |-> "ok", hdr |-> f.hdr, meta |-> st.meta,
          payload |-> SubSeq(f.body, f.hdr.payload_offset,
                        f.hdr.payload_offset + f.hdr.payload_size - 1),
          has_signature |-> f.hdr.sig_offset # 0 /\ f.hdr.sig_size # 0]

sof_parse(f) ==
    IF sof_validate_header(f) # "ok" THEN [res |-> sof_validate_header(f)]
    ELSE IF f.hdr.payload_offset + f.hdr.payload_size > f.size
         THEN [res |-> "invalid_size"]
    ELSE IF f.hdr.payload_size = 0 THEN [res |-> "no_payload"]
    ELSE IF f.hdr.meta_offset + f.hdr.meta_size > f.size
         THEN [res |-> "invalid_size"]
    ELSE ParsedFile(f, TakeEntries(f))

sof_get_meta(parsed, key) ==
    SelectSeq(parsed.meta, LAMBDA e : e.key = key)

sof_signature_present(hdr) == hdr.sig_offset # 0 /\ hdr.sig_size # 0

\* A mutant: the certificate is taken for its issuer field alone.
CertUnchecked(cert) == cert_parse(cert) /\ cert[2] = cert_get_root_public_key

CertTrusted(cert) ==
    /\ cert_parse(cert)
    /\ cert[2] = cert_get_root_public_key
    /\ cert_verify(cert, cert_get_root_public_key)

sof_verify_signature(f, parsed) ==
    IF ~sof_signature_present(parsed.hdr) THEN "ok"
    ELSE IF /\ parsed.hdr.sig_size >= 2
            /\ parsed.hdr.sig_offset + parsed.hdr.sig_size <= f.size
            /\ CertTrusted(f.body[parsed.hdr.sig_offset])
            /\ SignatureHolds(f.body[parsed.hdr.sig_offset + 1], parsed.payload,
                              f.body[parsed.hdr.sig_offset][3])
         THEN "ok"
    ELSE "signature_invalid"

-----------------------------------------------------------------------------
SofInit ==
    /\ sofFile = NoImage
    /\ made = [by |-> "nobody"]
    /\ harm = "none"
    /\ rootKey = 0
    /\ loaded = NotLoaded
    /\ verified = "none"

Unmade == sofFile = NoImage /\ made.by = "nobody"

BuildFile(p, bufferSize) ==
    /\ made' = [by |-> "kernel", params |-> p,
                res |-> BuildCheck(p, DryMetaSize(p), bufferSize)]
    /\ sofFile' = IF made'.res = "ok" THEN sof_build(p) ELSE NoImage
    /\ UNCHANGED <<harm, rootKey, loaded, verified>>

WrapFile(p, bufferSize) ==
    /\ made' = [by |-> "sofpack", params |-> p, res |-> PackCheck(p, bufferSize)]
    /\ sofFile' = IF made'.res = "ok" THEN sofpack_wrap(p) ELSE NoImage
    /\ UNCHANGED <<harm, rootKey, loaded, verified>>

\* The certificate names the issuer's choice of subject, which need not be the
\* key that signs; it is always whole (cert_data_len is its full size).
BuildSigned(p, key, issuer, subject, bufferSize) ==
    /\ made' = [by |-> "signer", params |-> p, key |-> key, issuer |-> issuer,
                subject |-> subject,
                res |-> IF BuildCheck(p, DryMetaSize(p), bufferSize) # "ok"
                        THEN BuildCheck(p, DryMetaSize(p), bufferSize)
                        ELSE IF sof_build(p).size + 2 > bufferSize
                        THEN "too_small" ELSE "ok"]
    /\ sofFile' = IF made'.res = "ok"
                THEN Signed(sof_build(p), key, cert_build(issuer, subject))
                ELSE NoImage
    /\ UNCHANGED <<harm, rootKey, loaded, verified>>

\* Storage keeps only a prefix of the file; size 0 stands for a cut header.
CutShort(n) ==
    /\ sofFile' = [sofFile EXCEPT !.size = n, !.body = SubSeq(@, 1, n - 1)]
    /\ harm' = "cut"
    /\ UNCHANGED <<made, rootKey, loaded, verified>>

\* Storage alters one cell of the payload or of the signature section.
Spoiled(cell) ==
    IF cell[1] = "byte" THEN {<<"byte", cell[2] + 1>>}
    ELSE IF cell[1] = "cert"
    THEN {<<"cert", cell[2], k, cell[4]>> : k \in SignKeys \ {cell[3]}}
         \union {<<"byte", 0>>}
    ELSE {<<"byte", 0>>}

Alter(o) ==
    /\ \E c \in Spoiled(sofFile.body[o]) : sofFile' = [sofFile EXCEPT !.body[o] = c]
    /\ harm' = "altered"
    /\ UNCHANGED <<made, rootKey, loaded, verified>>

cert_set_root_public_key(k) ==
    /\ rootKey' = k
    /\ UNCHANGED <<sofFile, made, harm, loaded, verified>>

LoadFile ==
    /\ loaded' = sof_parse(sofFile)
    /\ verified' = IF loaded'.res = "ok"
                   THEN sof_verify_signature(sofFile, loaded') ELSE "unread"
    /\ UNCHANGED <<sofFile, made, harm, rootKey>>

Stored == sofFile # NoImage /\ loaded = NotLoaded

SofNext ==
    \/ Unmade /\ \E p \in SofParams, b \in BufferSizes :
                    \/ BuildFile(p, b)
                    \/ WrapFile(p, b)
    \/ Unmade /\ \E p \in SofParams, b \in BufferSizes, k, s \in SignKeys,
                    i \in Roots : BuildSigned(p, k, i, s, b)
    \/ Stored /\ harm = "none" /\ \E n \in 0..(sofFile.size - 1) : CutShort(n)
    \/ /\ Stored /\ harm = "none"
       /\ \E o \in sofFile.hdr.payload_offset..(sofFile.size - 1) : Alter(o)
    \/ Stored /\ rootKey = 0 /\ \E k \in Roots : cert_set_root_public_key(k)
    \/ Stored /\ LoadFile

SofSpec == SofInit /\ [][SofNext]_sofVars

-----------------------------------------------------------------------------
\* What was asked for, as sof_parse should give it back.
Expected(p) ==
    [i \in 1..Len(Given(p)) |->
        [key |-> Given(p)[i], len |-> Wire(p.meta[Given(p)[i]]),
         value |-> SubSeq(p.meta[Given(p)[i]], 1,
                      Clipped(Wire(p.meta[Given(p)[i]])))]]

\* Both writers of the container round-trip through sof_parse: an unharmed file
\* gives back its type, its payload and the metadata it was given (clamped), and
\* sof_get_meta finds each field.  A file cut short anywhere is refused.  A
\* signed file verifies exactly when it is unharmed, the certificate was issued
\* by the root key in force and names the key that signed
\* (sof_verify_signature, cert_verify).
ContainerRoundTrips ==
    loaded # NotLoaded =>
    /\ (harm = "cut") <=> (loaded.res # "ok")
    /\ harm = "none" =>
        /\ loaded.hdr.type = made.params.type
        /\ loaded.payload = ByteCells(made.params.payload)
        /\ loaded.meta = Expected(made.params)
        /\ loaded.has_signature <=> (made.by = "signer")
        /\ \A i \in 1..Len(Expected(made.params)) :
              sof_get_meta(loaded, Expected(made.params)[i].key)
                 = <<Expected(made.params)[i]>>
    /\ (loaded.res = "ok" /\ made.by = "signer") =>
        ((verified = "ok") <=>
            /\ harm = "none"
            /\ made.issuer = cert_get_root_public_key
            /\ made.subject = made.key)

\* sofpack_wrap produces the file sof_build produces, byte for byte
\* (user/libs/sofpack/src/sofpack.c and tests/sofpack_wrap_test.c say so).
WritersAgree ==
    (made.by = "sofpack" /\ made.res = "ok" /\ harm = "none") =>
        sofFile = sof_build(made.params)
=============================================================================
