--------------------------- MODULE Serialization ---------------------------
(***************************************************************************)
(* What the program writes of its objects and what it reads back: the      *)
(* Serializer, the Deserializer, and the pair of functions each model has. *)
(*                                                                         *)
(* A byte is a number below Byte, an integer or a BigInt a sequence of as  *)
(* many bytes as its type has, an optional field a sequence of at most one *)
(* element.  Bytes read come in the order they were written (EndianUtil).  *)
(***************************************************************************)
EXTENDS Naturals, Sequences, SequencesExt

CONSTANTS
    Bits,       \* bits of a byte
    Size,       \* bytes of a u16, u32, u64, nonce, hash, point and signature
    MaxProof    \* RangeProof::MAX_SIZE

Byte == 2^Bits

ASSUME SizeAssumption ==
    /\ Bits \in Nat \ {0} /\ MaxProof \in Nat
    /\ \A f \in {"u16", "u32", "u64", "nonce", "hash", "point", "signature"} :
           Size[f] \in Nat \ {0}
-----------------------------------------------------------------------------
(* The Serializer appends to a sequence of bytes, casts included.          *)

Integer(n, size) == [i \in 1 .. size |-> (n \div Byte^(size - i)) % Byte]
Number(bytes) == FoldLeft(LAMBDA n, b : n * Byte + b, 0, bytes)

\* A vector is written as its length, in 32 bits, and its items.
AppendVec(items) == Integer(Len(items), Size.u32) \o FlattenSeq(items)

\* A script or extra data is written behind a byte with its length.
AppendShort(bytes) == <<Len(bytes) % Byte>> \o bytes

AppendOpt(opt) == IF opt = <<>> THEN <<0>> ELSE <<1>> \o opt[1]
-----------------------------------------------------------------------------
(* The Deserializer: its bytes and index, whether it has thrown, and what  *)
(* has been got from it and not been put into an object yet.               *)

Deserializer(bytes) == [bytes |-> bytes, index |-> 0, thrown |-> FALSE, got |-> <<>>]

Throw(d) == [d EXCEPT !.thrown = TRUE]

Read(d, n) ==
    IF d.thrown \/ d.index + n > Len(d.bytes) THEN Throw(d)
    ELSE [d EXCEPT !.index = @ + n,
                   !.got = Append(@, SubSeq(d.bytes, d.index + 1, d.index + n))]

ReadEach(d, sizes) == FoldLeft(Read, d, sizes)

\* What e has got since d is put together.
Built(d, e, Object(_)) ==
    IF e.thrown THEN e
    ELSE [e EXCEPT !.got = Append(d.got, Object(SubSeq(@, Len(d.got) + 1, Len(@))))]

\* As many bytes as an integer of this size says.
ReadCounted(d, size) ==
    LET count == Read(d, size)
    IN  IF count.thrown THEN count
        ELSE Built(d, Read(count, Number(Last(count.got))), LAMBDA g : g[2])

\* As many items as an integer of this size says.
ReadItems(d, size, Item(_)) ==
    LET count == Read(d, size)
        items == FoldLeft(LAMBDA e, i : IF e.thrown THEN e ELSE Item(e), count,
                          [i \in 1 .. Number(Last(count.got)) |-> i])
    IN  IF count.thrown THEN count ELSE Built(d, items, Tail)

ReadVec(d, Item(_)) == ReadItems(d, Size.u32, Item)

\* An optional field is read when a byte says so, and otherwise it is none.
ReadIf(d, present, sizes) ==
    Built(d, IF present THEN ReadEach(d, sizes) ELSE d, LAMBDA g : g)

ReadOpt(d, size) ==
    LET flag == Read(d, 1)
    IN  IF flag.thrown THEN flag
        ELSE Built(d, ReadIf(flag, Last(flag.got) # <<0>>, <<size>>), LAMBDA g : g[2])
-----------------------------------------------------------------------------
(* Range proofs, outputs, inputs, owner messages.                          *)

RangeProofBytes(proof) == Integer(Len(proof), Size.u16) \o proof

ReadRangeProof(d) ==
    LET size == Read(d, Size.u16)
    IN  IF size.thrown \/ Number(Last(size.got)) > MaxProof THEN Throw(size)
        ELSE ReadCounted(d, Size.u16)

OutputIdBytes(o) ==
    o.commitment \o o.features \o o.receiver \o o.exchange \o o.view_tag
        \o o.value \o o.nonce \o o.sender

OutputBytes(o) == OutputIdBytes(o) \o o.signature \o RangeProofBytes(o.proof)

OutputIdSizes ==
    <<Size.point, 1, Size.point, Size.point, 1, Size.u64, Size.nonce, Size.point>>

OutputId(g) ==
    [commitment |-> g[1], features |-> g[2], receiver |-> g[3], exchange |-> g[4],
     view_tag |-> g[5], value |-> g[6], nonce |-> g[7], sender |-> g[8]]

ReadOutputId(d) == Built(d, ReadEach(d, OutputIdSizes), OutputId)

ReadOutput(d) ==
    Built(d, ReadRangeProof(ReadEach(d, Append(OutputIdSizes, Size.signature))),
          LAMBDA g : OutputId(g) @@ [signature |-> g[9], proof |-> g[10]])

InputBytes(i) == i.commitment \o i.pubkey \o i.signature

ReadInput(d) ==
    Built(d, ReadEach(d, <<Size.point, Size.point, Size.signature>>),
          LAMBDA g : [commitment |-> g[1], pubkey |-> g[2], signature |-> g[3]])

SignedMessageBytes(m) == m.hash \o m.pubkey \o m.signature

ReadSignedMessage(d) ==
    Built(d, ReadEach(d, <<Size.hash, Size.point, Size.signature>>),
          LAMBDA g : [hash |-> g[1], pubkey |-> g[2], signature |-> g[3]])
-----------------------------------------------------------------------------
(* Kernels.  A byte of features says which of the optional fields follow.  *)

FeatureBits == [fee |-> 1, pegin |-> 2, pegout |-> 4, lock_height |-> 8, extra_data |-> 16]

FeaturesByte(k) ==
    FoldLeft(LAMBDA n, f : n + IF k[f] = <<>> THEN 0 ELSE FeatureBits[f],
             0, <<"fee", "pegin", "pegout", "lock_height", "extra_data">>)

KernelBytes(k) ==
    <<FeaturesByte(k)>>
        \o FlattenSeq(k.fee) \o FlattenSeq(k.pegin)
        \o (IF k.pegout = <<>> THEN <<>>
            ELSE k.pegout[1].amount \o AppendShort(k.pegout[1].script))
        \o FlattenSeq(k.lock_height)
        \o (IF k.extra_data = <<>> THEN <<>> ELSE AppendShort(k.extra_data))
        \o k.excess \o k.signature

PegOutCoinBytes(p) == p.amount \o AppendShort(p.script)

\* Mutant: the length of the script is read as the lengths of vectors are.
ReadPegOutCoinWide(d) ==
    Built(d, ReadCounted(Read(d, Size.u64), Size.u32),
          LAMBDA g : [amount |-> g[1], script |-> g[2]])

ReadPegOutCoin(d) ==
    Built(d, ReadCounted(Read(d, Size.u64), 1),
          LAMBDA g : [amount |-> g[1], script |-> g[2]])

ReadKernel(d) ==
    LET features == Read(d, 1)
        Has(f) == (Last(features.got)[1] \div FeatureBits[f]) % 2 = 1
        fee == ReadIf(features, Has("fee"), <<Size.u64>>)
        pegin == ReadIf(fee, Has("pegin"), <<Size.u64>>)
        pegout == Built(pegin, IF Has("pegout") THEN ReadPegOutCoin(pegin) ELSE pegin,
                        LAMBDA g : g)
        lock == ReadIf(pegout, Has("lock_height"), <<Size.u64>>)
        extra == Built(lock, IF Has("extra_data") THEN ReadCounted(lock, 1) ELSE lock,
                       FlattenSeq)
    IN  IF features.thrown THEN features
        ELSE Built(d, ReadEach(extra, <<Size.point, Size.signature>>),
                   LAMBDA g : [fee |-> g[2], pegin |-> g[3], pegout |-> g[4],
                               lock_height |-> g[5], extra_data |-> g[6],
                               excess |-> g[7], signature |-> g[8]])
-----------------------------------------------------------------------------
(* Bodies, transactions, headers, blocks.                                  *)

Each(Bytes(_), s) == [i \in DOMAIN s |-> Bytes(s[i])]

TxBodyBytes(body) ==
    AppendVec(Each(InputBytes, body.inputs)) \o AppendVec(Each(OutputBytes, body.outputs))
        \o AppendVec(Each(KernelBytes, body.kernels))
        \o AppendVec(Each(SignedMessageBytes, body.owner_sigs))

ReadTxBody(d) ==
    LET inputs == ReadVec(d, ReadInput)
        outputs == ReadVec(inputs, ReadOutput)
        kernels == ReadVec(outputs, ReadKernel)
        sigs == ReadVec(kernels, ReadSignedMessage)
    IN  Built(d, sigs, LAMBDA g : [inputs |-> g[1], outputs |-> g[2], kernels |-> g[3],
                                   owner_sigs |-> g[4]])

TransactionBytes(tx) == tx.kernel_offset \o tx.owner_offset \o TxBodyBytes(tx.body)

ReadTransaction(d) ==
    Built(d, ReadTxBody(ReadEach(d, <<Size.hash, Size.hash>>)),
          LAMBDA g : [kernel_offset |-> g[1], owner_offset |-> g[2], body |-> g[3]])

HeaderBytes(h) ==
    h.height \o h.output_root \o h.kernel_root \o h.leafset_root
        \o h.kernel_offset \o h.owner_offset \o h.output_size \o h.kernel_size

ReadHeader(d) ==
    Built(d, ReadEach(d, <<Size.u64, Size.hash, Size.hash, Size.hash, Size.hash,
                           Size.hash, Size.u64, Size.u64>>),
          LAMBDA g : [height |-> g[1], output_root |-> g[2], kernel_root |-> g[3],
                      leafset_root |-> g[4], kernel_offset |-> g[5],
                      owner_offset |-> g[6], output_size |-> g[7], kernel_size |-> g[8]])

BlockBytes(b) == HeaderBytes(b.header) \o TxBodyBytes(b.body)

ReadBlock(d) ==
    Built(d, ReadTxBody(ReadHeader(d)), LAMBDA g : [header |-> g[1], body |-> g[2]])
-----------------------------------------------------------------------------
(* Undo data, coins, leafsets, what the database and the wallet keep.      *)

UTXOBytes(u) == u.height \o u.leaf \o OutputBytes(u.output)

ReadUTXO(d) ==
    Built(d, ReadOutput(ReadEach(d, <<Size.u64, Size.u64>>)),
          LAMBDA g : [height |-> g[1], leaf |-> g[2], output |-> g[3]])

BlockUndoBytes(u) ==
    (IF u.prev = <<>> THEN <<0>> ELSE <<1>> \o HeaderBytes(u.prev[1]))
        \o AppendVec(Each(UTXOBytes, u.spent)) \o AppendVec(u.added)

ReadBlockUndo(d) ==
    LET flag == Read(d, 1)
        prev == Built(flag, IF Last(flag.got) = <<1>> THEN ReadHeader(flag) ELSE flag,
                      LAMBDA g : g)
        spent == ReadVec(prev, ReadUTXO)
        added == ReadVec(spent, LAMBDA e : Read(e, Size.point))
    IN  IF flag.thrown THEN flag
        ELSE Built(d, added, LAMBDA g : [prev |-> g[2], spent |-> g[3], added |-> g[4]])

\* The bytes of a bit set, the last one filled up with bits that are not set.
BytesOf(bitset) ==
    [i \in 1 .. (Len(bitset) + Bits - 1) \div Bits |->
        FoldLeft(LAMBDA n, j : 2 * n + IF (i - 1) * Bits + j <= Len(bitset)
                                       THEN bitset[(i - 1) * Bits + j] ELSE 0,
                 0, [j \in 1 .. Bits |-> j])]

FromBytes(bytes) ==
    [n \in 1 .. Len(bytes) * Bits |->
        (bytes[(n - 1) \div Bits + 1] \div 2^(Bits - 1 - ((n - 1) % Bits))) % 2]

BitSetBytes(bitset) ==
    Integer(Len(BytesOf(bitset)), Size.u64) \o BytesOf(bitset)

ReadBitSet(d) ==
    Built(d, ReadCounted(d, Size.u64), LAMBDA g : FromBytes(g[1]))

\* A header that the files were compacted for, if any, is a zero hash if none.
NoHash == Integer(0, Size.hash)

MMRInfoBytes(info) ==
    info.version \o info.index \o info.pruned \o info.compact_index
        \o (IF info.compacted = <<>> THEN NoHash ELSE info.compacted[1])

ReadMMRInfo(d) ==
    Built(d, ReadEach(d, <<1, Size.u32, Size.hash, Size.u32, Size.hash>>),
          LAMBDA g : [version |-> g[1], index |-> g[2], pruned |-> g[3],
                      compact_index |-> g[4],
                      compacted |-> IF g[5] = NoHash THEN <<>> ELSE <<g[5]>>])

CoinBytes(c) ==
    c.features \o c.address_index \o AppendOpt(c.key) \o AppendOpt(c.blind)
        \o c.amount \o c.commitment

ReadCoin(d) ==
    LET keys == ReadOpt(ReadOpt(ReadEach(d, <<1, Size.u32>>), Size.hash), Size.hash)
    IN  Built(d, ReadEach(keys, <<Size.u64, Size.point>>),
              LAMBDA g : [features |-> g[1], address_index |-> g[2], key |-> g[3],
                          blind |-> g[4], amount |-> g[5], commitment |-> g[6]])
=============================================================================
