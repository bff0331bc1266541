-------------------------------- MODULE Wire --------------------------------
(***************************************************************************)
(* An object is serialized by one call of libmw or of the database, its    *)
(* bytes are stored or sent, perhaps cut short, and are read by another    *)
(* call.                                                                   *)
(***************************************************************************)
EXTENDS Serialization

CONSTANT Messages   \* the objects to send: records of their type and value

VARIABLES
    sent,       \* the object that was serialized last
    buffer,     \* its bytes, or as many as are left of them
    whole,      \* no byte is missing
    received    \* the Deserializer after they were read, if they have been

wirevars == <<sent, buffer, whole, received>>

None == <<>>

Serialized(m) ==
    CASE m.type = "Header" -> HeaderBytes(m.value)
      [] m.type = "Block" -> BlockBytes(m.value)
      [] m.type = "BlockUndo" -> BlockUndoBytes(m.value)
      [] m.type = "Tx" -> TransactionBytes(m.value)
      [] m.type = "Coin" -> CoinBytes(m.value)
      [] m.type = "UTXO" -> UTXOBytes(m.value)
      [] m.type = "OutputId" -> OutputIdBytes(m.value)
      [] m.type = "Kernel" -> KernelBytes(m.value)
      [] m.type = "PegOutCoin" -> PegOutCoinBytes(m.value)
      [] m.type = "MMRInfo" -> MMRInfoBytes(m.value)
      [] m.type = "BitSet" -> BitSetBytes(m.value)

Deserialized(type, bytes) ==
    LET d == Deserializer(bytes)
    IN  CASE type = "Header" -> ReadHeader(d)
          [] type = "Block" -> ReadBlock(d)
          [] type = "BlockUndo" -> ReadBlockUndo(d)
          [] type = "Tx" -> ReadTransaction(d)
          [] type = "Coin" -> ReadCoin(d)
          [] type = "UTXO" -> ReadUTXO(d)
          [] type = "OutputId" -> ReadOutputId(d)
          [] type = "Kernel" -> ReadKernel(d)
          [] type = "PegOutCoin" -> ReadPegOutCoin(d)
          [] type = "MMRInfo" -> ReadMMRInfo(d)
          [] type = "BitSet" -> ReadBitSet(d)

WireInit == sent = None /\ buffer = <<>> /\ whole = TRUE /\ received = None

Serialize(m) ==
    /\ sent = None
    /\ sent' = <<m>>
    /\ buffer' = Serialized(m)
    /\ UNCHANGED <<whole, received>>

LoseByte ==
    /\ buffer # <<>> /\ received = None
    /\ buffer' = Front(buffer)
    /\ whole' = FALSE
    /\ UNCHANGED <<sent, received>>

Deserialize ==
    /\ sent # None /\ received = None
    /\ received' = <<Deserialized(sent[1].type, buffer)>>
    /\ UNCHANGED <<sent, buffer, whole>>

WireNext ==
    \/ \E m \in Messages : Serialize(m)
    \/ LoseByte
    \/ Deserialize

WireSpec == WireInit /\ [][WireNext]_wirevars
-----------------------------------------------------------------------------
\* A bit set comes back longer, up to the end of its last byte.
Padded(m) ==
    IF m.type # "BitSet" THEN m.value
    ELSE [n \in 1 .. Bits * Len(BytesOf(m.value)) |->
             IF n <= Len(m.value) THEN m.value[n] ELSE 0]

(* What the program has written it reads back as the same object, to the   *)
(* last byte: the orders, widths and conditions of each pair of functions  *)
(* agree, at lengths of zero and of all a length byte holds too.  Of a     *)
(* part of the bytes no object is read (Kernel.cpp:80-168,                 *)
(* Output.cpp:150-191, BlockUndo.h:40-63 and the other pairs).             *)
ReadsBack ==
    \A d \in ToSet(received) :
        IF whole
        THEN ~d.thrown /\ d.index = Len(buffer) /\ d.got = <<Padded(sent[1])>>
        ELSE d.thrown
=============================================================================
