# A verification of libmw's chain state

This directory holds TLA+ models of libmw, the Mimblewimble extension block (MWEB) library
of Litecoin, TLC configurations that check them on small instances, and proofs that TLAPS
checks for every value of the constants. Paths such as `CoinsViewCache.cpp:204` name the
repository's files; `PROJECT.json` maps each definition to the lines it is translated from.

## 1. Inventory

| component | code | state | operations |
|---|---|---|---|
| coins views | `node/CoinsView*.cpp`, `CoinsView.h` | best header, cached actions of each commitment, leafset, two MMRs; a base view | ApplyBlock, UndoBlock, BuildNextBlock, GetUTXOs, HasCoinInCache, WriteBatch, Flush |
| node | `Node.cpp`, `libmw_node.cpp` | the database view | Initialize, CheckBlock, ConnectBlock, DisconnectBlock, FlushCache, ApplyState, SnapshotState |
| leafset | `mmr/*LeafSet*` | one bit for every output ever mined; modified bytes of a cache | Add, Remove, Contains, Rewind, Root, ApplyUpdates, Flush |
| MMRs | `mmr/MMR*.cpp`, `FileBackend.cpp`, `Index.cpp`, `MMRUtil.h` | hashes by position, leaves; a cache's first leaf, leaves and nodes | AddLeaf, Rewind, BatchWrite, Flush, GetHash, Root |
| pruned MMR | `MMRFactory.cpp`, `PruneList.cpp`, `MMRUtil.h`, `BitSet.h` | the compacted positions | Build, BuildCompactBitSet, CalcPrunedParents, GetShift |
| files | `AppendOnlyFile.h`, `File.cpp`, `LeafSet.cpp` | content, buffer, file number | Load, Append, Rewind, Commit, CopyTo |
| database tables | `src/db` | coins, leaves, MMRInfo; entries added in a batch | Put, Get, Delete, Save, GetLatest |
| state sync, snapshot | `CoinsViewFactory.cpp`, `Snapshot.cpp`, `State.h` | a state in transit; an iterator along the chain | CreateDBView, BuildAndValidateKernelMMR, Build |
| block builder | `BlockBuilder.cpp`, `Aggregation.h` | aggregated transaction, weight | AddTransaction, BuildBlock |
| validation, sums | `BlockValidator.cpp`, `TxBody.cpp`, `KernelSumValidator.h`, `OwnerSumValidator.h` | a block's validated flag | Validate |
| verification | `Bulletproofs.cpp`, `Schnorr.cpp`, `MuSig.cpp`, `Crypto.cpp`, `*Cache.h`, `Lock.h` | caches of what was verified, under a mutex; contexts under a shared mutex | BatchVerify, Verify, Sign, Generate, Rewind, the sums of points; Add, Contains; Read, Write |
| wallet | `src/wallet`, `Output.cpp` | keys, address counter, spend keys derived so far | CreateTx, Output::Create, RewindOutput, GetStealthAddress, IsSpendPubKey |
| models, serialization | `Serializer.h`, `Deserializer.h`, `include/mw/models`, `libmw.cpp` | bytes and a position in them | Serialize and Deserialize of each object |

**How they interact.** The surrounding node owns a `CoinsViewDB` and a long-lived
`CoinsViewCache` over it. ConnectBlock and DisconnectBlock make a temporary cache over the
one they are given, change it, compare its roots with the header, and flush it into its base;
an exception drops it. FlushCache moves the long-lived cache down: the coins into a database
batch, leafset and hashes into copies of the files with the next file number, the number into
the same batch. The caller commits the batch later. At a start, the number in the database
decides which files are opened.

**What is hard.**
- A view is five pieces (coins, leafset, two MMRs, header) that go to the disk in three
  ways. They must stay together over reorgs, flushes at any moment, and calls that throw.
- A cache remembers actions, not values, and where its base ended. Its answers depend on the
  actions of every level composing in order.
- A flush is many steps and a commit that comes later; a crash may strike between any two.
- Positions in an MMR are the result of bit arithmetic, and a pruned one shifts them.
- A state that arrives is compared with the chain in pieces: kernels with headers, leafset with
  its root, outputs and parent hashes with theirs.
- A wallet has no list of its outputs. It finds them by a counter that finding them moves.
- Everything is single-threaded but for verification and signing: threads share the contexts of
  libsecp256k1 and what others have verified.

**What makes each component correct.** A view is a stack of states, whatever it is built of
(`ExtBlockChain`). An MMR under caches is a list, a leafset a set (`LeafLists`, `LeafBits`). A
pruned MMR answers as the full one. The store moves from one whole state to the next
(`DurableState`). A built block connects, and where it was built; a sum over the state holds if
those of its blocks do (`Mining`). What a verification answers depends on what was asked alone
(`Verifier`). A wallet finds what was paid to it within its window, and what is written is read back.

`PROJECT.json` lists all hazards with their lines.

## 2. Modules

`A <- B` says that B extends A, `A ..implements.. B` that A instantiates B and refines it.

```
ChainState <- ExtBlockChain;  ChainState <- CoinsView <- CoinActions, CoinsViewProofs
ExtBlockChain, CoinsViewProofs <- ExtBlockChainProofs
              CoinsView <- Node <- MCNode;   Node, CoinsViewProofs <- NodeProofs
              Node ..implements.. ExtBlockChain
Store ..implements.. DurableState;  Store <- RejectedState;  Store, CoinActions, CoinsViewProofs <- StoreProofs
MMRNodes <- IndexWalk, MMR, PrunedMMR;  MMR ..implements.. LeafLists
LeafSet ..implements.. LeafBits
LeafSet, PrunedMMR, StateKernels <- MCLeafSet;  LeafSet, StateKernels <- LeafSetProofs;  MCNode, CoinActions <- MCNodeLists
ChainState <- Transactions <- Mining <- MCMining;  Mining, CoinsViewProofs <- MiningProofs
ContextLock <- Verification <- VerificationProofs, MCVerification;  Verification ..implements.. Verifier
Serialization <- Wire;  Wallet <- WalletProofs;  Wallet, Wire, MMR, IndexWalk <- MCParts
```

**ChainState, ExtBlockChain.** What a coins view promises. A state is the list of all outputs
mined, all kernels, the unspent coins, the leafset, and the header over them. Hashes are
collision free, so a root is the list (or the bytes) it is over. Connect pushes `Apply(tip, b)`,
Disconnect pops, Save copies the tip. `Apply` follows BuildNextBlock and ApplyBlock: spends
first, then outputs at the next leaf indices.

**CoinsView, Node.** The code. `cache` is the long-lived CoinsViewCache (`hdr`, `upd` =
CoinsViewUpdates, `leafset`, `kern`, `outs`), `db` the CoinsViewDB with tables and files,
`undos` the undo data the caller keeps, `ledger` the chain that the network follows.
`ConnectBlock`, `DisconnectBlock` and `FlushCache` each stand for the whole call, including the
temporary cache and its flush: nothing runs between their parts. A call that throws before its
flush changes nothing, and is not a step; a flush into the database that throws does leave the
new header behind, and is (`FlushCacheThrows`). In `upd`, the list of actions on a commitment is
in a normal form (coins it takes off, coins it leaves, last action). A hash file is what
`File::Write` makes of it: opened for appending, then cut.

**CoinActions.** The lists as they are, the replay of GetUTXOs, and the DBTransaction under
WriteBatch with its map of what was added (`Put`, `Get`, `Delete`). It justifies the normal form:
MCNodeLists checks it beside the node, StoreProofs proves it for lists of any length.

**Store, DurableState.** One file each for leafset, kernel hashes and output hashes in every
number, the table, the batch, and where the process is. `BeginFlush`, `Copy`, `Write`,
`EndFlush` are the steps of Flush between which a crash is told apart; `Commit` is the
caller's. `CopyThrows` is a second flush before a commit: it aims at the file that is open,
which CopyTo removes first. The caller then drops the batch and restarts, since the view cannot be used.
What a file holds is a number, that of the state it belongs to.

**RejectedState.** The store, when ApplyState is called with states that it rejects, which today
it does with every state with outputs, because the leafset file is written without the length in
front.

**MMRNodes, IndexWalk.** Index, LeafIndex, BitUtil, SiblingIter, the hashes a leaf adds, peaks
and root, next to a tree defined without positions. A hash is the tuple that is hashed.
IndexWalk walks through the positions as the loops of the code do.

**MMR, LeafLists.** Hash file and table, MMRCache, and a temporary MMRCache, with every node's
hash where the code has it. CoinsView takes an MMR to be its list of leaves: `ImplementsLists`,
`HashesOfTree` and `RootOfLeaves` (of IndexWalk) are why it may.

**LeafSet, LeafBits.** The file's bytes and two caches of modified bytes. CoinsView takes a
cache to be bits set and cleared: `ImplementsBits` and `RootsAgree` are why it may.
The loop with which `LeafSet::ApplyUpdates` clears what is behind the new end is in the model, though the
cache above has cleared these bits already.

**PrunedMMR.** The output MMR on a node that got a state: `Sync` builds hashes (CalcHashes) and
prune list (BuildCompactBitSet) from the leafset, the coins and the parent hashes, and `Mine`
and `Undo` go on as FileBackend does, with shifted positions. The state is taken as MMRFactory
receives it: ApplyState refuses it earlier (see Store). A rewind below the
synced size has no undo data. Compact and DiffCompactBitSet have no callers.

**Transactions.** Bodies, CreateTx, aggregation, and what makes a body valid: weight, order,
duplicates, owner messages and the sums. A commitment stands for its value and blinding factor, a
public key for its secret, so that a sum of points is a sum of numbers; one that comes to zero
throws, as libsecp256k1 does. Signatures and range proofs verify.

**Mining.** `chain` is the stack of states a view implements, with the offsets of the headers;
`builder` the BlockBuilder with the transactions it took; `block` what BuildBlock returned, with
ghosts for its transactions (`txs`) and the state it was built on (`at`). `CheckBlock` and
`ConnectBlock` may come much later, after blocks of others (`ForeignBlock`) and disconnects: a
template that went stale is tried at every tip. The blocks of others are all that CheckBlock and
ConnectBlock accept of the same coins and kernels, aggregated as no builder would. Pegs are taken
from the transactions in the order they were added, as the surrounding block would have them.

**StateKernels.** BuildAndValidateKernelMMR: the kernels of a state are added one by one while an
iterator walks along the headers and compares kernel roots. A header is the list of kernels up to it.
Whether the iterator's header is the same object as the state's is up to the caller, so both are tried.

**Verifier, ContextLock, Verification.** `Verifier` is a service without memory: threads ask and get a
right answer. `ContextLock` is `Locked<Context>`: a shared mutex with the readers that each thread
has and the writer, with or without preference for writers. `Verification` is what threads do: a function of
Bulletproofs, Schnorr, MuSig or Crypto is the sequence of its accesses to what is shared. `Look` and
`Add` are calls of the cache, `Acquire` a lock, `Use` the call into libsecp256k1 and the end of its
expression, where the temporaries release what they hold. A verification that finds
everything in the cache takes no lock, and a key that does not parse throws from the middle. No function uses two
contexts, so a behaviour is about one.

**Wallet.** Output::Create, RewindOutput and the Keychain over symbolic secrets: a hash is what was
hashed, a key the set of the terms it is the sum of, a point the product of scalars with a sum.
`payments` are the outputs of the chain, for this wallet and another; `GetAddress` and finding an output
raise the counter, `LoadKeychain` restarts with the counter saved or, from the seed, with none.
`FirstByte` lets the view tags of different secrets collide.

**Serialization, Wire.** The writers and readers field by field, over integers of a few digits, with
length prefixes of a byte or of four, optional fields and feature bits; a short read throws. In `Wire` an
object is written, may lose its last bytes, and is read.

MCParts, MCLeafSet and MCNodeLists put machines that share no variable side by side: a
behaviour takes the steps of one of them while the others rest.

## 3. Runs

Fairness is assumed in one run, `verification`: a thread that can take a step takes one in the end (`WF`
of each thread's steps), as the scheduler of an operating system runs what is not blocked. Nothing is assumed of
who gets a lock; calls end because each thread makes finitely many. All other runs are about
safety, since the code is a library that its caller drives.

Deadlock is not checked where the system may stop: threads have made their calls (`verification`;
that none is stuck is `EveryCallEnds`), and in `parts` the walk of IndexWalk ends and a message is
read once.

| run | what it shows | bounds, and why they are enough |
|---|---|---|
| `node_implements_chain` | database, cache and temporary cache are the stack of states; coins and leafset agree in view and database; no replay takes a coin that is not there; HasCoinInCache misses no new coin; a flush changes no answer; no block that extends the chain and no undo is refused; a header stands for one state; a spent coin does not return; the normal form of action lists answers as the lists | 2 commitments, 1 kernel, 3 blocks, 3 outputs, bytes of 2: a commitment is spent and re-created, the leafset gets a second byte, a flush comes between any two calls; all lists of up to 5 actions on 3 coins, in every split between two caches |
| `node_duplicates` | the leafset is as long as the output MMR even with duplicate outputs, undo to the first block, flushes that replace leaves and flushes that throw | 1 commitment, 3 outputs: an output is re-created twice while unspent |
| `store_crash_atomic` | flush, commit, crash and restart implement an atomic store; the open files fit the view; a restart finds the saved state; no file that the table has reached changes | 3 states, 3 file numbers: three flushes, each crashed at every step, and flushes before the commit of the last |
| `leafset_and_pruning` | byte caches are sets; roots and leafsets determine each other; a pruned MMR answers as the full one; what is compacted and which parents travel is exact; the kernels of a state are compared with every header once the first has any, and honest ones never refused | 4 leaves in bytes of 2: full, half full and empty bytes; 8 outputs, states of up to 7: every leafset of them, and additions that complete a tree of height 3 over compacted nodes; chains of 3 headers with 0 to 2 new kernels each |
| `mining` | what a builder accepts without conflict it builds, and the block connects where it was built and nowhere else; conflicts between its transactions are caught; block sums telescope to those of the state, at every kernel; pegs with distinct commitments and scripts are compared exactly; the wallet's transactions are taken | 4 coins, 8 requests, two transactions in a block, 3 blocks: templates over each other, two spends of a coin, two makers of an output, two peg-outs to a script, blocks of others in between |
| `verification` | locks are held in the expression that took them and released by exceptions too; what is cached verifies; answers are those of a verifier without memory; every call ends | 2 threads, 2 calls each, a cache for one item, two proofs of one key: replaced and evicted entries, a batch larger than the cache, a reader pair with a writer that waits |
| `parts` | a wallet finds what was paid to it, with amount and keys, within its window and nothing else; a scan moves the window on; what is written is read back, whole or not at all; the arithmetic on positions is that of the tree, and the root that of the leaves; hashes and leaves through two caches are those of three lists | window 1, indices to 3, 3 outputs of 2 wallets: outputs in and out of the window, in and out of order, before and after a restore; 470 objects with empty, short and longest vectors, cut at every byte; 151 positions: beyond the mountain of 64 leaves, all smaller sizes on the way; roots of 0 to 22 leaves, every pattern of peaks of the first four heights; in the caches 4 leaves of 2 kinds: parents of height 2 whose children are on different levels |

Five runs end in a violation: they state what a comment or the consensus document says and
show the code doing something else.

| run | disagreement |
|---|---|
| `reorg_flush_corrupts` | `File::Write(startIndex, ...)` opens the file for appending. A flush after a reorg of flushed blocks keeps the replaced hashes, and no block connects from then on |
| `first_block_undo_lost` | the undo of the first extension block has no effect: Flush returns on a null header |
| `rejected_state_kept` | ApplyState of an invalid state leaves the new file number in the database |
| `pegouts_not_paid` | CheckBlock accepts a block with two peg-outs of one amount to one script when the block around it pays that script once and any other script: both are found in one entry of the map. `doc/Consensus.md:79` has each peg-out paid exactly |
| `state_kernels` | the walk along the chain never leaves a first header without kernels, and then compares no kernel root at all |

What keeps these apart from the other runs: `UniqueOutputs` (the network offers no duplicate
output), `ReorgFlush = FALSE` (no flush replaces leaves of a hash file), `KeepBlocks = 1` (the
first extension block stays), Store without ApplyState and, as a file is what was meant to be written
to it (`Changed`), without flushes that replace leaves of a hash file, for `state_kernels` a first block with kernels (`WalkDecides`), and for
`pegouts_not_paid` distinct scripts on both sides (`PegsAgree`). The theorems about coins need only
the first and the third: they hold for flushes after deep reorgs too, although the run that
checks the same properties does not take such flushes.

Seen in the code while it was modelled, without a run of their own:
- A transaction that makes no output (a peg-out of everything, without change) is never valid:
  `OwnerSumValidator.h:39` adds up input keys, owner signature and offset, which come to zero, and
  `secp256k1_ec_pubkey_combine` refuses a sum at infinity. `Transact::CreateTx` makes such
  transactions. `WalletTxsTaken` says that they, and no others, are refused.
- A block that re-creates an unspent output connects, and the older coin is lost at the next
  flush; `doc/Consensus.md:10` says "Output commitments in the UTXO set shall be unique at all
  times". The builder checks it (`BlockBuilder.cpp:67`), ApplyBlock does not. `node_duplicates`
  offers such blocks.
- Two peg-outs to one script make an otherwise valid block fail CheckBlock
  (`BlockValidator.cpp:79`): they are one entry of the map, and two of the block. `TemplatesConnect`
  says that nothing else fails. The other way round, a surrounding block with two peg-outs to one script
  passes if the extension block has the first of them alone.
- A second CheckBlock of a block compares neither hash nor pegs (`BlockValidator.cpp:13`).
- Kernels are sorted by supply change, where `doc/Consensus.md:28` says "list pegins first": a peg-in
  below its fee and peg-out comes later. The order in the code is what keeps the supply from
  dipping below zero inside a block (`StateSums`).
- An input of an output made in the same block is refused, as ApplyBlock spends first, where
  `doc/Consensus.md:15` says that a block "*could* contain" one.
- `HasCoinInCache` (`CoinsViewCache.cpp:155`) looks at the last action only. After a flushed coin was
  spent and the block disconnected, it holds of a coin the database has, where `node.h:123` says
  "that has not been flushed to the parent". `CacheKnowsNewCoins` says what it can be relied on for: it holds of
  no spent coin, and of every coin that the database does not have.
- ApplyState neither removes the coins and leaves of the view it replaces from the tables, nor the
  hash files that a flush left under the next number when the process ended before its commit
  (`AppendOnlyFile.h:26` opens what is there). `Database::DeleteAll` would not remove them either: it seeks to the
  table's prefix written as a number (`Database.h:87`), and stops at once if another table's keys come
  first. A state without outputs fails the assertion of `Database::Put`.
- `State.h:27` and `HeaderAndPegs.h:57,64` read counts of eight bytes where `AppendVec` writes four:
  neither reads back what it wrote. They are left out of Serialization for that reason.
- `Bulletproofs.cpp:65` holds two readers of one context at once. With `PrefersWriters = TRUE` a writer
  that begins to wait between the two blocks both for good; whether `std::shared_mutex` lets readers
  pass is up to the platform, and `verification` takes one that does.
- The loop of `Keychain.cpp:34` compares with the counter plus the window in 32 bits; near the end of that
  range it has no end or finds nothing. The counter of the model is far below.
- Peg-in maturity is checked by `CheckTxInputs` for a mempool, and by nothing on the way of a block
  (`doc/Consensus.md:80` has it as to be defined).
- A State's leafset is serialized as bytes and read back with its length rounded up
  (`BitSet.h:16`), and `CalcHashes` (`MMRFactory.cpp:53`) takes the padding for spent leaves, so
  that the MMR of an honest state is not rebuilt unless its outputs fill the last byte. `ReadsBack`
  says that the padding is all that differs.
- `Snapshot::Build` reads the output leaves with `kernel_idx` (`Snapshot.cpp:43`).

Every property has a mutant of the code that breaks it, next to the definition it changes.

## 4. Proofs

| theorem | module | under |
|---|---|---|
| `TypeCorrect`, `SoundCoins`, `NoResurrection`, `Commitments` of the stack | ExtBlockChainProofs | the assumptions of the constants |
| `TypesCorrect`: `[]TypeOK` | NodeProofs | the same |
| `LeafsetEnds`: `[]LeafsetFollowsMMR` | NodeProofs | the same |
| `CoinsAndLeafset`, `ReadsAreSafe`, `NewCoinsKnown`: `[]CacheKnowsNewCoins`, `FlushIsSilent` | NodeProofs | `Network`: unique outputs, `KeepBlocks >= 1` |
| `ViewFollowsTip`: `[]ViewAtTip` | NodeProofs | `Network` |
| `Refinement`: `Spec => ImplementsChain`; `ViewsCommitted`, `NoResurrection`, `OffersConnect`, `UndosDisconnect`, `ViewMatchesHeader` | NodeProofs | `Network`, `~ReorgFlush` |
| `ReadsAsLists`, `ComposesAsLists`, `WritesAsLists` | StoreProofs | the assumptions of the constants |
| `FilesFollowView`, `CrashSafe`, `FilesStay`, `Atomicity` | StoreProofs | the assumptions of the constants |
| `NothingBehind`, `RootsTellApart`; `CachesAreSets`: `Spec => ImplementsBits` | LeafSetProofs | the assumptions of the constants |
| `KernelsDecide`: `WalkSpec => []WalkDecides` | LeafSetProofs | the same |
| `OwnFound`, `ScanComplete` | WalletProofs | the same |
| `SumsOfChain`; `WhereBuilt`: `[]ConnectsWhereBuilt`; `ConflictsFound`: `[]ConflictsCaught`; `PegsExact`: `[]PegsAgree` | MiningProofs | the assumptions of the constants |
| `StatesValid`: `[]StateSums` | MiningProofs | `NoSumAtInfinity` in the state |
| `WeightBounded`: `[]WeightKept` | MiningProofs | the assumptions of the constants |
| `TemplatesMade`: `[]TemplatesConnect` | MiningProofs | `NoTemplateAtInfinity` in the builder |
| `LocksHeld`, `OnlyVerifiedCached`; `Implementation`: `Spec => ImplementsVerifier` | VerificationProofs | the assumptions of the constants |

They hold for any sets of commitments and kernels, any number of blocks, outputs, states and
file numbers, any number of leaves and width of a byte, chains of any length, any window, indices,
payments and first bytes of a wallet, any amounts, blinding factors, requests and transactions in a block, and any
threads, calls, items and cache sizes.

*ExtBlockChain.* Soundness of one state and growth between neighbours are preserved by
`Apply` (lemmas in CoinsViewProofs); the stack is pairwise in that order.

*Node.* That coins and leafset agree is not inductive: it depends on the undo data leading
back to older states, and on the cached actions being applicable to the database.
`CoinsInv == TypeInv /\ LedgerSound /\ UndosLead /\ ViewsSound` says that the ledger's states are sound
and grow, that every undo leads from one to the one before, and that each view shows a sound
state with no action taking more than is there. CoinsViewProofs has the lemmas on action
lists and leafset caches. For the refinement `ChainInv == CoinsInv /\ Faithful` adds that the
view is the ledger's top, which is what a root that matches no longer could ensure once a file is corrupted;
hence `~ReorgFlush`. What ExtBlockChainProofs shows of the stack then holds of the node:
`ViewsCommitted` and `NoResurrection` follow from the refinement and the theorems of the stack.

`OffersConnect` and `UndosDisconnect` say more than an invariant of what is there: that a call
which has not been made will not throw. A block that extends the ledger has the roots that ApplyBlock arrives at,
since the view is the ledger's top. An undo needs more: that cutting the MMRs leads to the state before.
`AcceptInv` adds to `ChainInv` that the leaves of each state of the ledger begin with those of the state before
(`LedgerFollows`), which soundness of the states alone does not say; rewinding the leafset then
gives the bits that the header before commits to. `ViewMatchesHeader` and `ViewFollowsTip` are what
the runs `reorg_flush_corrupts` and `first_block_undo_lost` refute: the theorems say under which
condition each holds, and so that nothing else breaks them. `ViewFollowsTip` needs no
clean files: the headers of the view follow the ledger even when its hashes do not.

`LeafsetEnds` needs no hypothesis at all. `EndsInv` says of the view and of the database
that the leafset ends where the output MMR does, with no bit behind (`EndsAligned`), that the view's header has that
number, and that no undo brings back a leaf that the state before it does not have (`BringsBackBelow`). A flush that
throws, or leaves wrong hashes, leaves their number right.

*Action lists.* The invariant is only the types; the work is in what a fold computes. FoldLeft is a CHOOSE
of a function that recurs over sets of places. `FoldExists` and `FoldSteps` turn that recursion into the list of
values after each action, by induction as membership in a set (`BoundedInduction`, from the well-foundedness of the naturals).
The replay, the batch and the form then go through a list together, one action at a time:
`AnswerFollows`, `WriteFollows` and `ThenFollows` say that the relation between them survives an action. The node's theorems
use the form, so these carry them over to the lists in the code.

*Store.* `Inv == TypeOK /\ FilesAgree /\ BatchAgrees /\ FlushAgrees /\ Recoverable`: the files
of the table hold the table's state, those of the batch the batch's, and those
a flush has passed the state it writes. Each step of a flush is then a stutter of
DurableState but the last, and a crash at any of them leads to the saved state.

*Leafset.* The property is about what a level shows, the leaves below its end; the code works on
bytes. `Inv` has the types of the levels and `LevelsClear`: no bit is set from the end on. Without
it a leaf added after a rewind would show bits of the leaves that were there. The lemmas say what each
operation does to single leaves (`Added`, `Removed`, `Rewound`, `Merged`), through `SameBytes` and
`BitsOfLeaves`, which go from bytes to leaves and back. The roots then agree, since a byte is
the set of its leaves.

*Kernels of a state.* `WalkInv` says that a header has the kernels of those before it (`ChainGrows`), that what the
iterator passed was compared and right (`Passed`), and that it stands where a kernel is still missing or at the header
of the state (`Ahead`). `Ahead` holds only if the first block has kernels; `Passed` alone shows that honest kernels
are never refused. The loop ends because the naturals are well-founded.

*Wallet.* `ScanInv` adds to `ScanFinds` that the counter is never behind the one the keychain was loaded with, nor
behind the index of a coin that was found, and that the table of keys is filled to the window (`Own`). What
RewindOutput returns for an output (`Rewound`) rests on the secrets being terms: both sides come to the same shared secret
(`SharedSecret`), the table has the key of an output exactly if it is the wallet's own and within the window (`OwnIndices`),
and sender keys are fresh, so that a commitment names one output (`FreshCommitments`).

*Mining.* `IInv` says that each state of the chain is sound and has right sums (`IsChain`), that a builder has only
transactions that were valid and new on the tip, which it holds (`TakenOn`), and that the last block is what
BuildNextBlock made of such transactions, valid once it is checked (`BuiltRight`).
- `SumsRight` is about a whole state: the coins are worth the supply, their blinding factors are those of the kernels
  and the offset, and the supply was never negative. A connect changes the coins by the outputs less the coins spent and the
  kernels by those of the block (`EffectSums`), and ValidateForBlock says that the changes agree. The supply between two
  kernels of a block needs the order of KernelSort: within a block it first rises and then falls, so that it is not below
  the smaller of its two ends (`NeverBelow`, `SupplyOfBlock`). `StatesValid` carries it over to ValidateState, under the hypothesis that no
  sum of the state is at infinity: blinding factors may cancel, and then ValidateState throws although all is right.
- `ConnectsWhereBuilt` needs that the roots tell the state before the block (`ConnectsBack`): lists with a common end have
  a common front, and the leafset after the block with the inputs tells the one before, as a sound
  state has at most one coin of a commitment, its latest (`Latest`). The offset is told by the sums, since the outputs, inputs
  and kernels fix the block's own (`OffsetIsOwn`), and aggregation adds the offsets of its transactions.
- `ConflictsCaught`: what is in two transactions is twice in their aggregate, whatever the sorting (`AggregatedLists`),
  and a list with something twice has more places than elements.
- `PegsAgree` is about lists of coins with distinct keys: as many, and each of one in the other, means the same.
- `TemplatesConnect` is the converse of `ConflictsCaught`: what AddTransaction checks is enough. Weights add up
  (`WeightKept`, which AddTransaction's limit keeps); what a transaction's sums compare (`Balances`) adds up under
  aggregation, and says that the sums of the aggregate agree; lists of transactions without conflict have nothing twice
  (`NothingTwice`); the header is that of the state after the block, since BuildBlock spends after it adds and ConnectBlock
  before, which is the same where no output is unspent yet (`HeaderFits`); and the pegs of an aggregate are those of
  its transactions in another order (`SameElements`), which the maps of BlockValidator find
  equal unless two peg-outs share a script (`PegsPass`). The hypothesis `NoTemplateAtInfinity` is the one of `StatesValid`,
  for the aggregate: random keys may cancel, and libsecp256k1 then refuses the sum. It holds in every state
  of the run `mining`, so that TLC checks `TemplatesConnect` without it.

Sums and sorting are proved from their definitions: SumFunction chooses a function that recurs over sets, shown to take
elements in any order (`SumsRemove`) and to be the same for a list and its rearrangement; std::sort is any place by the number of
elements that come before (`SortedPlaces`).

*Verification.* `Inv == TypeInv /\ LocksFollowCalls /\ CallsCheck /\ OnlyVerified`. `CallsCheck` is about
what a call has yet to do (`ChecksAll`): an item asked for whose key does not parse has still to be looked
up or parsed, or is among the missing; one that does not verify has still to be looked up or verified;
what will be added is verified before; and the order is lookups, the rest, additions. It needs
`OnlyVerified`, as an item found in the cache is asked for no more, and keeps it, as only what was verified
is added. When a call ends, what it has yet to do says which answers are right. Calls are
sequences of accesses, so that the lemmas before are about joining sequences and taking their heads.

*Only model-checked:* everything about MMRs and pruning (their definitions are
RECURSIVE operators, which the provers do not expand) and serialization (the same); of mining that what the wallet
makes is taken (`WalletTxsTaken`), which is about the transactions that one list of requests leads to. `EveryCallEnds` is the one
liveness property; liveness under fairness cannot be proved with the installed provers.

## 5. Not modelled

- Signatures, range proofs, hashes and points as computations: values stand for what they commit to.
- Amounts of 64 bits and indices of 32; formatting and logging.
- The size limits on the scripts and extra data of a body (`TxBody.cpp:100-110`).
- A loss of power: files are never synced, so that what it leaves is up to the system. Failures of single writes;
  the WIN32 branches of File.
- `MMRInfo.pruned`, which a flush carries along unchanged.
- Threads in views: views are not locked, and the caller serializes calls. Fairness among threads
  that wait for one lock.
- Of ApplyState the tables (see above); of a snapshot the coins, which its loop does not read where it
  should. Bech32 addresses, the tests, vendored code.
- `MMRUtil::DiffCompactBitSet`, `FileBackend::Compact`, `DeleteAll`: they have no callers outside the tests.

## 6. Plan

Done, in this order, the most important behaviour first: ExtBlockChain with its proofs; CoinsView, Node,
CoinActions, its normal form proved; the refinement, proved; Store and DurableState, proved; MMR and leafset under
caches; PrunedMMR; builder, sums, BlockValidator and CreateTx; verification with its caches and locks, proved;
wallet and serialization; kernels of a state;
sums, conflicts, pegs and templates of blocks, proved.

What would come next:
1. With the recursions of MMRNodes and MMR written as functions, `ImplementsLists` and the number of hashes under n
   leaves as theorems.
2. ApplyState whole, over tables and files of the view it replaces, once its leafset file can be opened.
