-------------------------------- MODULE Store --------------------------------
(***************************************************************************)
(* The files and tables under the CoinsViewDB, the flush that moves them   *)
(* from one state of the chain to the next, and what a crash between two   *)
(* steps of it leaves behind.                                              *)
(*                                                                         *)
(* A flush never changes the files that are in use.  It copies each to the *)
(* next file number and changes the copy; the number becomes current when  *)
(* the caller commits the batch that holds the coins.  A state of the      *)
(* chain is a number here, 0 for the empty chain: what it consists of is   *)
(* the business of module CoinsView.                                       *)
(***************************************************************************)
EXTENDS Integers, Sequences

CONSTANTS
    MaxState,       \* bound: states of the chain
    MaxIndex        \* bound: file numbers

ASSUME StoreAssumption ==
    MaxState \in Nat /\ MaxIndex \in Nat

States == 0 .. MaxState

\* Flush writes the leafset, then the kernel hashes, then the output hashes.
File == {"leaf", "K", "O"}
After(f) == CASE f = "leaf" -> "K" [] f = "K" -> "O" [] f = "O" -> "info"

Missing == -1       \* there is no such file
Torn    == -2       \* removed, partly copied or partly written
NoBatch == [state |-> 0, index |-> 0]

VARIABLES
    table,      \* the database: the latest MMRInfo's index, and the state
                \* whose coins and best header it holds
    files,      \* what each file of each number holds
    open,       \* the number of the file that is open
    base,       \* the state of the CoinsViewDB in memory
    tip,        \* the state of the cache over it
    batch,      \* the batch of the last flush, while it is not committed
    at          \* what the process is about: "idle", "down", "failed", or the
                \* file the flush is at and whether it has been copied

vars == <<table, files, open, base, tip, batch, at>>
-----------------------------------------------------------------------------
\* Opening a file that does not exist creates the empty one.
Read(f, i) == IF files[f][i] = Missing THEN 0 ELSE files[f][i]

\* What Initialize makes of the files and tables it finds.
Opened(i) ==
    /\ open' = [f \in File |-> i]
    /\ files' = [f \in File |-> [files[f] EXCEPT ![i] = Read(f, i)]]

Init ==
    /\ table = [index |-> 0, state |-> 0]
    /\ files = [f \in File |-> [i \in 0 .. MaxIndex |-> IF i = 0 THEN 0 ELSE Missing]]
    /\ open = [f \in File |-> 0]
    /\ base = 0
    /\ tip = 0
    /\ batch = NoBatch
    /\ at = <<"idle">>

\* Blocks are connected to the cache and disconnected from it.
ChangeTip ==
    /\ at = <<"idle">>
    /\ tip' \in States \ {0, tip}
    /\ UNCHANGED <<table, files, open, base, batch, at>>

\* The number of the files that a flush writes.  The number is that of the
\* committed table: a batch that is not committed does not show.
Target == table.index + 1

\* Flush of the cache begins with the coins, which go into a new batch.
BeginFlush ==
    /\ at = <<"idle">>
    /\ tip # 0
    /\ Target <= MaxIndex
    /\ at' = <<"copy", "leaf">>
    /\ UNCHANGED <<table, files, open, base, tip, batch>>

\* CopyTo removes the target and copies the open file.
Copy(f) ==
    /\ at = <<"copy", f>>
    /\ open[f] # Target
    /\ files' = [files EXCEPT ![f][Target] = Torn]
    /\ at' = <<"write", f>>
    /\ UNCHANGED <<table, open, base, tip, batch>>

\* After a flush that was not committed the target is the open file itself:
\* CopyTo removes it, finds nothing to copy and throws.
CopyThrows(f) ==
    /\ at = <<"copy", f>>
    /\ open[f] = Target
    /\ files' = [files EXCEPT ![f][Target] = Missing]
    /\ at' = <<"failed">>
    /\ batch' = NoBatch
    /\ UNCHANGED <<table, open, base, tip>>

\* Mutant: the changes are written to the open file.
WriteInPlace(f) ==
    /\ at = <<"write", f>>
    /\ files' = [files EXCEPT ![f][open[f]] = tip]
    /\ at' = IF f = "O" THEN <<"info">> ELSE <<"copy", After(f)>>
    /\ UNCHANGED <<table, open, base, tip, batch>>

\* Mutant: the copy is not opened in place of the file.
WriteKeepsOpen(f) ==
    /\ at = <<"write", f>>
    /\ files' = [files EXCEPT ![f][Target] = tip]
    /\ at' = IF f = "O" THEN <<"info">> ELSE <<"copy", After(f)>>
    /\ UNCHANGED <<table, open, base, tip, batch>>

\* What the changes of the flush make of the copy of a file.  That the file then
\* holds the tip is so of flushes that replace no leaves of a hash file: module
\* CoinsView has what the others write (HashFileWrite).
Changed(content) == IF content = base THEN tip ELSE Torn

\* The changes are written to the copy, which is opened in place of the file.
Write(f) ==
    /\ at = <<"write", f>>
    /\ files' = [files EXCEPT ![f][Target] = Changed(files[f][open[f]])]
    /\ open' = [open EXCEPT ![f] = Target]
    /\ at' = IF f = "O" THEN <<"info">> ELSE <<"copy", After(f)>>
    /\ UNCHANGED <<table, base, tip, batch>>

\* Mutant: the MMRInfo is saved in a batch of its own.
EndFlushSavesInfo ==
    /\ at = <<"info">>
    /\ table' = [table EXCEPT !.index = Target]
    /\ batch' = [state |-> tip, index |-> Target]
    /\ base' = tip
    /\ at' = <<"idle">>
    /\ UNCHANGED <<files, open, tip>>

\* The new MMRInfo goes into the batch, and the cache is cleared.
EndFlush ==
    /\ at = <<"info">>
    /\ batch' = [state |-> tip, index |-> Target]
    /\ base' = tip
    /\ at' = <<"idle">>
    /\ UNCHANGED <<table, files, open, tip>>

\* The caller commits the batch of the last flush with its best block.
Commit ==
    /\ at = <<"idle">>
    /\ batch # NoBatch
    /\ table' = batch
    /\ batch' = NoBatch
    /\ UNCHANGED <<files, open, base, tip, at>>

Crash ==
    /\ at # <<"down">>
    /\ at' = <<"down">>
    /\ batch' = NoBatch
    /\ UNCHANGED <<table, files, open, base, tip>>

\* Initialize opens the files of the latest number in the table.
Restart ==
    /\ at = <<"down">>
    /\ Opened(table.index)
    /\ base' = table.state
    /\ tip' = table.state
    /\ at' = <<"idle">>
    /\ UNCHANGED <<table, batch>>

Next ==
    \/ ChangeTip
    \/ BeginFlush
    \/ \E f \in File : Copy(f)
    \/ \E f \in File : CopyThrows(f)
    \/ \E f \in File : Write(f)
    \/ EndFlush
    \/ Commit
    \/ Crash
    \/ Restart

Spec == Init /\ [][Next]_vars
-----------------------------------------------------------------------------
(* Properties.                                                             *)

Steps == {<<"idle">>, <<"down">>, <<"failed">>, <<"info">>}
             \cup ({"copy", "write"} \X File)

\* The type of every variable.
TypeOK ==
    /\ table \in [index : 0 .. MaxIndex, state : States]
    /\ files \in [File -> [0 .. MaxIndex -> States \cup {Missing, Torn}]]
    /\ open \in [File -> 0 .. MaxIndex]
    /\ base \in States
    /\ tip \in States
    /\ batch \in [index : 0 .. MaxIndex, state : States]
    /\ at \in Steps

\* Between two calls the open files hold the state of the database view, also
\* after a flush that was not committed and after a crash.
OpenFilesCurrent ==
    at = <<"idle">> => \A f \in File : files[f][open[f]] = base

\* No file whose number is in the table ever changes: no flush, complete or
\* not, touches what a restart may need, also after a flush not committed.
CommittedFilesStay ==
    [][\A f \in File : \A i \in 0 .. table.index :
          files[f][i] # Missing => files'[f][i] = files[f][i]]_vars

\* Were the node to restart now, it would find the files of the state whose
\* coins and header are in the database.
Recoverable == \A f \in File : Read(f, table.index) = table.state

\* The state that a restart finds: that of the table, if the files agree.
OnDisk == IF Recoverable THEN table.state ELSE Torn

Durable == INSTANCE DurableState WITH
               tip     <- IF at = <<"down">> THEN OnDisk ELSE tip,
               flushed <- batch.state,
               saved   <- OnDisk

\* The flush, however many steps it takes and wherever a crash strikes, is a
\* single step from one whole state to the next.
ImplementsDurable == Durable!Spec
=============================================================================
