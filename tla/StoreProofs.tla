----------------------------- MODULE StoreProofs -----------------------------
(***************************************************************************)
(* The database under the node.  A crash at any step of a flush leaves the *)
(* files and the table of one whole state, for every number of states and  *)
(* files: the inductive invariant behind it, and the implementation of     *)
(* DurableState.  And the normal form of CoinsView answers what the        *)
(* caches' lists of actions and the table do, for lists of any length over *)
(* any leaves: each answer is a fold of a list, whose value after each     *)
(* action is followed by induction.                                        *)
(***************************************************************************)
EXTENDS Store, CoinActions, CoinsViewProofs

Calls == {<<"idle">>, <<"down">>, <<"failed">>}

\* The files that the flush has written already.
Written ==
    CASE at = <<"copy", "K">> \/ at = <<"write", "K">> -> {"leaf"}
      [] at = <<"copy", "O">> \/ at = <<"write", "O">> -> {"leaf", "K"}
      [] at = <<"info">> -> File
      [] OTHER -> {}

\* The number of the files that are open before a flush.
Current == IF batch = NoBatch THEN table.index ELSE Target

\* The open files hold what the flush has made of them so far.
FilesAgree ==
    at \notin {<<"down">>, <<"failed">>} =>
        \A f \in File :
            /\ f \in Written => open[f] = Target /\ files[f][Target] = tip
            /\ f \notin Written => open[f] = Current /\ files[f][open[f]] = base

\* An uncommitted batch holds the state of the open files.
BatchAgrees ==
    batch # NoBatch =>
        /\ at \in {<<"idle">>, <<"copy", "leaf">>}
        /\ batch = [index |-> Target, state |-> base]
        /\ base # 0

\* A flush has a state to write and a number to write it to.
FlushAgrees == at \notin Calls => tip # 0 /\ Target <= MaxIndex

Inv == TypeOK /\ FilesAgree /\ BatchAgrees /\ FlushAgrees /\ Recoverable

\* The invariant holds at first,
LEMMA InitInv == Init => Inv
<1> SUFFICES ASSUME Init PROVE Inv
  OBVIOUS
<1>1. /\ table.index = 0 /\ table.state = 0
      /\ \A f \in File : open[f] = 0 /\ files[f][0] = 0
      /\ at = <<"idle">> /\ batch = NoBatch /\ base = 0 /\ tip = 0
  BY StoreAssumption DEF Init
<1>2. TypeOK
  <2>1. table \in [index : 0 .. MaxIndex, state : States]
    BY StoreAssumption DEF Init, States
  <2>2. files \in [File -> [0 .. MaxIndex -> States \cup {Missing, Torn}]]
    BY StoreAssumption DEF Init, States
  <2>3. open \in [File -> 0 .. MaxIndex] /\ batch \in [index : 0 .. MaxIndex, state : States]
    BY StoreAssumption DEF Init, NoBatch, States
  <2>4. base \in States /\ tip \in States /\ at \in Steps
    BY StoreAssumption DEF Init, States, Steps
  <2> QED  BY <2>1, <2>2, <2>3, <2>4 DEF TypeOK
<1>3. Written = {}
  BY <1>1 DEF Written
<1>4. FilesAgree
  BY <1>1, <1>3 DEF FilesAgree, Current
<1>5. BatchAgrees /\ FlushAgrees
  BY <1>1 DEF BatchAgrees, FlushAgrees, Calls
<1>6. Recoverable
  BY <1>1 DEF Recoverable, Read, Missing
<1> QED  BY <1>2, <1>4, <1>5, <1>6 DEF Inv

\* after the tip changes,
LEMMA ChangeTipInv == Inv /\ ChangeTip => Inv'
<1> SUFFICES ASSUME Inv, ChangeTip PROVE Inv'
  OBVIOUS
<1>1. Written = {} /\ Written' = {}
  BY DEF ChangeTip, Written
<1> QED  BY <1>1 DEF Inv, ChangeTip, TypeOK, FilesAgree, Current, Target, BatchAgrees,
                     FlushAgrees, Calls, Recoverable, Read

\* when a flush begins,
LEMMA BeginFlushInv == Inv /\ BeginFlush => Inv'
<1> SUFFICES ASSUME Inv, BeginFlush PROVE Inv'
  OBVIOUS
<1>1. Written = {} /\ Written' = {}
  BY DEF BeginFlush, Written
<1>2. at' \in Steps /\ at' = <<"copy", "leaf">> /\ at = <<"idle">>
  BY DEF BeginFlush, Steps, File
<1> QED  BY <1>1, <1>2 DEF Inv, BeginFlush, TypeOK, FilesAgree, Current, Target, BatchAgrees,
                     FlushAgrees, Calls, Recoverable, Read

\* A change of a file past the table's number, and of nothing below.
LEMMA FileChange ==
    ASSUME Inv, NEW f \in File, NEW c \in States \cup {Missing, Torn},
           Target <= MaxIndex, files' = [files EXCEPT ![f][Target] = c],
           UNCHANGED table
    PROVE  /\ files' \in [File -> [0 .. MaxIndex -> States \cup {Missing, Torn}]]
           /\ files'[f][Target] = c
           /\ \A g \in File : \A i \in 0 .. MaxIndex :
                 g # f \/ i # Target => files'[g][i] = files[g][i]
           /\ Recoverable'
<1>1. /\ files \in [File -> [0 .. MaxIndex -> States \cup {Missing, Torn}]]
      /\ table.index \in 0 .. MaxIndex /\ MaxIndex \in Nat
  BY StoreAssumption DEF Inv, TypeOK
<1>2. Target \in 0 .. MaxIndex /\ Target = table.index + 1 /\ Target # table.index
  BY <1>1 DEF Target
<1>3. files' = [files EXCEPT ![f] = [files[f] EXCEPT ![Target] = c]]
  OBVIOUS
<1>4. [files[f] EXCEPT ![Target] = c] \in [0 .. MaxIndex -> States \cup {Missing, Torn}]
  BY <1>1, <1>2
<1>5. files' \in [File -> [0 .. MaxIndex -> States \cup {Missing, Torn}]]
  BY <1>1, <1>3, <1>4
<1>6. /\ files'[f][Target] = c
      /\ \A g \in File : \A i \in 0 .. MaxIndex :
            g # f \/ i # Target => files'[g][i] = files[g][i]
  BY <1>1, <1>2, <1>3
<1>7. Recoverable'
  BY <1>1, <1>2, <1>6 DEF Inv, Recoverable, Read
<1> QED  BY <1>5, <1>6, <1>7

\* as each file is copied,
LEMMA CopyInv == ASSUME Inv, NEW f \in File, Copy(f) PROVE Inv'
<1>1. /\ at = <<"copy", f>> /\ at' = <<"write", f>> /\ open[f] # Target
      /\ files' = [files EXCEPT ![f][Target] = Torn]
      /\ table' = table /\ open' = open /\ base' = base /\ tip' = tip /\ batch' = batch
      /\ Target' = Target
  BY DEF Copy, Target
<1>2. at \notin Calls /\ at \notin {<<"down">>, <<"failed">>}
  BY <1>1 DEF Calls
<1>3. tip # 0 /\ Target <= MaxIndex
  BY <1>2 DEF Inv, FlushAgrees
<1>4. /\ files' \in [File -> [0 .. MaxIndex -> States \cup {Missing, Torn}]]
      /\ \A g \in File : \A i \in 0 .. MaxIndex :
            g # f \/ i # Target => files'[g][i] = files[g][i]
      /\ Recoverable'
  BY <1>1, <1>3, FileChange
<1>5. Written' = Written /\ f \notin Written
  BY <1>1 DEF Written, File
<1>6. /\ \A g \in File :
            /\ g \in Written => open[g] = Target /\ files[g][Target] = tip
            /\ g \notin Written => open[g] = Current /\ files[g][open[g]] = base
      /\ \A g \in File : open[g] \in 0 .. MaxIndex
  BY <1>2 DEF Inv, FilesAgree, TypeOK
<1>7. batch = NoBatch /\ Current = table.index /\ Current' = Current
  BY <1>1, <1>5, <1>6 DEF Current
<1>8. FilesAgree'
  BY <1>1, <1>4, <1>5, <1>6, <1>7 DEF FilesAgree
<1>9. TypeOK'
  BY <1>1, <1>4 DEF Inv, TypeOK, Steps
<1>10. BatchAgrees' /\ FlushAgrees'
  BY <1>1, <1>3, <1>7 DEF BatchAgrees, FlushAgrees
<1> QED  BY <1>4, <1>8, <1>9, <1>10 DEF Inv

\* or its copy fails,
LEMMA CopyThrowsInv == ASSUME Inv, NEW f \in File, CopyThrows(f) PROVE Inv'
<1>1. /\ at = <<"copy", f>> /\ at' = <<"failed">>
      /\ files' = [files EXCEPT ![f][Target] = Missing]
      /\ table' = table /\ open' = open /\ base' = base /\ tip' = tip
      /\ batch' = NoBatch
  BY DEF CopyThrows
<1>2. Target <= MaxIndex
  BY <1>1 DEF Inv, FlushAgrees, Calls
<1>3. /\ files' \in [File -> [0 .. MaxIndex -> States \cup {Missing, Torn}]]
      /\ Recoverable'
  BY <1>1, <1>2, FileChange
<1>4. TypeOK'
  BY <1>1, <1>3, StoreAssumption DEF Inv, TypeOK, Steps, NoBatch, States
<1> QED  BY <1>1, <1>3, <1>4 DEF Inv, FilesAgree, BatchAgrees, FlushAgrees, Calls

\* as each copy is written,
LEMMA WriteInv == ASSUME Inv, NEW f \in File, Write(f) PROVE Inv'
<1>1. /\ at = <<"write", f>>
      /\ files' = [files EXCEPT ![f][Target] = Changed(files[f][open[f]])]
      /\ open' = [open EXCEPT ![f] = Target]
      /\ at' = IF f = "O" THEN <<"info">> ELSE <<"copy", After(f)>>
      /\ table' = table /\ base' = base /\ tip' = tip /\ batch' = batch
      /\ Target' = Target
  BY DEF Write, Target
<1>2. at \notin Calls /\ at \notin {<<"down">>, <<"failed">>}
  BY <1>1 DEF Calls
<1>3. tip # 0 /\ Target <= MaxIndex
  BY <1>2 DEF Inv, FlushAgrees
<1>4. batch = NoBatch /\ Current = table.index /\ Current' = Current
  BY <1>1 DEF Inv, BatchAgrees, Current
<1>5. f \notin Written
  BY <1>1 DEF Written, File
<1>6. \A g \in File :
            /\ g \in Written => open[g] = Target /\ files[g][Target] = tip
            /\ g \notin Written => open[g] = Current /\ files[g][open[g]] = base
  BY <1>2 DEF Inv, FilesAgree
<1>7. Changed(files[f][open[f]]) = tip /\ tip \in States
  BY <1>5, <1>6 DEF Changed, Inv, TypeOK
<1>8. /\ files' \in [File -> [0 .. MaxIndex -> States \cup {Missing, Torn}]]
      /\ files'[f][Target] = tip
      /\ \A g \in File : \A i \in 0 .. MaxIndex :
            g # f \/ i # Target => files'[g][i] = files[g][i]
      /\ Recoverable'
  BY <1>1, <1>3, <1>7, FileChange
<1>9. /\ open \in [File -> 0 .. MaxIndex] /\ table.index \in 0 .. MaxIndex
      /\ Target \in 0 .. MaxIndex
  BY <1>3, StoreAssumption DEF Inv, TypeOK, Target
<1>10. /\ open' \in [File -> 0 .. MaxIndex] /\ open'[f] = Target
       /\ \A g \in File : g # f => open'[g] = open[g]
  BY <1>1, <1>9
<1>11. Written' = Written \cup {f}
  <2>1. CASE f = "leaf"
    BY <1>1, <2>1 DEF Written, After
  <2>2. CASE f = "K"
    BY <1>1, <2>2 DEF Written, After
  <2>3. CASE f = "O"
    BY <1>1, <2>3 DEF Written, File
  <2> QED  BY <2>1, <2>2, <2>3 DEF File
<1>12. at' \in Steps /\ at' \notin Calls
  <2>1. CASE f = "leaf"
    BY <1>1, <2>1 DEF Steps, After, File, Calls
  <2>2. CASE f = "K"
    BY <1>1, <2>2 DEF Steps, After, File, Calls
  <2>3. CASE f = "O"
    BY <1>1, <2>3 DEF Steps, Calls
  <2> QED  BY <2>1, <2>2, <2>3 DEF File
<1>13. FilesAgree'
  <2> SUFFICES ASSUME NEW g \in File
               PROVE  /\ g \in Written' => open'[g] = Target /\ files'[g][Target] = tip
                      /\ g \notin Written' =>
                            open'[g] = Current /\ files'[g][open'[g]] = base
    BY <1>1, <1>4 DEF FilesAgree
  <2>1. CASE g = f
    BY <1>8, <1>10, <1>11, <2>1
  <2>2. CASE g # f
    BY <1>6, <1>8, <1>9, <1>10, <1>11, <2>2
  <2> QED  BY <2>1, <2>2
<1>14. TypeOK'
  BY <1>1, <1>8, <1>10, <1>12 DEF Inv, TypeOK
<1>15. BatchAgrees' /\ FlushAgrees'
  BY <1>1, <1>3, <1>4 DEF BatchAgrees, FlushAgrees
<1> QED  BY <1>8, <1>13, <1>14, <1>15 DEF Inv

\* when the files are done,
LEMMA EndFlushInv == Inv /\ EndFlush => Inv'
<1> SUFFICES ASSUME Inv, EndFlush PROVE Inv'
  OBVIOUS
<1>1. /\ at = <<"info">> /\ at' = <<"idle">>
      /\ batch' = [state |-> tip, index |-> Target] /\ base' = tip
      /\ table' = table /\ files' = files /\ open' = open /\ tip' = tip
      /\ Target' = Target
  BY DEF EndFlush, Target
<1>2. Written = File /\ Written' = {}
  BY <1>1 DEF Written
<1>3. tip # 0 /\ Target <= MaxIndex
  BY <1>1 DEF Inv, FlushAgrees, Calls
<1>4. \A f \in File : open[f] = Target /\ files[f][Target] = tip
  BY <1>1, <1>2 DEF Inv, FilesAgree
<1>5. /\ Target \in 0 .. MaxIndex /\ tip \in States
      /\ batch' # NoBatch
  BY <1>1, <1>3, StoreAssumption DEF Inv, TypeOK, Target, NoBatch
<1>6. TypeOK'
  BY <1>1, <1>5 DEF Inv, TypeOK, Steps
<1>7. FilesAgree'
  BY <1>1, <1>2, <1>4, <1>5 DEF FilesAgree, Current
<1>8. BatchAgrees' /\ FlushAgrees'
  BY <1>1, <1>3 DEF BatchAgrees, FlushAgrees, Calls
<1>9. Recoverable'
  BY <1>1 DEF Inv, Recoverable, Read
<1> QED  BY <1>6, <1>7, <1>8, <1>9 DEF Inv

\* when the table's batch is committed,
LEMMA CommitInv == Inv /\ Commit => Inv'
<1> SUFFICES ASSUME Inv, Commit PROVE Inv'
  OBVIOUS
<1>1. /\ at = <<"idle">> /\ at' = at /\ batch # NoBatch
      /\ table' = batch /\ batch' = NoBatch
      /\ files' = files /\ open' = open /\ base' = base /\ tip' = tip
  BY DEF Commit
<1>2. /\ batch = [index |-> Target, state |-> base] /\ base # 0
      /\ Current = Target
  BY <1>1 DEF Inv, BatchAgrees, Current
<1>3. table'.index = Target /\ table'.state = base
  BY <1>1, <1>2
<1>4. Written = {} /\ Written' = {}
  BY <1>1 DEF Written
<1>5. \A f \in File : open[f] = Target /\ files[f][Target] = base
  BY <1>1, <1>2, <1>4 DEF Inv, FilesAgree
<1>6. TypeOK'
  BY <1>1, StoreAssumption DEF Inv, TypeOK, NoBatch, States
<1>7. FilesAgree'
  BY <1>1, <1>3, <1>4, <1>5 DEF FilesAgree, Current
<1>8. BatchAgrees' /\ FlushAgrees'
  BY <1>1 DEF BatchAgrees, FlushAgrees, Calls
<1>9. Recoverable'
  <2>1. base # Missing
    BY StoreAssumption DEF Inv, TypeOK, States, Missing
  <2> QED  BY <1>1, <1>3, <1>5, <2>1 DEF Recoverable, Read
<1> QED  BY <1>6, <1>7, <1>8, <1>9 DEF Inv

\* after a crash at any of these points,
LEMMA CrashInv == Inv /\ Crash => Inv'
<1> SUFFICES ASSUME Inv, Crash PROVE Inv'
  OBVIOUS
<1>1. TypeOK'
  BY StoreAssumption DEF Inv, Crash, TypeOK, Steps, NoBatch, States
<1> QED  BY <1>1 DEF Inv, Crash, FilesAgree, BatchAgrees, FlushAgrees, Calls, Recoverable, Read

\* and after a restart,
LEMMA RestartInv == Inv /\ Restart => Inv'
<1> SUFFICES ASSUME Inv, Restart PROVE Inv'
  OBVIOUS
<1> DEFINE i == table.index
<1>1. /\ at' = <<"idle">> /\ table' = table /\ batch' = batch
      /\ base' = table.state /\ tip' = table.state
      /\ open' = [f \in File |-> i]
      /\ files' = [f \in File |-> [files[f] EXCEPT ![i] = Read(f, i)]]
  BY DEF Restart, Opened
<1>2. batch = NoBatch
  BY DEF Inv, BatchAgrees, Restart
<1>3. /\ i \in 0 .. MaxIndex /\ table.state \in States
      /\ files \in [File -> [0 .. MaxIndex -> States \cup {Missing, Torn}]]
      /\ \A f \in File : Read(f, i) = table.state
  BY DEF Inv, TypeOK, Recoverable
<1>4. /\ files' \in [File -> [0 .. MaxIndex -> States \cup {Missing, Torn}]]
      /\ \A f \in File : files'[f][i] = table.state
  BY <1>1, <1>3
<1>5. open' \in [File -> 0 .. MaxIndex] /\ \A f \in File : open'[f] = i
  BY <1>1, <1>3
<1>6. TypeOK'
  BY <1>1, <1>3, <1>4, <1>5 DEF Inv, TypeOK, Steps
<1>7. Written' = {}
  BY <1>1 DEF Written
<1>8. FilesAgree'
  BY <1>1, <1>2, <1>4, <1>5, <1>7 DEF FilesAgree, Current
<1>9. BatchAgrees' /\ FlushAgrees'
  BY <1>1, <1>2 DEF BatchAgrees, FlushAgrees, Calls
<1>10. Recoverable'
  <2>1. table.state # Missing
    BY <1>3, StoreAssumption DEF States, Missing
  <2> QED  BY <1>1, <1>4, <2>1 DEF Recoverable, Read
<1> QED  BY <1>6, <1>8, <1>9, <1>10 DEF Inv

\* so after every step,
LEMMA NextInv == ASSUME Inv, [Next]_vars PROVE Inv'
<1>1. CASE \E f \in File : Copy(f)
  BY <1>1, CopyInv
<1>2. CASE \E f \in File : CopyThrows(f)
  BY <1>2, CopyThrowsInv
<1>3. CASE \E f \in File : Write(f)
  BY <1>3, WriteInv
<1>4. CASE UNCHANGED vars
  <2>1. Written' = Written
    BY <1>4 DEF vars, Written
  <2> QED  BY <1>4, <2>1 DEF vars, Inv, TypeOK, FilesAgree, Current, Target, BatchAgrees,
                              FlushAgrees, Recoverable, Read
<1> QED  BY <1>1, <1>2, <1>3, <1>4, ChangeTipInv, BeginFlushInv, EndFlushInv, CommitInv,
            CrashInv, RestartInv DEF Next

\* in every state.
LEMMA Invariance == Spec => []Inv
<1>1. Inv /\ [Next]_vars => Inv'
  BY NextInv
<1> QED  BY <1>1, InitInv, PTL DEF Spec

\* The open files are those of the view in memory between any two calls.
THEOREM FilesFollowView == Spec => []OpenFilesCurrent
<1>1. Inv => OpenFilesCurrent
  <2> SUFFICES ASSUME Inv, at = <<"idle">> PROVE \A f \in File : files[f][open[f]] = base
    BY DEF OpenFilesCurrent
  <2>1. Written = {}
    BY DEF Written
  <2> QED  BY <2>1 DEF Inv, FilesAgree
<1> QED  BY <1>1, Invariance, PTL

\* Whenever the process dies, the files that a restart opens are those of the
\* state whose coins and header are in the database.
THEOREM CrashSafe == Spec => []Recoverable
<1>1. Inv => Recoverable
  BY DEF Inv
<1> QED  BY <1>1, Invariance, PTL

\* A step of a flush changes files of the next number only.
LEMMA FilesOfTable ==
    ASSUME Inv, NEW f \in File, NEW c \in States \cup {Missing, Torn},
           Target <= MaxIndex, files' = [files EXCEPT ![f][Target] = c],
           UNCHANGED table
    PROVE  \A g \in File : \A i \in 0 .. table.index : files'[g][i] = files[g][i]
<1>1. table.index \in 0 .. MaxIndex /\ MaxIndex \in Nat
  BY StoreAssumption DEF Inv, TypeOK
<1>2. \A i \in 0 .. table.index : i \in 0 .. MaxIndex /\ i # Target
  BY <1>1 DEF Target
<1> QED  BY <1>2, FileChange

\* What a restart needs is never written to.
THEOREM FilesStay == Spec => CommittedFilesStay
<1> DEFINE Stay == \A f \in File : \A i \in 0 .. table.index :
                      files[f][i] # Missing => files'[f][i] = files[f][i]
<1>1. Inv /\ [Next]_vars => Stay
  <2> SUFFICES ASSUME Inv, [Next]_vars PROVE Stay
    OBVIOUS
  <2>1. ASSUME NEW f \in File, Copy(f) PROVE Stay
    <3>1. Target <= MaxIndex
      BY <2>1 DEF Inv, FlushAgrees, Calls, Copy
    <3> QED  BY <2>1, <3>1, FilesOfTable DEF Copy
  <2>2. ASSUME NEW f \in File, CopyThrows(f) PROVE Stay
    <3>1. Target <= MaxIndex
      BY <2>2 DEF Inv, FlushAgrees, Calls, CopyThrows
    <3> QED  BY <2>2, <3>1, FilesOfTable DEF CopyThrows
  <2>3. ASSUME NEW f \in File, Write(f) PROVE Stay
    <3>1. Target <= MaxIndex
      BY <2>3 DEF Inv, FlushAgrees, Calls, Write
    <3>2. Changed(files[f][open[f]]) \in States \cup {Missing, Torn}
      BY DEF Changed, Inv, TypeOK
    <3> QED  BY <2>3, <3>1, <3>2, FilesOfTable DEF Write
  <2>4. CASE Restart
    <3>1. /\ files \in [File -> [0 .. MaxIndex -> States \cup {Missing, Torn}]]
          /\ files' = [f \in File |-> [files[f] EXCEPT ![table.index] = Read(f, table.index)]]
      BY <2>4 DEF Inv, TypeOK, Restart, Opened
    <3>2. ASSUME NEW f \in File, NEW i \in 0 .. table.index, files[f][i] # Missing
          PROVE  files'[f][i] = files[f][i]
      <4>1. CASE i = table.index
        BY <3>1, <3>2, <4>1 DEF Read, Inv, TypeOK
      <4>2. CASE i # table.index
        BY <3>1, <4>2
      <4> QED  BY <4>1, <4>2
    <3> QED  BY <3>2
  <2>5. ASSUME files' = files PROVE Stay
    BY <2>5
  <2> QED  BY <2>1, <2>2, <2>3, <2>4, <2>5
              DEF Next, ChangeTip, BeginFlush, EndFlush, Commit, Crash, vars
<1>2. Stay => [Stay]_vars
  OBVIOUS
<1>3. Spec => [][Stay]_vars
  BY <1>1, Invariance, PTL DEF Spec
<1> QED  BY <1>3 DEF CommittedFilesStay

\* At first the disk has the initial state,
LEMMA InitDurable == Init => Durable!Init
<1> SUFFICES ASSUME Init PROVE Durable!Init
  OBVIOUS
<1>1. Recoverable
  BY InitInv DEF Inv
<1> QED  BY <1>1 DEF Init, Durable!Init, OnDisk, NoBatch

\* after every step it has the state that the table names,
LEMMA NextOnDisk == Inv' => (OnDisk = table.state)'
<1>1. Inv => OnDisk = table.state
  BY DEF Inv, OnDisk
<1> QED  BY <1>1, PTL

\* and each step is a step of the durable state, or none.
LEMMA StepDurable ==
    ASSUME Inv, [Next]_vars
    PROVE  [Durable!Next]_(Durable!vars)
<1>1. OnDisk = table.state /\ OnDisk' = table'.state
  BY NextInv, NextOnDisk DEF Inv, OnDisk
<1> DEFINE shown == IF at = <<"down">> THEN OnDisk ELSE tip
<1> USE DEF Durable!Next, Durable!vars
<1>2. CASE ChangeTip
  <2>1. Durable!Change
    BY <1>1, <1>2 DEF ChangeTip, Durable!Change, States
  <2> QED  BY <2>1
<1>3. CASE BeginFlush
  BY <1>1, <1>3 DEF BeginFlush
<1>4. CASE \E f \in File : Copy(f)
  <2>1. PICK f \in File : Copy(f)
    BY <1>4
  <2> QED  BY <1>1, <2>1 DEF Copy
<1>5. CASE \E f \in File : CopyThrows(f)
  <2>1. PICK f \in File : CopyThrows(f)
    BY <1>5
  <2>2. Durable!Fail
    BY <1>1, <2>1 DEF CopyThrows, Durable!Fail, NoBatch
  <2> QED  BY <2>2
<1>6. CASE \E f \in File : Write(f)
  <2>1. PICK f \in File : Write(f)
    BY <1>6
  <2>2. /\ at = <<"write", f>> /\ at' # <<"down">>
        /\ table' = table /\ tip' = tip /\ batch' = batch
    BY <2>1 DEF Write
  <2> QED  BY <1>1, <2>2
<1>7. CASE EndFlush
  <2>1. Durable!Flush
    BY <1>1, <1>7 DEF EndFlush, Durable!Flush
  <2> QED  BY <2>1
<1>8. CASE Commit
  <2>1. /\ at = <<"idle">> /\ at' = at /\ tip' = tip /\ batch # NoBatch
        /\ table' = batch /\ batch' = NoBatch
    BY <1>8 DEF Commit
  <2>2. batch.state # 0 /\ batch'.state = 0
    BY <2>1 DEF Inv, BatchAgrees, NoBatch
  <2>3. Durable!Commit
    BY <1>1, <2>1, <2>2 DEF Durable!Commit
  <2> QED  BY <2>3
<1>9. CASE Crash
  <2>1. Durable!Crash
    BY <1>1, <1>9 DEF Crash, Durable!Crash, NoBatch
  <2> QED  BY <2>1
<1>10. CASE Restart
  <2>1. /\ at = <<"down">> /\ at' = <<"idle">> /\ tip' = table.state
        /\ table' = table /\ batch' = batch
    BY <1>10 DEF Restart
  <2> QED  BY <1>1, <2>1
<1>11. CASE UNCHANGED vars
  BY <1>1, <1>11 DEF vars
<1> QED  BY <1>2, <1>3, <1>4, <1>5, <1>6, <1>7, <1>8, <1>9, <1>10, <1>11
            DEF Next

\* The flush is atomic: with crashes at every one of its steps, the store does
\* what a store of a single state does that is replaced as a whole.
THEOREM Atomicity == Spec => ImplementsDurable
<1>1. Inv /\ [Next]_vars => Inv'
  BY NextInv
<1>2. Inv /\ [Next]_vars => [Durable!Next]_(Durable!vars)
  BY StepDurable
<1>3. Spec => Durable!Init /\ [][Durable!Next]_(Durable!vars)
  BY <1>1, <1>2, InitInv, InitDurable, PTL DEF Spec
<1> QED  BY <1>3 DEF ImplementsDurable, Durable!Spec
-----------------------------------------------------------------------------
(* The normal form, the replay and the batch, action by action.            *)

\* A leaf that is added, or a spend.
Action == Nat \cup {NoCoin}

NormalAction(u, a) == IF a = NoCoin THEN SpendAction(u) ELSE AddAction(u, a)

\* An action leaves a form a form.
LEMMA NormalActionType ==
    ASSUME NEW u \in UpdateType, NEW a \in Action
    PROVE  NormalAction(u, a) \in UpdateType
PROOF
<1>1. u.pops \in Nat /\ u.pushes \in Seq(Nat)
  BY UpdateFields
<1>2. CASE a = NoCoin
  <2>1. u.pushes # <<>> => ButLast(u.pushes) \in Seq(Nat)
    BY <1>1 DEF ButLast
  <2> QED
    BY <1>1, <1>2, <2>1 DEF NormalAction, SpendAction, UpdateType
<1>3. CASE a # NoCoin
  <2>1. a \in Nat /\ Append(u.pushes, a) \in Seq(Nat)
    BY <1>1, <1>3 DEF Action
  <2> QED
    BY <1>1, <1>3, <2>1 DEF NormalAction, AddAction, UpdateType
<1> QED
  BY <1>2, <1>3

\* The form of a list, action by action.  FoldLeft takes an operator, about which
\* no lemma can speak, so each of the three folds has a lemma like this one.
LEMMA NormalSteps ==
    ASSUME NEW s \in Seq(Action)
    PROVE  \E p \in [0 .. Len(s) -> UpdateType] :
               /\ p[0] = NoUpdate /\ p[Len(s)] = Normal(s)
               /\ \A k \in 1 .. Len(s) : p[k] = NormalAction(p[k - 1], s[k])
PROOF
<1> DEFINE n == Len(s)
           V == UpdateType
           start == NoUpdate
           step == [z \in V \X (1 .. n) |-> NormalAction(z[1], s[z[2]])]
           Value(i, u) == IF u = {} THEN start
                         ELSE NormalAction(i[u \ {Most(u)}], s[Most(u)])
           iter == CHOOSE i : i = [u \in SUBSET DOMAIN s |-> Value(i, u)]
<1>1. n \in Nat /\ DOMAIN s = 1 .. n /\ \A k \in 1 .. n : s[k] \in Action
  OBVIOUS
<1>2. start \in V
  BY DEF NoUpdate, UpdateType, NoAction, NoCoin
<1>3. \A x \in V, k \in 1 .. n : NormalAction(x, s[k]) \in V
  BY <1>1, NormalActionType
<1>4. Normal(s) = iter[DOMAIN s]
  BY DEF Normal, S!FoldLeft, S!MapThenFoldSet, S!Max, Most, NormalAction
<1> HIDE DEF n, V, start
<1>5. step \in [V \X (1 .. n) -> V]
  BY <1>3
<1>6. \A u \in SUBSET (1 .. n) : u # {} => Most(u) \in 1 .. n
  BY <1>1, Greatest
<1> HIDE DEF iter
<1>7. PICK g \in [SUBSET (1 .. n) -> V] :
          \A u \in SUBSET (1 .. n) :
              g[u] = IF u = {} THEN start
                     ELSE step[<<g[u \ {Most(u)}], Most(u)>>]
  <2> HIDE DEF step
  <2>1. ListFolds(n, V, start, step) # {}
    BY <1>1, <1>2, <1>5, ListFoldExists
  <2> QED
    BY <2>1 DEF ListFolds
<1>8. g = [u \in SUBSET DOMAIN s |-> Value(g, u)]
  <2> SUFFICES ASSUME NEW u \in SUBSET (1 .. n) PROVE g[u] = Value(g, u)
    BY <1>1
  <2>1. u # {} => g[u \ {Most(u)}] \in V /\ Most(u) \in 1 .. n
    BY <1>6
  <2> QED
    BY <1>7, <2>1
<1>9. iter = [u \in SUBSET (1 .. n) |-> Value(iter, u)]
  <2> HIDE DEF Value
  <2> QED
    BY <1>1, <1>8 DEF iter
<1>10. iter[{}] = start
  BY <1>9
<1>11. Recurs(iter, n, V, start, step)
  BY <1>6, <1>9, <1>10 DEF Recurs
<1>12. PICK p \in [0 .. n -> V] :
          /\ p[0] = start /\ p[n] = iter[1 .. n]
          /\ \A k \in 1 .. n : p[k] = step[<<p[k - 1], k>>]
  <2> HIDE DEF step, Value
  <2>1. ListSteps(n, V, start, step, iter[1 .. n]) # {}
    BY <1>1, <1>2, <1>5, <1>11, FoldSteps
  <2> QED
    BY <2>1 DEF ListSteps
<1>13. \A k \in 1 .. n : p[k] = NormalAction(p[k - 1], s[k])
  <2>1. \A k \in 1 .. n : p[k - 1] \in V
    BY <1>1
  <2> QED
    BY <1>12, <2>1
<1> QED
  BY <1>1, <1>4, <1>12, <1>13 DEF n, V, start

\* What a replay may be at.
CoinsOrFailed == Seq(Nat) \cup {Assertion}

\* An action leaves coins, or a failed assertion.
LEMMA ReplayActionType ==
    ASSUME NEW x \in CoinsOrFailed, NEW a \in Action
    PROVE  ReplayAction(x, a) \in CoinsOrFailed
PROOF
<1>1. CASE x = Assertion
  BY <1>1 DEF ReplayAction, CoinsOrFailed
<1>2. CASE x # Assertion /\ a # NoCoin
  <2>1. x \in Seq(Nat) /\ a \in Nat
    BY <1>2 DEF CoinsOrFailed, Action
  <2>2. Append(x, a) \in Seq(Nat)
    BY <2>1
  <2> QED
    BY <1>2, <2>2 DEF ReplayAction, CoinsOrFailed
<1>3. CASE x # Assertion /\ a = NoCoin
  <2>1. x \in Seq(Nat)
    BY <1>3 DEF CoinsOrFailed
  <2>2. x # <<>> => ButLast(x) \in Seq(Nat)
    BY <2>1 DEF ButLast
  <2> QED
    BY <1>3, <2>2 DEF ReplayAction, CoinsOrFailed
<1> QED
  BY <1>1, <1>2, <1>3

\* GetUTXOs, action by action.
LEMMA ReplaySteps ==
    ASSUME NEW coins \in CoinsOrFailed, NEW s \in Seq(Action)
    PROVE  \E p \in [0 .. Len(s) -> CoinsOrFailed] :
               /\ p[0] = coins /\ p[Len(s)] = GetUTXOs(coins, s)
               /\ \A k \in 1 .. Len(s) : p[k] = ReplayAction(p[k - 1], s[k])
PROOF
<1> DEFINE n == Len(s)
           V == CoinsOrFailed
           start == coins
           step == [z \in V \X (1 .. n) |-> ReplayAction(z[1], s[z[2]])]
           Value(i, u) == IF u = {} THEN start
                         ELSE ReplayAction(i[u \ {Most(u)}], s[Most(u)])
           iter == CHOOSE i : i = [u \in SUBSET DOMAIN s |-> Value(i, u)]
<1>1. n \in Nat /\ DOMAIN s = 1 .. n /\ \A k \in 1 .. n : s[k] \in Action
  OBVIOUS
<1>2. start \in V
  OBVIOUS
<1>3. \A x \in V, k \in 1 .. n : ReplayAction(x, s[k]) \in V
  BY <1>1, ReplayActionType
<1>4. GetUTXOs(coins, s) = iter[DOMAIN s]
  BY DEF GetUTXOs, S!FoldLeft, S!MapThenFoldSet, S!Max, Most
<1> HIDE DEF n, V, start
<1>5. step \in [V \X (1 .. n) -> V]
  BY <1>3
<1>6. \A u \in SUBSET (1 .. n) : u # {} => Most(u) \in 1 .. n
  BY <1>1, Greatest
<1> HIDE DEF iter
<1>7. PICK g \in [SUBSET (1 .. n) -> V] :
          \A u \in SUBSET (1 .. n) :
              g[u] = IF u = {} THEN start
                     ELSE step[<<g[u \ {Most(u)}], Most(u)>>]
  <2> HIDE DEF step
  <2>1. ListFolds(n, V, start, step) # {}
    BY <1>1, <1>2, <1>5, ListFoldExists
  <2> QED
    BY <2>1 DEF ListFolds
<1>8. g = [u \in SUBSET DOMAIN s |-> Value(g, u)]
  <2> SUFFICES ASSUME NEW u \in SUBSET (1 .. n) PROVE g[u] = Value(g, u)
    BY <1>1
  <2>1. u # {} => g[u \ {Most(u)}] \in V /\ Most(u) \in 1 .. n
    BY <1>6
  <2> QED
    BY <1>7, <2>1
<1>9. iter = [u \in SUBSET (1 .. n) |-> Value(iter, u)]
  <2> HIDE DEF Value
  <2> QED
    BY <1>1, <1>8 DEF iter
<1>10. iter[{}] = start
  BY <1>9
<1>11. Recurs(iter, n, V, start, step)
  BY <1>6, <1>9, <1>10 DEF Recurs
<1>12. PICK p \in [0 .. n -> V] :
          /\ p[0] = start /\ p[n] = iter[1 .. n]
          /\ \A k \in 1 .. n : p[k] = step[<<p[k - 1], k>>]
  <2> HIDE DEF step, Value
  <2>1. ListSteps(n, V, start, step, iter[1 .. n]) # {}
    BY <1>1, <1>2, <1>5, <1>11, FoldSteps
  <2> QED
    BY <2>1 DEF ListSteps
<1>13. \A k \in 1 .. n : p[k] = ReplayAction(p[k - 1], s[k])
  <2>1. \A k \in 1 .. n : p[k - 1] \in V
    BY <1>1
  <2> QED
    BY <1>12, <2>1
<1> QED
  BY <1>1, <1>4, <1>12, <1>13 DEF n, V, start

TxType == [value : Nat \cup {NoCoin}, added : Seq(Nat), thrown : BOOLEAN]

\* A write leaves a transaction.
LEMMA WriteActionType ==
    ASSUME NEW x \in TxType, NEW a \in Action
    PROVE  WriteAction(x, a) \in TxType
PROOF
<1>1. x.added \in Seq(Nat) /\ Append(x.added, x.value) = Append(x.added, x.value)
  BY DEF TxType
<1>2. EraseLast(x.added) \in Seq(Nat)
  <2>1. x.added # <<>> => ButLast(x.added) \in Seq(Nat)
    BY <1>1 DEF ButLast
  <2> QED
    BY <1>1, <2>1 DEF EraseLast
<1>3. Delete(x) \in TxType
  <2> DEFINE e == EraseLast(x.added)
  <2> HIDE DEF e
  <2>1. e \in Seq(Nat)
    BY <1>2 DEF e
  <2>2. [x EXCEPT !.value = NoCoin, !.added = e] \in TxType
    BY <2>1 DEF TxType
  <2> QED
    BY <2>2 DEF Delete, e
<1>4. a # NoCoin => Put(x, a) \in TxType
  <2> SUFFICES ASSUME a # NoCoin PROVE Put(x, a) \in TxType
    OBVIOUS
  <2> DEFINE e == Append(x.added, a)
  <2>1. a \in Nat /\ e \in Seq(Nat)
    BY <1>1 DEF Action
  <2> HIDE DEF e
  <2>2. [x EXCEPT !.value = a, !.added = e] \in TxType
    BY <2>1 DEF TxType
  <2> QED
    BY <2>2 DEF Put, e
<1>5. [x EXCEPT !.thrown = TRUE] \in TxType
  BY DEF TxType
<1> QED
  BY <1>3, <1>4, <1>5 DEF WriteAction

\* The batch, write by write.
LEMMA WriteSteps ==
    ASSUME entry \in Nat \cup {NoCoin}, NEW s \in Seq(Action)
    PROVE  \E p \in [0 .. Len(s) -> TxType] :
               /\ p[0] = Begin /\ p[Len(s)] = WriteBatch(s)
               /\ \A k \in 1 .. Len(s) : p[k] = WriteAction(p[k - 1], s[k])
PROOF
<1> DEFINE n == Len(s)
           V == TxType
           start == Begin
           step == [z \in V \X (1 .. n) |-> WriteAction(z[1], s[z[2]])]
           Value(i, u) == IF u = {} THEN start
                         ELSE WriteAction(i[u \ {Most(u)}], s[Most(u)])
           iter == CHOOSE i : i = [u \in SUBSET DOMAIN s |-> Value(i, u)]
<1>1. n \in Nat /\ DOMAIN s = 1 .. n /\ \A k \in 1 .. n : s[k] \in Action
  OBVIOUS
<1>2. start \in V
  BY DEF Begin, TxType
<1>3. \A x \in V, k \in 1 .. n : WriteAction(x, s[k]) \in V
  BY <1>1, WriteActionType
<1>4. WriteBatch(s) = iter[DOMAIN s]
  BY DEF WriteBatch, S!FoldLeft, S!MapThenFoldSet, S!Max, Most
<1> HIDE DEF n, V, start
<1>5. step \in [V \X (1 .. n) -> V]
  BY <1>3
<1>6. \A u \in SUBSET (1 .. n) : u # {} => Most(u) \in 1 .. n
  BY <1>1, Greatest
<1> HIDE DEF iter
<1>7. PICK g \in [SUBSET (1 .. n) -> V] :
          \A u \in SUBSET (1 .. n) :
              g[u] = IF u = {} THEN start
                     ELSE step[<<g[u \ {Most(u)}], Most(u)>>]
  <2> HIDE DEF step
  <2>1. ListFolds(n, V, start, step) # {}
    BY <1>1, <1>2, <1>5, ListFoldExists
  <2> QED
    BY <2>1 DEF ListFolds
<1>8. g = [u \in SUBSET DOMAIN s |-> Value(g, u)]
  <2> SUFFICES ASSUME NEW u \in SUBSET (1 .. n) PROVE g[u] = Value(g, u)
    BY <1>1
  <2>1. u # {} => g[u \ {Most(u)}] \in V /\ Most(u) \in 1 .. n
    BY <1>6
  <2> QED
    BY <1>7, <2>1
<1>9. iter = [u \in SUBSET (1 .. n) |-> Value(iter, u)]
  <2> HIDE DEF Value
  <2> QED
    BY <1>1, <1>8 DEF iter
<1>10. iter[{}] = start
  BY <1>9
<1>11. Recurs(iter, n, V, start, step)
  BY <1>6, <1>9, <1>10 DEF Recurs
<1>12. PICK p \in [0 .. n -> V] :
          /\ p[0] = start /\ p[n] = iter[1 .. n]
          /\ \A k \in 1 .. n : p[k] = step[<<p[k - 1], k>>]
  <2> HIDE DEF step, Value
  <2>1. ListSteps(n, V, start, step, iter[1 .. n]) # {}
    BY <1>1, <1>2, <1>5, <1>11, FoldSteps
  <2> QED
    BY <2>1 DEF ListSteps
<1>13. \A k \in 1 .. n : p[k] = WriteAction(p[k - 1], s[k])
  <2>1. \A k \in 1 .. n : p[k - 1] \in V
    BY <1>1
  <2> QED
    BY <1>12, <2>1
<1> QED
  BY <1>1, <1>4, <1>12, <1>13 DEF n, V, start

-----------------------------------------------------------------------------
(* The form follows the list, one action after the other.                  *)

\* What is appended to two lists is appended to the second.
LEMMA AppendToConcat ==
    ASSUME NEW x \in Seq(Nat), NEW y \in Seq(Nat), NEW a \in Nat
    PROVE  Append(x \o y, a) = x \o Append(y, a) /\ Append(y, a) \in Seq(Nat)
OBVIOUS

\* What is taken from two lists is taken from the second.
LEMMA ButLastOfConcat ==
    ASSUME NEW x \in Seq(Nat), NEW y \in Seq(Nat), y # <<>>
    PROVE  /\ x \o y # <<>> /\ ButLast(x \o y) = x \o ButLast(y) /\ Top(x \o y) = Top(y)
           /\ ButLast(y) \in Seq(Nat) /\ Top(y) \in Nat
PROOF
<1>1. Len(y) \in Nat /\ Len(x) \in Nat /\ Len(y) # 0 /\ Len(x \o y) = Len(x) + Len(y)
  OBVIOUS
<1> DEFINE m == Len(y) - 1
<1>2. m \in Nat /\ m <= Len(y) /\ Len(x \o y) - 1 = Len(x) + m
  BY <1>1
<1> HIDE DEF m
<1>3. SubSeq(x \o y, 1, Len(x) + m) = x \o SubSeq(y, 1, m)
  BY <1>1, <1>2, PrefixOfConcat
<1>4. SubSeq(y, 1, m) \in Seq(Nat)
  BY <1>1, <1>2, PrefixType
<1>5. (x \o y)[Len(x \o y)] = y[Len(y)] /\ y[Len(y)] \in Nat
  BY <1>1
<1>6. x \o y # <<>>
  BY <1>1
<1> QED
  BY <1>2, <1>3, <1>4, <1>5, <1>6 DEF ButLast, Top, m

\* A prefix without its last element is the next shorter one.
LEMMA ButLastOfPrefix ==
    ASSUME NEW x \in Seq(Nat), NEW m \in Int, m <= Len(x)
    PROVE  /\ m <= 0 => SubSeq(x, 1, m) = <<>>
           /\ m > 0 => /\ SubSeq(x, 1, m) # <<>>
                       /\ ButLast(SubSeq(x, 1, m)) = SubSeq(x, 1, m - 1)
PROOF
<1>1. Len(x) \in Nat
  OBVIOUS
<1>2. m <= 0 => SubSeq(x, 1, m) = <<>>
  BY <1>1
<1>3. ASSUME m > 0
      PROVE  SubSeq(x, 1, m) # <<>> /\ ButLast(SubSeq(x, 1, m)) = SubSeq(x, 1, m - 1)
  <2> DEFINE y == SubSeq(x, 1, m)
  <2>1. y \in Seq(Nat) /\ Len(y) = m
    BY <1>1, <1>3
  <2>2. SubSeq(y, 1, m - 1) = SubSeq(x, 1, m - 1)
    BY <1>1, <1>3
  <2> QED
    BY <1>3, <2>1, <2>2 DEF ButLast
<1> QED
  BY <1>2, <1>3

\* What GetUTXOs of x answers for the form u.
Answer(x, u) == IF u.pops > Len(x) THEN Assertion ELSE Replay(x, u)

\* Coins are not a failed assertion.
LEMMA NotFailed ==
    ASSUME NEW x \in Seq(Nat)
    PROVE  x # Assertion
PROOF
<1> SUFFICES ASSUME x = Assertion PROVE FALSE
  OBVIOUS
<1>1. x[1] = NoAction /\ Len(x) = 1
  BY DEF Assertion
<1>2. x[1] \in Nat
  BY <1>1
<1> QED
  BY <1>1, <1>2 DEF NoAction

\* A form that pops no more than there is answers with coins.
LEMMA AnswerType ==
    ASSUME NEW x \in Seq(Nat), NEW u \in UpdateType
    PROVE  /\ u.pops <= Len(x) => Replay(x, u) \in Seq(Nat) /\ Answer(x, u) # Assertion
           /\ Answer(x, u) \in CoinsOrFailed
PROOF
<1>1. u.pops \in Nat /\ Len(x) \in Nat
  BY UpdateFields
<1>2. u.pops <= Len(x) => Replay(x, u) \in Seq(Nat)
  BY ReplayThen
<1>3. u.pops <= Len(x) => Answer(x, u) # Assertion
  BY <1>1, <1>2, NotFailed DEF Answer
<1> QED
  BY <1>1, <1>2, <1>3 DEF Answer, CoinsOrFailed

\* Replaying one more action is answering for the form with that action.
LEMMA AnswerFollows ==
    ASSUME NEW x \in Seq(Nat), NEW u \in UpdateType, NEW a \in Action
    PROVE  ReplayAction(Answer(x, u), a) = Answer(x, NormalAction(u, a))
PROOF
<1>1. u.pops \in Nat /\ u.pushes \in Seq(Nat) /\ Len(x) \in Nat
  BY UpdateFields
<1> DEFINE m == Len(x) - u.pops
           y == SubSeq(x, 1, m)
<1>2. CASE u.pops > Len(x)
  <2>1. NormalAction(u, a).pops > Len(x)
    BY <1>1, <1>2 DEF NormalAction, SpendAction, AddAction
  <2> QED
    BY <1>2, <2>1 DEF Answer, ReplayAction
<1>3. CASE u.pops <= Len(x)
  <2>1. Answer(x, u) = y \o u.pushes /\ Answer(x, u) # Assertion
    <3>1. ~(u.pops > Len(x))
      BY <1>1, <1>3
    <3>2. Answer(x, u) = y \o u.pushes
      BY <3>1 DEF Answer, Replay
    <3>3. Answer(x, u) # Assertion
      BY <1>3, AnswerType
    <3> QED
      BY <3>2, <3>3
  <2>2. m \in Nat /\ m <= Len(x) /\ y \in Seq(Nat)
    BY <1>1, <1>3
  <2> DEFINE n == NormalAction(u, a)
  <2>3. CASE a # NoCoin
    <3>1. a \in Nat
      BY <2>3 DEF Action
    <3>2. n.pops = u.pops /\ n.pushes = Append(u.pushes, a)
      BY <2>3 DEF NormalAction, AddAction
    <3> HIDE DEF n, m, y
    <3>3. Append(y \o u.pushes, a) = y \o Append(u.pushes, a)
      BY <1>1, <2>2, <3>1, AppendToConcat
    <3>4. ~(n.pops > Len(x))
      BY <1>1, <1>3, <3>2
    <3>5. Answer(x, n) = y \o n.pushes
      BY <3>2, <3>4 DEF Answer, Replay, m, y
    <3>6. ReplayAction(Answer(x, u), a) = Append(y \o u.pushes, a)
      BY <2>1, <2>3 DEF ReplayAction
    <3> QED
      BY <3>2, <3>3, <3>5, <3>6 DEF n
  <2>4. CASE a = NoCoin /\ u.pushes # <<>>
    <3>1. n.pops = u.pops /\ n.pushes = ButLast(u.pushes)
      BY <2>4 DEF NormalAction, SpendAction
    <3> HIDE DEF n, m, y
    <3>2. y \o u.pushes # <<>> /\ ButLast(y \o u.pushes) = y \o ButLast(u.pushes)
      BY <1>1, <2>2, <2>4, ButLastOfConcat
    <3>3. ~(n.pops > Len(x))
      BY <1>1, <1>3, <3>1
    <3>4. Answer(x, n) = y \o n.pushes
      BY <3>1, <3>3 DEF Answer, Replay, m, y
    <3>5. ReplayAction(Answer(x, u), a) = ButLast(y \o u.pushes)
      BY <2>1, <2>4, <3>2 DEF ReplayAction
    <3> QED
      BY <3>1, <3>2, <3>4, <3>5 DEF n
  <2>5. CASE a = NoCoin /\ u.pushes = <<>>
    <3>1. n.pops = u.pops + 1 /\ n.pushes = <<>>
      BY <2>5 DEF NormalAction, SpendAction
    <3> HIDE DEF n
    <3>2. y \o u.pushes = y
      BY <2>2, <2>5
    <3>3. /\ m = 0 => y = <<>>
          /\ m > 0 => y # <<>> /\ ButLast(y) = SubSeq(x, 1, m - 1)
      BY <2>2, ButLastOfPrefix
    <3>4. CASE m = 0
      <4>1. n.pops > Len(x)
        BY <1>1, <3>1, <3>4
      <4>2. ReplayAction(Answer(x, u), a) = Assertion
        BY <2>1, <2>5, <3>2, <3>3, <3>4 DEF ReplayAction
      <4> QED
        BY <4>1, <4>2 DEF Answer, n
    <3>5. CASE m > 0
      <4>1. ~(n.pops > Len(x)) /\ Len(x) - n.pops = m - 1
        BY <1>1, <3>1, <3>5
      <4>2. ReplayAction(Answer(x, u), a) = SubSeq(x, 1, m - 1)
        BY <2>1, <2>5, <3>2, <3>3, <3>5 DEF ReplayAction
      <4>3. Answer(x, n) = SubSeq(x, 1, m - 1) \o <<>>
        BY <3>1, <4>1 DEF Answer, Replay
      <4>4. SubSeq(x, 1, m - 1) \in Seq(Nat)
        BY <1>1, <2>2, <3>5
      <4>5. SubSeq(x, 1, m - 1) \o <<>> = SubSeq(x, 1, m - 1)
        BY <4>4
      <4> QED
        BY <4>2, <4>3, <4>5 DEF n
    <3> QED
      BY <2>2, <3>4, <3>5
  <2> QED
    BY <2>3, <2>4, <2>5
<1> QED
  BY <1>1, <1>2, <1>3

\* An action after two forms in a row is an action after the second.
LEMMA ThenFollows ==
    ASSUME NEW u \in UpdateType, NEW w \in UpdateType, NEW a \in Action
    PROVE  NormalAction(Then(u, w), a) = Then(u, NormalAction(w, a))
PROOF
<1>1. /\ u.pops \in Nat /\ u.pushes \in Seq(Nat) /\ Len(u.pushes) \in Nat
      /\ w.pops \in Nat /\ w.pushes \in Seq(Nat)
  BY UpdateFields
<1> DEFINE m == Len(u.pushes) - w.pops
           y == SubSeq(u.pushes, 1, m)
           t == Then(u, w)
           n == NormalAction(w, a)
<1>2. /\ t.pops = (IF w.pops <= Len(u.pushes) THEN u.pops
                   ELSE u.pops + w.pops - Len(u.pushes))
      /\ t.pushes = y \o w.pushes
  BY DEF Then
<1>3. m \in Int /\ m <= Len(u.pushes) /\ y \in Seq(Nat)
  <2>1. m \in Int /\ m <= Len(u.pushes)
    BY <1>1
  <2> HIDE DEF m
  <2> QED
    BY <1>1, <2>1, PrefixType
<1>4. CASE a # NoCoin
  <2>1. a \in Nat /\ a # NoAction
    BY <1>4 DEF Action, NoAction
  <2>2. n = [pops |-> w.pops, pushes |-> Append(w.pushes, a), last |-> a]
    BY <1>4 DEF NormalAction, AddAction
  <2>3. NormalAction(t, a) = [pops |-> t.pops, pushes |-> Append(t.pushes, a), last |-> a]
    BY <1>4 DEF NormalAction, AddAction
  <2>4. Then(u, n) = [pops |-> t.pops, pushes |-> y \o Append(w.pushes, a), last |-> a]
    BY <1>2, <2>1, <2>2 DEF Then
  <2> HIDE DEF t, n, y, m
  <2>5. Append(t.pushes, a) = y \o Append(w.pushes, a)
    <3>1. t.pushes = y \o w.pushes
      BY <1>2
    <3>2. w.pushes \in Seq(Nat) /\ y \in Seq(Nat)
      BY <1>1, <1>3
    <3>3. Append(y \o w.pushes, a) = y \o Append(w.pushes, a)
      BY <2>1, <3>2, AppendToConcat
    <3> QED
      BY <3>1, <3>3
  <2> QED
    BY <2>3, <2>4, <2>5 DEF t, n
<1>5. CASE a = NoCoin /\ w.pushes # <<>>
  <2>1. n = [pops |-> w.pops, pushes |-> ButLast(w.pushes), last |-> NoCoin]
    BY <1>5 DEF NormalAction, SpendAction
  <2>2. Then(u, n) = [pops |-> t.pops, pushes |-> y \o ButLast(w.pushes), last |-> NoCoin]
    BY <1>2, <2>1 DEF Then, NoCoin, NoAction
  <2> HIDE DEF y, m
  <2>3. t.pushes # <<>> /\ ButLast(t.pushes) = y \o ButLast(w.pushes)
    BY <1>1, <1>2, <1>3, <1>5, ButLastOfConcat
  <2> HIDE DEF t
  <2>4. NormalAction(t, a) = [pops |-> t.pops, pushes |-> ButLast(t.pushes), last |-> NoCoin]
    BY <1>5, <2>3 DEF NormalAction, SpendAction
  <2> QED
    BY <2>2, <2>3, <2>4 DEF t
<1>6. CASE a = NoCoin /\ w.pushes = <<>>
  <2>1. n = [pops |-> w.pops + 1, pushes |-> <<>>, last |-> NoCoin]
    BY <1>6 DEF NormalAction, SpendAction
  <2>2. t.pushes = y
    BY <1>2, <1>3, <1>6
  <2>0. m - 1 = Len(u.pushes) - (w.pops + 1)
    <3>1. \A i, j \in Int : (i - j) - 1 = i - (j + 1)
      OBVIOUS
    <3>2. Len(u.pushes) \in Int /\ w.pops \in Int
      BY <1>1
    <3>3. (Len(u.pushes) - w.pops) - 1 = Len(u.pushes) - (w.pops + 1)
      BY <3>1, <3>2, Zenon
    <3> QED
      BY <3>3, Zenon
  <2> DEFINE z == SubSeq(u.pushes, 1, m - 1)
             q == IF w.pops + 1 <= Len(u.pushes) THEN u.pops
                  ELSE u.pops + (w.pops + 1) - Len(u.pushes)
  <2>3. Then(u, n) = [pops |-> q, pushes |-> z, last |-> NoCoin]
    <3>1. Then(u, n) = [pops |-> q, pushes |-> z \o <<>>, last |-> NoCoin]
      <4>1. NoCoin # NoAction
        BY DEF NoCoin, NoAction
      <4> HIDE DEF n, m
      <4>2. /\ n.pops = w.pops + 1 /\ n.pushes = <<>> /\ n.last = NoCoin
            /\ Len(u.pushes) - n.pops = m - 1
        BY <2>0, <2>1
      <4> QED
        BY <4>1, <4>2 DEF Then
    <3>2. z \in Seq(Nat) /\ z \o <<>> = z
      <4>1. m - 1 \in Int /\ m - 1 <= Len(u.pushes)
        BY <1>1
      <4> HIDE DEF m
      <4>2. z \in Seq(Nat)
        BY <1>1, <4>1, PrefixType
      <4> HIDE DEF z
      <4> QED
        BY <4>2
    <3> QED
      BY <3>1, <3>2
  <2> HIDE DEF t, n
  <2>4. CASE m > 0
    <3>1. y # <<>> /\ ButLast(y) = z
      <4> HIDE DEF m
      <4> QED
        BY <1>1, <1>3, <2>4, ButLastOfPrefix
    <3>2. q = t.pops
      BY <1>1, <1>2, <2>4
    <3> HIDE DEF q, y, z, m
    <3>3. NormalAction(t, a) = [pops |-> t.pops, pushes |-> z, last |-> NoCoin]
      BY <1>6, <2>2, <3>1 DEF NormalAction, SpendAction
    <3> QED
      BY <2>3, <3>2, <3>3 DEF t, n
  <2>5. CASE m <= 0
    <3>1. y = <<>> /\ z = <<>>
      <4>1. m - 1 \in Int /\ m - 1 <= 0 /\ m - 1 <= Len(u.pushes)
        BY <1>1, <2>5
      <4> HIDE DEF m
      <4> QED
        BY <1>1, <1>3, <2>5, <4>1, PrefixType
    <3>2. q = t.pops + 1
      BY <1>1, <1>2, <2>5
    <3> HIDE DEF q, y, z, m
    <3>3. NormalAction(t, a) = [pops |-> t.pops + 1, pushes |-> <<>>, last |-> NoCoin]
      BY <1>6, <2>2, <3>1 DEF NormalAction, SpendAction
    <3> QED
      BY <2>3, <3>1, <3>2, <3>3 DEF t, n
  <2> QED
    BY <1>3, <2>4, <2>5
<1> QED
  BY <1>4, <1>5, <1>6

\* The form of a list is a form, and has the list's last action.
LEMMA NormalLast ==
    ASSUME NEW s \in Seq(Action)
    PROVE  /\ Normal(s) \in UpdateType
           /\ Normal(s).last = IF s = <<>> THEN NoAction ELSE Top(s)
PROOF
<1>1. PICK p \in [0 .. Len(s) -> UpdateType] :
          /\ p[0] = NoUpdate /\ p[Len(s)] = Normal(s)
          /\ \A k \in 1 .. Len(s) : p[k] = NormalAction(p[k - 1], s[k])
  BY NormalSteps
<1>2. Len(s) \in Nat /\ Len(s) \in 0 .. Len(s)
  OBVIOUS
<1>3. Normal(s) \in UpdateType
  BY <1>1, <1>2
<1>4. CASE s = <<>>
  <2>1. Normal(s) = NoUpdate
    BY <1>1, <1>4
  <2> QED
    BY <1>3, <1>4, <2>1 DEF NoUpdate
<1>5. CASE s # <<>>
  <2>1. Len(s) \in 1 .. Len(s)
    BY <1>5
  <2>2. Normal(s) = NormalAction(p[Len(s) - 1], Top(s))
    BY <1>1, <2>1 DEF Top
  <2>3. \A u, a : NormalAction(u, a).last = a
    BY DEF NormalAction, AddAction, SpendAction
  <2> QED
    BY <1>3, <1>5, <2>2, <2>3
<1> QED
  BY <1>4, <1>5

\* GetUTXOs of a list answers what its form does.
LEMMA ReadsNormal ==
    ASSUME NEW x \in Seq(Nat), NEW s \in Seq(Action)
    PROVE  GetUTXOs(x, s) = Answer(x, Normal(s))
PROOF
<1>1. PICK p \in [0 .. Len(s) -> UpdateType] :
          /\ p[0] = NoUpdate /\ p[Len(s)] = Normal(s)
          /\ \A k \in 1 .. Len(s) : p[k] = NormalAction(p[k - 1], s[k])
  BY NormalSteps
<1>2. PICK q \in [0 .. Len(s) -> CoinsOrFailed] :
          /\ q[0] = x /\ q[Len(s)] = GetUTXOs(x, s)
          /\ \A k \in 1 .. Len(s) : q[k] = ReplayAction(q[k - 1], s[k])
  <2>1. x \in CoinsOrFailed
    BY DEF CoinsOrFailed
  <2> QED
    BY <2>1, ReplaySteps
<1> DEFINE n == Len(s)
           T == {k \in 0 .. n : q[k] = Answer(x, p[k])}
<1>3. n \in Nat /\ \A k \in 1 .. n : s[k] \in Action
  OBVIOUS
<1>4. 0 \in T
  <2>1. NoUpdate.pops = 0 /\ NoUpdate.pushes = <<>>
    BY DEF NoUpdate
  <2>2. ~(0 > Len(x)) /\ SubSeq(x, 1, Len(x) - 0) \o <<>> = x
    OBVIOUS
  <2>3. Answer(x, NoUpdate) = x
    BY <2>1, <2>2 DEF Answer, Replay
  <2> QED
    BY <1>1, <1>2, <1>3, <2>3
<1>5. ASSUME NEW k \in 1 .. n, k - 1 \in T PROVE k \in T
  <2>1. p[k - 1] \in UpdateType /\ s[k] \in Action
    <3>1. k - 1 \in 0 .. n
      BY <1>3
    <3>2. p[k - 1] \in UpdateType
      BY <1>1, <3>1
    <3> QED
      BY <1>3, <3>2
  <2>2. q[k - 1] = Answer(x, p[k - 1])
    BY <1>5
  <2>3. q[k] = Answer(x, p[k])
    BY <1>1, <1>2, <2>1, <2>2, AnswerFollows
  <2> QED
    BY <2>3
<1> HIDE DEF T
<1>6. 0 .. n \subseteq T
  BY <1>3, <1>4, <1>5, BoundedInduction
<1>7. n \in T
  BY <1>3, <1>6
<1> QED
  BY <1>1, <1>2, <1>7 DEF T

\* A replay that has failed stays so.
LEMMA FailedStays ==
    ASSUME NEW s \in Seq(Action)
    PROVE  GetUTXOs(Assertion, s) = Assertion
PROOF
<1>1. PICK q \in [0 .. Len(s) -> CoinsOrFailed] :
          /\ q[0] = Assertion /\ q[Len(s)] = GetUTXOs(Assertion, s)
          /\ \A k \in 1 .. Len(s) : q[k] = ReplayAction(q[k - 1], s[k])
  <2>1. Assertion \in CoinsOrFailed
    BY DEF CoinsOrFailed
  <2> QED
    BY <2>1, ReplaySteps
<1> DEFINE n == Len(s)
           T == {k \in 0 .. n : q[k] = Assertion}
<1>2. n \in Nat /\ 0 \in T
  BY <1>1
<1>3. \A k \in 1 .. n : k - 1 \in T => k \in T
  BY <1>1 DEF ReplayAction
<1> HIDE DEF T
<1>4. n \in T
  BY <1>2, <1>3, BoundedInduction
<1> QED
  BY <1>1, <1>4 DEF T

\* The form of two lists in a row.
LEMMA NormalOfConcat ==
    ASSUME NEW r \in Seq(Action), NEW s \in Seq(Action)
    PROVE  Normal(r \o s) = Then(Normal(r), Normal(s))
PROOF
<1> DEFINE t == r \o s
           l == Len(r)
           n == Len(s)
<1>1. /\ t \in Seq(Action) /\ Len(t) = l + n /\ l \in Nat /\ n \in Nat
      /\ \A k \in 1 .. l : t[k] = r[k]
      /\ \A k \in 1 .. n : t[l + k] = s[k] /\ s[k] \in Action
  OBVIOUS
<1>2. PICK p \in [0 .. Len(t) -> UpdateType] :
          /\ p[0] = NoUpdate /\ p[Len(t)] = Normal(t)
          /\ \A k \in 1 .. Len(t) : p[k] = NormalAction(p[k - 1], t[k])
  BY <1>1, NormalSteps
<1>3. PICK f \in [0 .. Len(r) -> UpdateType] :
          /\ f[0] = NoUpdate /\ f[Len(r)] = Normal(r)
          /\ \A k \in 1 .. Len(r) : f[k] = NormalAction(f[k - 1], r[k])
  BY NormalSteps
<1>4. PICK g \in [0 .. Len(s) -> UpdateType] :
          /\ g[0] = NoUpdate /\ g[Len(s)] = Normal(s)
          /\ \A k \in 1 .. Len(s) : g[k] = NormalAction(g[k - 1], s[k])
  BY NormalSteps
<1> HIDE DEF t, l, n
<1>5. /\ p[0] = NoUpdate /\ p[l + n] = Normal(t)
      /\ \A k \in 1 .. l + n : p[k] = NormalAction(p[k - 1], t[k])
  BY <1>1, <1>2
<1>6. /\ f[0] = NoUpdate /\ f[l] = Normal(r) /\ f \in [0 .. l -> UpdateType]
      /\ \A k \in 1 .. l : f[k] = NormalAction(f[k - 1], r[k])
  BY <1>3 DEF l
<1>7. /\ g[0] = NoUpdate /\ g[n] = Normal(s) /\ g \in [0 .. n -> UpdateType]
      /\ \A k \in 1 .. n : g[k] = NormalAction(g[k - 1], s[k])
  BY <1>4 DEF n
<1> DEFINE T == {k \in 0 .. l : p[k] = f[k]}
<1>8. 0 \in T
  BY <1>1, <1>5, <1>6
<1>9. ASSUME NEW k \in 1 .. l, k - 1 \in T PROVE k \in T
  <2>1. k \in 1 .. l + n /\ k \in 0 .. l
    BY <1>1
  <2>2. p[k] = NormalAction(p[k - 1], r[k])
    BY <1>1, <1>5, <2>1
  <2>3. p[k - 1] = f[k - 1]
    BY <1>9
  <2>4. p[k] = f[k]
    BY <1>6, <2>2, <2>3
  <2> QED
    BY <2>1, <2>4
<1> HIDE DEF T
<1>10. l \in T
  <2>1. l \in Nat /\ l \in 0 .. l
    BY <1>1
  <2>2. 0 .. l \subseteq T
    BY <1>8, <1>9, <2>1, BoundedInduction
  <2> QED
    BY <2>1, <2>2
<1>11. p[l] = Normal(r)
  BY <1>6, <1>10 DEF T
<1> DEFINE u == Normal(r)
           R == {k \in 0 .. n : p[l + k] = Then(u, g[k])}
<1>12. u \in UpdateType
  BY NormalLast
<1>13. 0 \in R
  <2>1. Then(u, NoUpdate) = u
    <3>1. /\ u.pops \in Nat /\ u.pushes \in Seq(Nat)
          /\ u = [pops |-> u.pops, pushes |-> u.pushes, last |-> u.last]
      BY <1>12 DEF UpdateType
    <3> HIDE DEF u
    <3>2. 0 <= Len(u.pushes) /\ SubSeq(u.pushes, 1, Len(u.pushes) - 0) \o <<>> = u.pushes
      BY <3>1
    <3>3. NoUpdate.pops = 0 /\ NoUpdate.pushes = <<>> /\ NoUpdate.last = NoAction
      BY DEF NoUpdate
    <3> QED
      BY <3>1, <3>2, <3>3 DEF Then
  <2>2. l + 0 = l /\ 0 \in 0 .. n
    BY <1>1
  <2> HIDE DEF u
  <2>3. p[l + 0] = u
    BY <1>11, <2>2 DEF u
  <2> QED
    BY <1>7, <2>1, <2>2, <2>3
<1>14. ASSUME NEW k \in 1 .. n, k - 1 \in R PROVE k \in R
  <2> HIDE DEF u
  <2>1. /\ l + k \in 1 .. l + n /\ k \in 0 .. n /\ k - 1 \in 0 .. n
        /\ (l + k) - 1 = l + (k - 1)
    BY <1>1
  <2>2. p[l + k] = NormalAction(p[l + (k - 1)], s[k])
    BY <1>1, <1>5, <2>1
  <2>3. p[l + (k - 1)] = Then(u, g[k - 1])
    BY <1>14
  <2>4. g[k - 1] \in UpdateType /\ s[k] \in Action
    BY <1>1, <1>7, <2>1
  <2>5. NormalAction(Then(u, g[k - 1]), s[k]) = Then(u, NormalAction(g[k - 1], s[k]))
    BY <1>12, <2>4, ThenFollows
  <2>6. p[l + k] = Then(u, g[k])
    BY <1>7, <2>2, <2>3, <2>5
  <2> QED
    BY <2>1, <2>6
<1> HIDE DEF R
<1>15. n \in R
  <2>1. n \in Nat /\ n \in 0 .. n
    BY <1>1
  <2>2. 0 .. n \subseteq R
    BY <1>13, <1>14, <2>1, BoundedInduction
  <2> QED
    BY <2>1, <2>2
<1>16. p[l + n] = Then(u, g[n])
  BY <1>15 DEF R
<1> QED
  BY <1>5, <1>7, <1>16 DEF t

\* A batch tx is what the form u leaves of the entry.
Batched(tx, u) ==
    /\ tx.thrown <=> (u.pops > 0 /\ entry = NoCoin)
    /\ ~tx.thrown => /\ tx.added = u.pushes
                     /\ tx.value = IF u.last = NoAction THEN entry ELSE u.last

\* One more write, and one more action of the form, agree again.
LEMMA WriteFollows ==
    ASSUME NEW tx \in TxType, NEW u \in UpdateType, NEW a \in Action, Batched(tx, u)
    PROVE  Batched(WriteAction(tx, a), NormalAction(u, a))
PROOF
<1> DEFINE n == NormalAction(u, a)
           w == WriteAction(tx, a)
<1>1. u.pops \in Nat /\ u.pushes \in Seq(Nat) /\ tx.thrown \in BOOLEAN
  BY UpdateFields DEF TxType
<1>2. n.last = a /\ a # NoAction
  BY DEF NormalAction, AddAction, SpendAction, Action, NoAction, NoCoin
<1>3. CASE tx.thrown
  <2>1. w = tx
    BY <1>3 DEF WriteAction
  <2>2. n.pops > 0 /\ entry = NoCoin
    BY <1>1, <1>3 DEF Batched, NormalAction, AddAction, SpendAction
  <2> HIDE DEF n, w
  <2>3. Batched(w, n)
    BY <1>3, <2>1, <2>2 DEF Batched
  <2> QED
    BY <2>3 DEF n, w
<1>4. CASE ~tx.thrown
  <2>1. /\ ~(u.pops > 0 /\ entry = NoCoin)
        /\ tx.added = u.pushes
    BY <1>4 DEF Batched
  <2>2. CASE a # NoCoin
    <3>1. w = [tx EXCEPT !.value = a, !.added = Append(u.pushes, a)]
      BY <1>4, <2>1, <2>2 DEF WriteAction, Put
    <3>2. n.pops = u.pops /\ n.pushes = Append(u.pushes, a)
      BY <2>2 DEF NormalAction, AddAction
    <3> DEFINE e == Append(u.pushes, a)
    <3> HIDE DEF e, n, w
    <3>3. w.thrown = tx.thrown /\ w.added = e /\ w.value = a
      BY <3>1 DEF TxType, e
    <3>4. Batched(w, n)
      BY <1>2, <1>4, <2>1, <3>2, <3>3 DEF Batched, e
    <3> QED
      BY <3>4 DEF n, w
  <2>3. CASE a = NoCoin /\ u.pushes # <<>>
    <3>1. Top(u.pushes) \in Nat
      BY <1>1, <2>3 DEF Top
    <3>2. Get(tx) # NoCoin /\ EraseLast(tx.added) = ButLast(u.pushes)
      BY <2>1, <2>3, <3>1 DEF Get, FindLast, EraseLast, NoCoin
    <3>3. w = [tx EXCEPT !.value = NoCoin, !.added = ButLast(u.pushes)]
      BY <1>4, <2>3, <3>2 DEF WriteAction, Delete
    <3>4. n.pops = u.pops /\ n.pushes = ButLast(u.pushes)
      BY <2>3 DEF NormalAction, SpendAction
    <3> DEFINE e == ButLast(u.pushes)
    <3> HIDE DEF e, n, w
    <3>5. w.thrown = tx.thrown /\ w.added = e /\ w.value = NoCoin
      BY <3>3 DEF TxType, e
    <3>6. Batched(w, n)
      BY <1>2, <1>4, <2>1, <2>3, <3>4, <3>5 DEF Batched, e
    <3> QED
      BY <3>6 DEF n, w
  <2>4. CASE a = NoCoin /\ u.pushes = <<>>
    <3>1. Get(tx) = entry /\ EraseLast(tx.added) = <<>>
      BY <2>1, <2>4 DEF Get, FindLast, EraseLast
    <3>2. n.pops > 0 /\ n.pushes = <<>>
      <4>1. n.pops = u.pops + 1 /\ n.pushes = <<>>
        BY <2>4 DEF NormalAction, SpendAction
      <4> HIDE DEF n
      <4> QED
        BY <1>1, <4>1
    <3>3. CASE entry = NoCoin
      <4>1. w = [tx EXCEPT !.thrown = TRUE]
        BY <1>4, <2>4, <3>1, <3>3 DEF WriteAction
      <4>2. w.thrown
        BY <4>1 DEF TxType
      <4> HIDE DEF n, w
      <4>3. Batched(w, n)
        BY <3>2, <3>3, <4>2 DEF Batched
      <4> QED
        BY <4>3 DEF n, w
    <3>4. CASE entry # NoCoin
      <4>1. w = [tx EXCEPT !.value = NoCoin, !.added = <<>>]
        BY <1>4, <2>4, <3>1, <3>4 DEF WriteAction, Delete
      <4>2. w.thrown = tx.thrown /\ w.added = <<>> /\ w.value = NoCoin
        BY <4>1 DEF TxType
      <4> HIDE DEF n, w
      <4>3. Batched(w, n)
        BY <1>2, <1>4, <2>4, <3>2, <3>4, <4>2 DEF Batched
      <4> QED
        BY <4>3 DEF n, w
    <3> QED
      BY <3>3, <3>4
  <2> QED
    BY <2>2, <2>3, <2>4
<1> QED
  BY <1>3, <1>4

\* What the batch of a list makes of the entry is what the list's form says.
LEMMA WritesNormal ==
    ASSUME entry \in Nat \cup {NoCoin}, NEW s \in Seq(Action)
    PROVE  Batched(WriteBatch(s), Normal(s)) /\ WriteBatch(s) \in TxType
PROOF
<1>1. PICK p \in [0 .. Len(s) -> UpdateType] :
          /\ p[0] = NoUpdate /\ p[Len(s)] = Normal(s)
          /\ \A k \in 1 .. Len(s) : p[k] = NormalAction(p[k - 1], s[k])
  BY NormalSteps
<1>2. PICK q \in [0 .. Len(s) -> TxType] :
          /\ q[0] = Begin /\ q[Len(s)] = WriteBatch(s)
          /\ \A k \in 1 .. Len(s) : q[k] = WriteAction(q[k - 1], s[k])
  BY WriteSteps
<1> DEFINE n == Len(s)
           T == {k \in 0 .. n : Batched(q[k], p[k])}
<1>3. n \in Nat /\ \A k \in 1 .. n : s[k] \in Action
  OBVIOUS
<1>4. 0 \in T
  <2>1. Batched(Begin, NoUpdate)
    BY DEF Batched, Begin, NoUpdate
  <2> QED
    BY <1>1, <1>2, <1>3, <2>1
<1>5. ASSUME NEW k \in 1 .. n, k - 1 \in T PROVE k \in T
  <2>1. p[k - 1] \in UpdateType /\ q[k - 1] \in TxType /\ s[k] \in Action
    <3>1. k - 1 \in 0 .. n
      BY <1>3
    <3>2. p[k - 1] \in UpdateType
      BY <1>1, <3>1
    <3>3. q[k - 1] \in TxType
      BY <1>2, <3>1
    <3> QED
      BY <1>3, <3>2, <3>3
  <2>2. Batched(q[k - 1], p[k - 1])
    BY <1>5
  <2>3. Batched(q[k], p[k])
    BY <1>1, <1>2, <2>1, <2>2, WriteFollows
  <2> QED
    BY <2>3
<1> HIDE DEF T
<1>6. 0 .. n \subseteq T
  BY <1>3, <1>4, <1>5, BoundedInduction
<1>7. n \in T
  BY <1>3, <1>6
<1> QED
  BY <1>1, <1>2, <1>3, <1>7 DEF T

-----------------------------------------------------------------------------
(* The lists of a commitment, as they grow and are flushed.                *)

ListsType ==
    entry \in Nat \cup {NoCoin} /\ log \in Seq(Action) /\ temp \in Seq(Action)

\* The lists are lists of actions.
LEMMA TypeOfLists == ListsSpec => []ListsType
PROOF
<1>1. EmptyLists => ListsType
  BY LeafAssumption DEF EmptyLists, ListsType
<1>2. ListsType /\ [ListsNext]_lists => ListsType'
  <2> SUFFICES ASSUME ListsType, [ListsNext]_lists PROVE ListsType'
    OBVIOUS
  <2>1. entry \in Nat \cup {NoCoin} /\ log \in Seq(Action) /\ temp \in Seq(Action)
    BY DEF ListsType
  <2>2. CASE AddToTemp
    <3>1. PICK a \in Leaf \cup {NoCoin} : temp' = Append(temp, a) /\ UNCHANGED <<entry, log>>
      BY <2>2 DEF AddToTemp
    <3>2. a \in Action
      BY LeafAssumption DEF Action
    <3> QED
      BY <2>1, <3>1, <3>2 DEF ListsType
  <2>3. CASE FlushTemp
    <3>1. log \o temp \in Seq(Action) /\ <<>> \in Seq(Action)
      BY <2>1
    <3> QED
      BY <2>1, <2>3, <3>1 DEF FlushTemp, ListsType
  <2>4. CASE FlushLog
    <3>1. WriteBatch(log) \in TxType
      BY <2>1, WritesNormal
    <3>2. WriteBatch(log).value \in Nat \cup {NoCoin} /\ <<>> \in Seq(Action)
      BY <3>1 DEF TxType
    <3> QED
      BY <2>1, <2>4, <3>2 DEF FlushLog, ListsType
  <2>5. CASE UNCHANGED lists
    BY <2>1, <2>5 DEF lists, ListsType
  <2> QED
    BY <2>2, <2>3, <2>4, <2>5 DEF ListsNext
<1> QED
  BY <1>1, <1>2, PTL DEF ListsSpec

\* The normal form answers what GetUTXOs answers from the lists of both caches,
\* fails where its assertion does, and knows whether a cache has a coin.
THEOREM ReadsAsLists == ListsSpec => []NormalFormReads
PROOF
<1>1. ListsType => NormalFormReads
  <2> SUFFICES ASSUME ListsType PROVE NormalFormReads
    OBVIOUS
  <2> DEFINE x == Coins
             n == Normal(log)
             m == Normal(temp)
             y == Replay(x, n)
             z == GetUTXOs(x, log)
  <2>1. x \in Seq(Nat) /\ log \in Seq(Action) /\ temp \in Seq(Action)
    BY DEF ListsType, Coins
  <2>2. n \in UpdateType /\ m \in UpdateType
    BY <2>1, NormalLast
  <2>3. n.pops \in Nat /\ Len(x) \in Nat
    BY <2>1, <2>2, UpdateFields
  <2> HIDE DEF x, n, m, y, z
  <2>4. z = Answer(x, n)
    BY <2>1, ReadsNormal DEF z, n
  <2>5. (z = Assertion) <=> (n.pops > Len(x))
    <3>1. n.pops <= Len(x) => Answer(x, n) # Assertion
      BY <2>1, <2>2, AnswerType
    <3>2. n.pops > Len(x) => Answer(x, n) = Assertion
      BY DEF Answer
    <3> QED
      BY <2>3, <2>4, <3>1, <3>2
  <2>6. ASSUME GetUTXOs(z, temp) # Assertion
        PROVE  Replay(y, m) = GetUTXOs(z, temp)
    <3>1. z # Assertion
      BY <2>1, <2>6, FailedStays
    <3>2. n.pops <= Len(x)
      BY <2>3, <2>5, <3>1
    <3>3. z = y /\ y \in Seq(Nat)
      <4>1. ~(n.pops > Len(x))
        BY <2>3, <3>2
      <4>2. z = y
        BY <2>4, <4>1 DEF Answer, y
      <4>3. y \in Seq(Nat)
        BY <2>1, <2>2, <3>2, AnswerType DEF y
      <4> QED
        BY <4>2, <4>3
    <3>4. GetUTXOs(z, temp) = Answer(y, m)
      BY <2>1, <3>3, ReadsNormal DEF m
    <3> QED
      BY <2>6, <3>4 DEF Answer
  <2>7. HasCoin(log) <=> n.last \notin {NoAction, NoCoin}
    <3>1. n.last = IF log = <<>> THEN NoAction ELSE Top(log)
      BY <2>1, NormalLast DEF n
    <3>2. log # <<>> => Top(log) \in Action
      BY <2>1 DEF Top
    <3>3. NoAction \notin Action
      BY DEF Action, NoAction, NoCoin
    <3> QED
      BY <3>1, <3>2, <3>3 DEF HasCoin
  <2> QED
    BY <2>5, <2>6, <2>7 DEF NormalFormReads, x, n, m, y, z
<1> QED
  BY <1>1, TypeOfLists, PTL

\* Appending the list of one cache to that of another composes their forms.
THEOREM ComposesAsLists == ListsSpec => []NormalFormComposes
PROOF
<1>1. ListsType => NormalFormComposes
  BY NormalOfConcat DEF ListsType, NormalFormComposes
<1> QED
  BY <1>1, TypeOfLists, PTL

\* A batch that writes a list throws exactly when the form spends a coin of an
\* empty entry, and otherwise leaves what the form's last action says.
THEOREM WritesAsLists == ListsSpec => []NormalFormWrites
PROOF
<1>1. ListsType => NormalFormWrites
  BY WritesNormal DEF ListsType, NormalFormWrites, Batched
<1> QED
  BY <1>1, TypeOfLists, PTL
=============================================================================
