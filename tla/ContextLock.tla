----------------------------- MODULE ContextLock -----------------------------
(***************************************************************************)
(* The lock of a libsecp256k1 context: Locked<Context>, whose Reader and   *)
(* Writer objects hold a std::shared_mutex for as long as they live.       *)
(***************************************************************************)
EXTENDS Integers, FiniteSets

CONSTANTS
    Thread,
    PrefersWriters      \* the mutex lets no reader in while a writer waits

ASSUME LockAssumption == PrefersWriters \in BOOLEAN

\* The readers each thread has, and the thread that has the writer.
Unlocked == [readers |-> [t \in Thread |-> 0], writer |-> {}]

\* Mutant: as in an implementation that does not let writers starve.
CanReadAfterWriters(lock, waiting) == lock.writer = {} /\ waiting = {}

\* lock_shared does not block.  A thread that has a reader already may ask for
\* another, for which the standard makes no promise: here it is one more.
CanRead(lock, waiting) ==
    lock.writer = {} /\ (PrefersWriters => waiting = {})

Read(lock, t) == [lock EXCEPT !.readers[t] = @ + 1]

\* Mutant: readers are not waited for.
CanWriteAlways(lock) == lock.writer = {}

\* lock does not block.
CanWrite(lock) == lock.writer = {} /\ \A t \in Thread : lock.readers[t] = 0

Write(lock, t) == [lock EXCEPT !.writer = {t}]

\* Mutant: one reader of several is left.
ReleaseOne(lock, t) ==
    [readers |-> [lock.readers EXCEPT ![t] = IF @ = 0 THEN 0 ELSE @ - 1],
     writer  |-> lock.writer \ {t}]

\* All the temporaries of a thread die, at the end of the expression or by an
\* exception.
Release(lock, t) ==
    [readers |-> [lock.readers EXCEPT ![t] = 0], writer |-> lock.writer \ {t}]
=============================================================================
