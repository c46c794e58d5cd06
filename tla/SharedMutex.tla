----------------------------- MODULE SharedMutex -----------------------------
(***************************************************************************)
(* std::shared_mutex, the lock of every HashMap, as a value (external: the *)
(* standard library).  "writer" is the set of threads in exclusive         *)
(* ownership, "readers" the number of times each thread owns it shared.    *)
(*                                                                         *)
(* The standard leaves open whether lock_shared waits behind a thread that *)
(* is blocked in lock(): glibc's default pthread_rwlock lets readers pass, *)
(* other implementations do not.  The caller passes that choice as the set *)
(* of writers a reader has to wait for.                                    *)
(***************************************************************************)
EXTENDS Naturals

Unlocked(threads) == [writer |-> {}, readers |-> [t \in threads |-> 0]]

\* lock() and lock_shared() return when these hold.  Mutant: lock() does not
\* wait for the readers.
CanLock_PastReaders(m) == m.writer = {}

CanLock(m) == m.writer = {} /\ \A t \in DOMAIN m.readers : m.readers[t] = 0

CanLockShared(m, waitingWriters) == m.writer = {} /\ waitingWriters = {}

Lock(m, t)         == [m EXCEPT !.writer = @ \cup {t}]
Unlock(m, t)       == [m EXCEPT !.writer = @ \ {t}]
LockShared(m, t)   == [m EXCEPT !.readers[t] = @ + 1]
UnlockShared(m, t) == [m EXCEPT !.readers[t] = @ - 1]
=============================================================================
