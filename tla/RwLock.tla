------------------------------- MODULE RwLock -------------------------------
(***************************************************************************)
(* std::shared_mutex as libstdc++ builds it on Linux (a pthread_rwlock_t   *)
(* that prefers readers) and the guard of include/lock.h that is meant to  *)
(* take its shared side.                                                   *)
(*                                                                         *)
(* The guard's constructor calls unlock_shared() where lock_shared() was   *)
(* meant, and nothing else in the program takes the shared side.  Each     *)
(* call subtracts one reader from an unsigned count which nobody ever      *)
(* increments, so all that matters of that count is whether it is still    *)
(* zero.  A writer is let in by one of two facts: the lock was left in its *)
(* write phase by the last writer, or the count is zero.                   *)
(*                                                                         *)
(* Bound: the reader count is 29 bits wide and would be zero again after   *)
(* 2^29 calls of unlock_shared(); that wrap-around is not modelled.        *)
(***************************************************************************)

CONSTANT NoThread        \* the owner of a lock that no writer has claimed

(* A lock nobody has used: PTHREAD_RWLOCK_INITIALIZER.                     *)
FreshLock == [owner |-> NoThread, writePhase |-> FALSE, skewed |-> FALSE]

LockOf(threads) == [owner      : threads \cup {NoThread},
                    writePhase : BOOLEAN,
                    skewed     : BOOLEAN]

(* lock(), first half: the claim (WRLOCKED) that keeps other writers out.  *)
Claimable(lock) == lock.owner = NoThread
Claim(lock, t) == [lock EXCEPT !.owner = t]

(* lock(), second half: the claimant waits until the registered readers    *)
(* have left, which they never do once the count is skewed.                *)
MayEnter(lock) == lock.writePhase \/ ~lock.skewed
Enter(lock) == [lock EXCEPT !.writePhase = TRUE]

(* unlock() by the writer: the write phase is kept for the next writer,    *)
(* unless readers seem to be registered, to whom it is handed over.        *)
Release(lock) == [lock EXCEPT !.owner = NoThread, !.writePhase = ~lock.skewed]

(* The life of a SharedLockGuard: unlock_shared() in the constructor and   *)
(* again in the destructor.  It waits for nobody.                          *)
SharedGuard(lock) == [lock EXCEPT !.skewed = TRUE]

(* No writer enters this lock any more.                                    *)
Dead(lock) == lock.skewed /\ ~lock.writePhase

=============================================================================
