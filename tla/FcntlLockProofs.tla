--------------------------- MODULE FcntlLockProofs ---------------------------
(***************************************************************************)
(* Proofs about FcntlLock, for any number of processes and Store instances. *)
(***************************************************************************)
EXTENDS FcntlLock, TLAPS

\* Every variable starts with its type, and the lock is with nobody.
LEMMA LockInitInv == LockInit => LockInv
  BY FcntlAssumption DEF LockInit, LockInv, LockTypeOK, Locking, Places

\* Moving instance s changes the place of s and of no other.
LEMMA MoveEffect ==
    ASSUME LockTypeOK, NEW s \in Stores, NEW place \in Places, Move(s, place)
    PROVE  /\ at' \in [Stores -> Places]
           /\ at'[s] = place
           /\ \A t \in Stores : t # s => at'[t] = at[t]
  BY DEF LockTypeOK, Move

\* A step of one instance keeps the map and the record lock in agreement.
LEMMA LockStoreStep ==
    ASSUME LockInv, NEW s \in Stores, StoreNext(s)
    PROVE  LockInv'
<1> DEFINE p == ProcessOf[s]
<1>0. p \in Processes /\ LockTypeOK /\ p # Nobody
  BY FcntlAssumption DEF LockInv
<1> USE FcntlAssumption
<1>1. CASE Reserve(s)
  <2>1. /\ at'[s] = "reserved" /\ \A t \in Stores : t # s => at'[t] = at[t]
        /\ at' \in [Stores -> Places]
    BY <1>0, <1>1, MoveEffect DEF Reserve, Places
  <2>2. /\ held' \in [Processes -> BOOLEAN]
        /\ held'[p] = TRUE /\ \A x \in Processes : x # p => held'[x] = held[x]
    BY <1>0, <1>1 DEF Reserve, LockTypeOK
  <2>3. \A t \in Stores : ProcessOf[t] = p => at[t] = "idle"
    BY <1>1 DEF Reserve, LockInv
  <2>4. kernel' = kernel
    BY <1>1 DEF Reserve
  <2> QED BY <1>0, <2>1, <2>2, <2>3, <2>4 DEF LockInv, LockTypeOK, Locking
<1>2. CASE OpenFile(s) \/ OpenFileFails(s)
  <2>1. /\ at'[s] \in {"opened", "closing"} /\ \A t \in Stores : t # s => at'[t] = at[t]
        /\ at' \in [Stores -> Places]
    BY <1>0, <1>2, MoveEffect DEF OpenFile, OpenFileFails, Places
  <2>2. at[s] = "reserved" /\ UNCHANGED <<held, kernel>>
    BY <1>2 DEF OpenFile, OpenFileFails
  <2> QED BY <1>0, <2>1, <2>2 DEF LockInv, LockTypeOK, Locking
<1>3. CASE SetLock(s)
  <2>1. /\ at'[s] = "locked" /\ \A t \in Stores : t # s => at'[t] = at[t]
        /\ at' \in [Stores -> Places]
    BY <1>0, <1>3, MoveEffect DEF SetLock, Places
  <2>2. at[s] = "opened" /\ kernel \in {Nobody, p} /\ kernel' = p /\ held' = held
    BY <1>3 DEF SetLock
  <2>3. \A t \in Stores : Locking(t) => kernel' = ProcessOf[t]
    BY <2>2 DEF LockInv
  <2> QED BY <1>0, <2>1, <2>2, <2>3 DEF LockInv, LockTypeOK, Locking
<1>4. CASE SetLockFails(s)
  <2>1. /\ at'[s] = "closing" /\ \A t \in Stores : t # s => at'[t] = at[t]
        /\ at' \in [Stores -> Places]
    BY <1>0, <1>4, MoveEffect DEF SetLockFails, Places
  <2>2. at[s] = "opened" /\ held' = held
    BY <1>4 DEF SetLockFails
  <2>3. kernel # p
    BY <1>0, <2>2 DEF LockInv, Locking
  <2>4. kernel' = kernel
    BY <1>4, <2>3 DEF SetLockFails, AfterClose
  <2> QED BY <1>0, <2>1, <2>2, <2>4 DEF LockInv, LockTypeOK, Locking
<1>5. CASE WritePid(s)
  <2>1. /\ at'[s] = "owner" /\ \A t \in Stores : t # s => at'[t] = at[t]
        /\ at' \in [Stores -> Places]
    BY <1>0, <1>5, MoveEffect DEF WritePid, Places
  <2>2. at[s] = "locked" /\ UNCHANGED <<held, kernel>>
    BY <1>5 DEF WritePid
  <2> QED BY <1>0, <2>1, <2>2 DEF LockInv, LockTypeOK, Locking
<1>6. CASE WritePidFails(s) \/ Unlock(s)
  <2>1. /\ at'[s] \in {"closing", "unlocked"} /\ \A t \in Stores : t # s => at'[t] = at[t]
        /\ at' \in [Stores -> Places]
    BY <1>0, <1>6, MoveEffect DEF WritePidFails, Unlock, Places
  <2>2. Locking(s) /\ kernel = p /\ kernel' = Nobody /\ held' = held /\ at[s] # "idle"
    BY <1>6 DEF WritePidFails, Unlock, AfterClose, Locking, LockInv
  <2>3. \A t \in Stores : t # s => ~Locking(t)
    BY <2>2 DEF LockInv, Locking
  <2> QED BY <1>0, <2>1, <2>2, <2>3 DEF LockInv, LockTypeOK, Locking
<1>7. CASE CloseFile(s)
  <2>1. /\ at'[s] = "closing" /\ \A t \in Stores : t # s => at'[t] = at[t]
        /\ at' \in [Stores -> Places]
    BY <1>0, <1>7, MoveEffect DEF CloseFile, Places
  <2>2. at[s] = "unlocked" /\ held' = held
    BY <1>7 DEF CloseFile
  <2>3. kernel # p
    BY <1>0, <2>2 DEF LockInv, Locking
  <2>4. kernel' = kernel
    BY <1>7, <2>3 DEF CloseFile, AfterClose
  <2> QED BY <1>0, <2>1, <2>2, <2>4 DEF LockInv, LockTypeOK, Locking
<1>8. CASE Unreserve(s)
  <2>1. /\ at'[s] = "idle" /\ \A t \in Stores : t # s => at'[t] = at[t]
        /\ at' \in [Stores -> Places]
    BY <1>0, <1>8, MoveEffect DEF Unreserve, Places
  <2>2. /\ held' \in [Processes -> BOOLEAN]
        /\ held'[p] = FALSE /\ \A x \in Processes : x # p => held'[x] = held[x]
    BY <1>0, <1>8 DEF Unreserve, LockTypeOK
  <2>3. at[s] = "closing" /\ kernel' = kernel
    BY <1>8 DEF Unreserve
  <2>4. \A t \in Stores : ProcessOf[t] = p => t = s \/ at[t] = "idle"
    BY <2>3 DEF LockInv
  <2> QED BY <1>0, <2>1, <2>2, <2>3, <2>4 DEF LockInv, LockTypeOK, Locking
<1> QED BY <1>1, <1>2, <1>3, <1>4, <1>5, <1>6, <1>7, <1>8 DEF StoreNext

\* A process that dies takes its reservation and its record lock with it.
LEMMA LockDieStep ==
    ASSUME LockInv, NEW p \in Processes, Die(p)
    PROVE  LockInv'
<1>1. /\ at' \in [Stores -> Places]
      /\ \A t \in Stores : at'[t] = IF ProcessOf[t] = p THEN "idle" ELSE at[t]
  BY DEF Die, LockInv, LockTypeOK, Places
<1>2. /\ held' \in [Processes -> BOOLEAN]
      /\ held'[p] = FALSE /\ \A x \in Processes : x # p => held'[x] = held[x]
  BY DEF Die, LockInv, LockTypeOK
<1>3. kernel' = IF kernel = p THEN Nobody ELSE kernel
  BY DEF Die, AfterClose
<1> QED BY <1>1, <1>2, <1>3, FcntlAssumption DEF LockInv, LockTypeOK, Locking

\* LockInv is an invariant of the lock.
THEOREM LockInvariance == LockSpec => []LockInv
<1>1. LockInv /\ [LockNext]_lockVars => LockInv'
  <2>1. LockInv /\ UNCHANGED lockVars => LockInv'
    BY DEF LockInv, LockTypeOK, Locking, lockVars
  <2> QED BY <2>1, LockStoreStep, LockDieStep DEF LockNext
<1> QED BY <1>1, LockInitInv, PTL DEF LockSpec

\* No two Store instances ever own the directory, and the owner's process
\* has the record lock.
THEOREM Exclusion == LockSpec => []OneOwner
<1>1. LockInv => OneOwner
  BY DEF LockInv, OneOwner, Locking
<1> QED BY <1>1, LockInvariance, PTL

\* A lock that nobody uses is free.
THEOREM Freed == LockSpec => []NothingStranded
<1>1. LockInv => NothingStranded
  BY DEF LockInv, NothingStranded, Locking
<1> QED BY <1>1, LockInvariance, PTL
=============================================================================
