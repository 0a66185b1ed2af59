-------------------------- MODULE HostLaunchProofs --------------------------
(***************************************************************************)
(* The safety of the VI Server lock, and of the launches that go through   *)
(* it, for every set of calls and keys.                                    *)
(*                                                                         *)
(* The lock: arrivals are numbered, a waiter awaits its immediate          *)
(* predecessor on the key (AwaitsPredecessor), hence whoever is served     *)
(* finds everyone before it released (Fifo); two holders of one key would  *)
(* each have to come before the other (MutualExclusion).  Fifo is also     *)
(* what lets a release drop the tail (TailExact).                          *)
(*                                                                         *)
(* The launches: every step of theirs is a step of the lock or leaves it   *)
(* alone, so the lock's theorems carry over; with the slot held exactly    *)
(* while the process runs, mutual exclusion of the lock becomes mutual     *)
(* exclusion of the LabVIEW and lvkit processes.                           *)
(***************************************************************************)
EXTENDS HostLaunch, FiniteSetTheorems, TLAPS

(* The part of the inductive invariant that speaks of the queue. *)
QueueInv == TypeOK /\ Bookkeeping /\ AwaitsPredecessor /\ Fifo /\ TailExact

(* Natural numbers compare. *)
LEMMA Trichotomy == \A m, n \in Nat : (m < n \/ m = n \/ n < m) /\ (m <= n <=> ~(n < m))
OBVIOUS

USE DEF Queued, Started

(* Every variable keeps its type. *)
LEMMA LockTyping == LockSpec => []TypeOK
<1> USE CallAssumption
<1>1. LockInit => TypeOK
  BY DEF LockInit, TypeOK
<1>2. TypeOK /\ [LockNext]_lockVars => TypeOK'
  <2> SUFFICES ASSUME TypeOK, [LockNext]_lockVars
               PROVE  TypeOK'
    OBVIOUS
  <2>1. ASSUME NEW c \in Call, Acquire(c) PROVE TypeOK'
    BY <2>1 DEF Acquire, TypeOK
  <2>2. ASSUME NEW c \in Call, Resume(c) PROVE TypeOK'
    BY <2>2 DEF Resume, TypeOK
  <2>3. ASSUME NEW c \in Call, Release(c) PROVE TypeOK'
    BY <2>3 DEF Release, TailAfter, ResolvedAfter, TypeOK
  <2>4. ASSUME NEW c \in Call, ReleaseAgain(c) PROVE TypeOK'
    BY <2>4 DEF ReleaseAgain, lockVars, TypeOK
  <2>5. CASE UNCHANGED lockVars
    BY <2>5 DEF lockVars, TypeOK
  <2> QED BY <2>1, <2>2, <2>3, <2>4, <2>5 DEF LockNext
<1> QED BY <1>1, <1>2, PTL DEF LockSpec

LEMMA InitQueueInv == LockInit => QueueInv
BY CallAssumption
DEF LockInit, QueueInv, TypeOK, Bookkeeping, AwaitsPredecessor, Fifo, TailExact, Active

(* A newcomer becomes the tail and awaits the former tail, which is the    *)
(* latest arrival on its key: were a later one released, Fifo would make   *)
(* the tail released too.                                                  *)
LEMMA AcquireQueueInv ==
  ASSUME QueueInv, TypeOK', NEW c \in Call, Acquire(c)
  PROVE  QueueInv'
<1> USE CallAssumption DEF QueueInv, TypeOK
<1> DEFINE k == key[c]
<1>1. k \in Key /\ key' = key
  BY DEF Acquire
<1>2. \A d \in Call \ {c} : pc'[d] = pc[d] /\ stamp'[d] = stamp[d] /\ prev'[d] = prev[d]
  BY DEF Acquire
<1>3. pc'[c] = "waiting" /\ stamp'[c] = clock + 1 /\ prev'[c] = tails[k]
  BY DEF Acquire
<1>4. \A d \in Call : pc[d] \in Started => stamp[d] < clock + 1 /\ d # c
  BY DEF Acquire, Bookkeeping
<1>5. Bookkeeping'
  <2>1. resolved' = {d \in Call : pc'[d] = "released"}
    BY <1>2, <1>3 DEF Acquire, Bookkeeping
  <2>2. \A d \in Call : pc'[d] \in Started => stamp'[d] \in 1..clock'
    BY <1>2, <1>3 DEF Acquire, Bookkeeping
  <2>3. \A d, e \in Call :
          (pc'[d] \in Started /\ pc'[e] \in Started /\ stamp'[d] = stamp'[e]) => d = e
    BY <1>2, <1>3, <1>4 DEF Bookkeeping
  <2> QED BY <2>1, <2>2, <2>3 DEF Bookkeeping
<1>6. AwaitsPredecessor'
  <2> SUFFICES ASSUME NEW w \in Call, NEW d \in Call,
                      pc'[w] = "waiting", pc'[d] \in Started,
                      key[w] = key[d], stamp'[d] < stamp'[w]
               PROVE  \/ prev'[w] = NoCall /\ pc'[d] = "released"
                      \/ /\ prev'[w] \in Call
                         /\ pc'[prev'[w]] \in Started
                         /\ key[prev'[w]] = key[w]
                         /\ d = prev'[w] \/ stamp'[d] < stamp'[prev'[w]]
    BY <1>1 DEF AwaitsPredecessor
  <2>1. CASE w = c
    <3>1. d # c /\ pc[d] \in Started /\ key[d] = k
      BY <2>1, <1>2, <1>3
    <3>2. CASE tails[k] = NoCall
      <4>1. Active(k) = {}
        BY <3>2, <1>1 DEF TailExact
      <4> QED BY <4>1, <3>1, <3>2, <2>1, <1>2, <1>3 DEF Active
    <3>3. CASE tails[k] # NoCall
      <4> DEFINE t == tails[k]
      <4>1. t \in Call /\ pc[t] \in Queued /\ key[t] = k
        BY <3>3, <1>1 DEF TailExact, Active
      <4>2. \A e \in Active(k) : stamp[e] <= stamp[t]
        BY <3>3, <1>1 DEF TailExact
      <4>3. t # c
        BY <4>1 DEF Acquire
      <4>4. d = t \/ stamp[d] < stamp[t]
        <5>0. stamp[t] \in Nat /\ stamp[d] \in Nat
          BY <4>1
        <5>1. CASE pc[d] = "released"
          <6>1. ~(stamp[t] < stamp[d])
            BY <5>1, <4>1, <3>1 DEF Fifo
          <6>2. stamp[d] = stamp[t] => d = t
            BY <4>1, <3>1 DEF Bookkeeping
          <6>3. stamp[d] < stamp[t] \/ stamp[d] = stamp[t] \/ stamp[t] < stamp[d]
            BY <5>0, Trichotomy
          <6> QED BY <6>1, <6>2, <6>3, Zenon
        <5>2. CASE pc[d] \in Queued
          <6>1. d \in Active(k)
            BY <5>2, <3>1 DEF Active
          <6>2. stamp[d] <= stamp[t]
            BY <6>1, <4>2
          <6>3. stamp[d] = stamp[t] => d = t
            BY <4>1, <3>1 DEF Bookkeeping
          <6>4. stamp[d] < stamp[t] \/ stamp[d] = stamp[t]
            BY <5>0, <6>2, Trichotomy, Zenon
          <6> QED BY <6>3, <6>4, Zenon
        <5> QED BY <5>1, <5>2, <3>1
      <4> QED BY <4>1, <4>3, <4>4, <3>1, <2>1, <1>2, <1>3
    <3> QED BY <3>2, <3>3
  <2>2. CASE w # c
    <3>1. pc[w] = "waiting" /\ d # c
      BY <2>2, <1>2, <1>3, <1>4
    <3>2. \/ prev[w] = NoCall /\ pc[d] = "released"
          \/ /\ prev[w] \in Call
             /\ pc[prev[w]] \in Started
             /\ key[prev[w]] = key[w]
             /\ d = prev[w] \/ stamp[d] < stamp[prev[w]]
      BY <3>1, <2>2, <1>2 DEF AwaitsPredecessor
    <3> QED BY <3>1, <3>2, <2>2, <1>2, <1>4
  <2> QED BY <2>1, <2>2
<1>7. Fifo'
  <2> SUFFICES ASSUME NEW h \in Call, NEW d \in Call,
                      pc'[h] \in {"held", "released"}, pc'[d] \in Started,
                      key[h] = key[d], stamp'[d] < stamp'[h]
               PROVE  pc'[d] = "released"
    BY <1>1 DEF Fifo
  <2>1. h # c /\ d # c
    BY <1>2, <1>3, <1>4
  <2> QED BY <2>1, <1>2 DEF Fifo
<1>8. TailExact'
  <2> SUFFICES ASSUME NEW j \in Key
               PROVE  /\ tails'[j] = NoCall <=> Active(j)' = {}
                      /\ tails'[j] # NoCall =>
                           /\ tails'[j] \in Active(j)'
                           /\ \A e \in Active(j)' : stamp'[e] <= stamp'[tails'[j]]
    BY DEF TailExact
  <2>1. CASE j = k
    <3>1. tails'[j] = c /\ Active(j)' = Active(j) \cup {c}
      BY <2>1, <1>1, <1>2, <1>3 DEF Acquire, Active
    <3>2. \A e \in Active(j) : stamp'[e] <= stamp'[c]
      <4> SUFFICES ASSUME NEW e \in Active(j)
                   PROVE  stamp'[e] <= stamp'[c]
        OBVIOUS
      <4>1. e \in Call \ {c} /\ stamp[e] < clock + 1
        BY <1>4 DEF Active
      <4> QED BY <4>1, <1>2, <1>3
    <3>3. stamp'[c] <= stamp'[c]
      BY <1>3
    <3> QED BY <3>1, <3>2, <3>3
  <2>2. CASE j # k
    <3>1. tails'[j] = tails[j] /\ Active(j)' = Active(j)
      BY <2>2, <1>1, <1>2, <1>3 DEF Acquire, Active
    <3>2. c \notin Active(j)
      BY DEF Acquire, Active
    <3> QED BY <3>1, <3>2, <1>2 DEF TailExact, Active
  <2> QED BY <2>1, <2>2
<1> QED BY <1>5, <1>6, <1>7, <1>8

(* The awaited predecessor is released, and by Fifo everyone before it.    *)
LEMMA ResumeQueueInv ==
  ASSUME QueueInv, TypeOK', NEW c \in Call, Resume(c)
  PROVE  QueueInv'
<1> USE CallAssumption DEF QueueInv, TypeOK
<1>1. /\ UNCHANGED <<tails, resolved, key, prev, stamp, clock>>
      /\ pc[c] = "waiting" /\ pc'[c] = "held"
      /\ \A d \in Call \ {c} : pc'[d] = pc[d]
  BY DEF Resume
<1>2. \A j \in Key : Active(j)' = Active(j)
  BY <1>1 DEF Active
<1>3. Bookkeeping'
  BY <1>1 DEF Bookkeeping
<1>4. AwaitsPredecessor'
  BY <1>1 DEF AwaitsPredecessor
<1>5. Fifo'
  <2>1. ASSUME NEW d \in Call, pc[d] \in Started, key[c] = key[d], stamp[d] < stamp[c]
        PROVE  pc[d] = "released"
    <3>1. CASE prev[c] = NoCall
      BY <3>1, <2>1, <1>1 DEF AwaitsPredecessor
    <3>2. CASE prev[c] \in Call
      <4>1. pc[prev[c]] = "released"
        BY <3>2 DEF Resume, PreviousSettled, Bookkeeping
      <4>2. d = prev[c] \/ stamp[d] < stamp[prev[c]]
        BY <3>2, <2>1, <1>1 DEF AwaitsPredecessor
      <4>3. key[prev[c]] = key[d]
        BY <3>2, <2>1, <1>1 DEF AwaitsPredecessor
      <4> QED BY <4>1, <4>2, <4>3, <3>2, <2>1 DEF Fifo
    <3> QED BY <3>1, <3>2
  <2> QED BY <2>1, <1>1 DEF Fifo
<1>6. TailExact'
  BY <1>1, <1>2 DEF TailExact
<1> QED BY <1>3, <1>4, <1>5, <1>6

(* If the holder is the tail it is the last arrival, and by Fifo it is the *)
(* only active call: dropping the tail leaves an idle key.                 *)
LEMMA ReleaseQueueInv ==
  ASSUME QueueInv, TypeOK', NEW c \in Call, Release(c)
  PROVE  QueueInv'
<1> USE CallAssumption DEF QueueInv, TypeOK
<1> DEFINE k == key[c]
<1>1. /\ UNCHANGED <<key, prev, stamp, clock>>
      /\ pc[c] = "held" /\ pc'[c] = "released"
      /\ \A d \in Call \ {c} : pc'[d] = pc[d]
      /\ k \in Key
  BY DEF Release
<1>2. \A j \in Key : tails'[j] = IF j = k THEN TailAfter(c) ELSE tails[j]
  BY DEF Release
<1>3. \A j \in Key : Active(j)' = IF j = k THEN Active(j) \ {c} ELSE Active(j)
  BY <1>1 DEF Active
<1>4. Bookkeeping'
  BY <1>1 DEF Release, ResolvedAfter, Bookkeeping
<1>5. AwaitsPredecessor'
  BY <1>1 DEF AwaitsPredecessor
<1>6. Fifo'
  BY <1>1 DEF Fifo
<1>7. TailExact'
  <2> SUFFICES ASSUME NEW j \in Key
               PROVE  /\ tails'[j] = NoCall <=> Active(j)' = {}
                      /\ tails'[j] # NoCall =>
                           /\ tails'[j] \in Active(j)'
                           /\ \A e \in Active(j)' : stamp'[e] <= stamp'[tails'[j]]
    BY DEF TailExact
  <2>1. CASE j # k
    BY <2>1, <1>1, <1>2, <1>3 DEF TailExact
  <2>2. CASE j = k /\ tails[k] = c
    <3>1. tails'[j] = NoCall
      BY <2>2, <1>2 DEF TailAfter
    <3>2. ASSUME NEW e \in Active(k) PROVE e = c
      <4>1. stamp[e] <= stamp[c]
        BY <2>2, <1>1, <3>2 DEF TailExact
      <4>2. pc[e] \in Queued /\ key[e] = k /\ e \in Call
        BY <3>2 DEF Active
      <4>3. ~(stamp[e] < stamp[c])
        BY <4>2, <1>1 DEF Fifo
      <4> QED BY <4>1, <4>2, <4>3, <1>1 DEF Bookkeeping
    <3> QED BY <3>1, <3>2, <2>2, <1>3
  <2>3. CASE j = k /\ tails[k] # c
    <3>1. tails'[j] = tails[j]
      BY <2>3, <1>2 DEF TailAfter
    <3>2. c \in Active(k)
      BY <1>1 DEF Active
    <3>3. tails[j] # NoCall
      BY <3>2, <2>3, <1>1 DEF TailExact
    <3>4. tails[j] \in Active(j) /\ \A e \in Active(j) : stamp[e] <= stamp[tails[j]]
      BY <3>3 DEF TailExact
    <3> QED BY <3>1, <3>3, <3>4, <2>3, <1>1, <1>3
  <2> QED BY <2>1, <2>2, <2>3
<1> QED BY <1>4, <1>5, <1>6, <1>7

(* The queue invariant holds in every reachable state. *)
THEOREM QueueInvariant == LockSpec => []QueueInv
<1>1. QueueInv /\ TypeOK' /\ [LockNext]_lockVars => QueueInv'
  <2> SUFFICES ASSUME QueueInv, TypeOK', [LockNext]_lockVars
               PROVE  QueueInv'
    OBVIOUS
  <2>1. CASE UNCHANGED lockVars
    BY <2>1 DEF lockVars, QueueInv, TypeOK, Bookkeeping, AwaitsPredecessor, Fifo, TailExact, Active
  <2>2. CASE LockNext
    <3> PICK c \in Call : Acquire(c) \/ Resume(c) \/ Release(c) \/ ReleaseAgain(c)
      BY <2>2 DEF LockNext
    <3> QED BY <2>1, AcquireQueueInv, ResumeQueueInv, ReleaseQueueInv DEF ReleaseAgain
  <2> QED BY <2>1, <2>2
<1> QED BY <1>1, InitQueueInv, LockTyping, PTL DEF LockSpec

(* Two calls never hold one key: each would precede the other. *)
THEOREM LockMutualExclusion == LockSpec => []MutualExclusion
<1>1. QueueInv => MutualExclusion
  <2> SUFFICES ASSUME QueueInv, NEW c \in Call, NEW d \in Call,
                      pc[c] = "held", pc[d] = "held", key[c] = key[d]
               PROVE  c = d
    BY DEF MutualExclusion
  <2>1. ~(stamp[c] < stamp[d]) /\ ~(stamp[d] < stamp[c])
    BY DEF QueueInv, Fifo
  <2>2. stamp[c] = stamp[d]
    BY <2>1 DEF QueueInv, TypeOK
  <2> QED BY <2>2 DEF QueueInv, Bookkeeping
<1> QED BY <1>1, QueueInvariant, PTL

(* Whoever is served has nobody before it unserved. *)
THEOREM LockFifo == LockSpec => []Fifo
<1>1. QueueInv => Fifo
  BY DEF QueueInv
<1> QED BY <1>1, QueueInvariant, PTL

(* The tail is the last active call of a key, and idle keys have none. *)
THEOREM LockTailExact == LockSpec => []TailExact
<1>1. QueueInv => TailExact
  BY DEF QueueInv
<1> QED BY <1>1, QueueInvariant, PTL

DepthCounts == \A k \in Key : depth[k] = Cardinality(Active(k))

LEMMA ActiveFinite == \A k : IsFiniteSet(Active(k)) /\ Cardinality(Active(k)) \in Nat
<1> SUFFICES ASSUME NEW k
             PROVE  IsFiniteSet(Active(k)) /\ Cardinality(Active(k)) \in Nat
  OBVIOUS
<1>1. Active(k) \subseteq Call
  BY DEF Active
<1>2. IsFiniteSet(Active(k))
  BY <1>1, FS_Subset, CallAssumption
<1> QED BY <1>2, FS_CardinalityType

(* An acquire adds one active call to its key, a first release takes it    *)
(* away, and nothing else touches the count.                               *)
LEMMA DepthStep ==
  ASSUME TypeOK, TypeOK', DepthCounts, [LockNext]_lockVars
  PROVE  DepthCounts'
<1> SUFFICES ASSUME NEW k \in Key
             PROVE  depth'[k] = Cardinality(Active(k)')
  BY DEF DepthCounts
<1> USE DEF TypeOK
<1>0. /\ depth[k] = Cardinality(Active(k)) /\ IsFiniteSet(Active(k))
      /\ Cardinality(Active(k)) \in Nat
  BY ActiveFinite DEF DepthCounts
<1>1. ASSUME NEW c \in Call, Acquire(c) PROVE depth'[k] = Cardinality(Active(k)')
  <2>1. CASE key[c] = k
    <3>1. Active(k)' = Active(k) \cup {c} /\ c \notin Active(k)
      BY <1>1, <2>1 DEF Acquire, Active
    <3>2. depth'[k] = depth[k] + 1
      BY <1>1, <2>1 DEF Acquire
    <3>3. Cardinality(Active(k) \cup {c}) = Cardinality(Active(k)) + 1
      BY <3>1, <1>0, FS_AddElement
    <3> QED BY <3>1, <3>2, <3>3, <1>0, Zenon
  <2>2. CASE key[c] # k
    <3>1. Active(k)' = Active(k) /\ depth'[k] = depth[k]
      BY <1>1, <2>2 DEF Acquire, Active
    <3> QED BY <3>1, <1>0
  <2> QED BY <2>1, <2>2
<1>2. ASSUME NEW c \in Call, Resume(c) PROVE depth'[k] = Cardinality(Active(k)')
  <2>1. Active(k)' = Active(k) /\ depth' = depth
    BY <1>2 DEF Resume, Active
  <2> QED BY <2>1, <1>0
<1>3. ASSUME NEW c \in Call, Release(c) PROVE depth'[k] = Cardinality(Active(k)')
  <2>1. CASE key[c] = k
    <3>1. Active(k)' = Active(k) \ {c} /\ c \in Active(k)
      BY <1>3, <2>1 DEF Release, Active
    <3>2. Cardinality(Active(k) \ {c}) = Cardinality(Active(k)) - 1
      BY <3>1, <1>0, FS_RemoveElement
    <3>3. Cardinality(Active(k)) # 0
      BY <3>1, <1>0, FS_EmptySet
    <3>4. depth'[k] = depth[k] - 1
      BY <1>3, <2>1, <3>3, <1>0 DEF Release
    <3> QED BY <3>1, <3>2, <3>4, <1>0, Zenon
  <2>2. CASE key[c] # k
    <3>1. Active(k)' = Active(k) /\ depth'[k] = depth[k]
      BY <1>3, <2>2 DEF Release, Active
    <3> QED BY <3>1, <1>0
  <2> QED BY <2>1, <2>2
<1>4. CASE UNCHANGED lockVars
  BY <1>4, <1>0 DEF lockVars, Active
<1>5. ASSUME NEW c \in Call, ReleaseAgain(c) PROVE depth'[k] = Cardinality(Active(k)')
  BY <1>5, <1>4 DEF ReleaseAgain
<1> QED BY <1>1, <1>2, <1>3, <1>4, <1>5 DEF LockNext

(* The depth map counts the holder and the waiters of every key, so isBusy *)
(* and waitingCount never lie.                                             *)
THEOREM LockDepthExact == LockSpec => []DepthExact
<1>1. LockInit => DepthCounts
  <2> SUFFICES ASSUME LockInit, NEW k \in Key
               PROVE  depth[k] = Cardinality(Active(k))
    BY DEF DepthCounts
  <2>1. Active(k) = {} /\ depth[k] = 0
    BY DEF LockInit, Active
  <2> QED BY <2>1, FS_EmptySet
<1>2. QueueInv /\ MutualExclusion /\ DepthCounts => DepthExact
  <2> SUFFICES ASSUME QueueInv, MutualExclusion, DepthCounts, NEW k \in Key
               PROVE  /\ depth[k] = Cardinality(Active(k))
                      /\ isBusy(k) <=> Active(k) # {}
                      /\ (\E h \in Active(k) : pc[h] = "held") =>
                            waitingCount(k) = Cardinality({c \in Active(k) : pc[c] = "waiting"})
    BY DEF DepthExact
  <2>1. /\ depth[k] = Cardinality(Active(k)) /\ IsFiniteSet(Active(k))
        /\ Cardinality(Active(k)) \in Nat
    BY ActiveFinite DEF DepthCounts
  <2>2. isBusy(k) <=> Active(k) # {}
    <3>1. Cardinality(Active(k)) = 0 <=> Active(k) = {}
      BY <2>1, FS_EmptySet
    <3> QED BY <3>1, <2>1 DEF isBusy
  <2>3. ASSUME NEW h \in Active(k), pc[h] = "held"
        PROVE  waitingCount(k) = Cardinality({c \in Active(k) : pc[c] = "waiting"})
    <3>1. {c \in Active(k) : pc[c] = "waiting"} = Active(k) \ {h}
      BY <2>3 DEF Active, MutualExclusion
    <3>2. Cardinality(Active(k) \ {h}) = Cardinality(Active(k)) - 1
      BY <2>1, <2>3, FS_RemoveElement
    <3>3. Cardinality(Active(k)) # 0
      BY <2>1, <2>3, FS_EmptySet
    <3> QED BY <3>1, <3>2, <3>3, <2>1 DEF waitingCount
  <2> QED BY <2>1, <2>2, <2>3
<1>3. DepthCounts /\ TypeOK /\ TypeOK' /\ [LockNext]_lockVars => DepthCounts'
  BY DepthStep
<1> QED BY <1>1, <1>2, <1>3, LockTyping, QueueInvariant, LockMutualExclusion, PTL DEF LockSpec
-----------------------------------------------------------------------------
(* The launches over the lock. *)

HIDE DEF Queued, Started

(* How the lock's program counter follows the launch's phase. *)
SlotFollowsPhase ==
    \A c \in Call :
        /\ phase[c] \in Phases
        /\ phase[c] \in {"idle", "prepared"} => pc[c] = "idle"
        /\ phase[c] = "queued" <=> pc[c] = "waiting"
        /\ phase[c] = "queued" => UsesLock(c)
        /\ pc[c] = "held" <=> (phase[c] = "running" /\ UsesLock(c))

PhaseInv == SlotFollowsPhase /\ phase \in [Call -> Phases] /\ pc \in [Call -> {"idle"} \cup Started]

(* The launches drive the lock only through its own operations. *)
LEMMA StepIsLockStep ==
  ASSUME NEW c \in Call, Step(c)
  PROVE  LockNext \/ UNCHANGED lockVars
<1>1. CASE AskForSlot(c)
  BY <1>1 DEF AskForSlot, LockNext
<1>2. CASE Launch(c)
  BY <1>2 DEF Launch, LockNext
<1>3. CASE ProcessExits(c)
  BY <1>3 DEF ProcessExits, ReleaseSlot, LockNext
<1>4. CASE CommandThrows(c)
  BY <1>4 DEF CommandThrows, ReleaseSlot, LockNext
<1>5. CASE \/ EndBeforeLaunch(c) \/ MakeTempDir(c) \/ MaterializeFails(c)
           \/ LaunchContainer(c) \/ Conclude(c)
  BY <1>5 DEF EndBeforeLaunch, MakeTempDir, MaterializeFails, LaunchContainer, Conclude
<1> QED BY <1>1, <1>2, <1>3, <1>4, <1>5 DEF Step

(* The composed specification implements the lock's. *)
THEOREM LaunchesImplementLock == Spec => LockSpec
<1>1. Init => LockInit
  BY DEF Init
<1>2. [Next]_vars => [LockNext]_lockVars
  <2> SUFFICES ASSUME [Next]_vars PROVE LockNext \/ UNCHANGED lockVars
    OBVIOUS
  <2>1. CASE UNCHANGED vars
    BY <2>1 DEF vars
  <2>2. CASE Next
    BY <2>2, StepIsLockStep DEF Next, AllSettled, vars
  <2> QED BY <2>1, <2>2
<1> QED BY <1>1, <1>2, PTL DEF Spec, LockSpec

LEMMA OneMoves ==
  ASSUME PhaseInv, kind' = kind, NEW c \in Call, NEW p, NEW l,
         phase' = [phase EXCEPT ![c] = p], pc' = [pc EXCEPT ![c] = l],
         \/ p = "queued" /\ l = "waiting" /\ UsesLock(c)
         \/ p = "running" /\ l = "held" /\ UsesLock(c)
         \/ p \in {"ran", "settled"} /\ l = "released"
  PROVE  PhaseInv'
<1> USE DEF UsesLock
<1>0. p \in Phases /\ l \in {"idle"} \cup Started
  BY DEF Phases, Started
<1>1. phase' \in [Call -> Phases] /\ pc' \in [Call -> {"idle"} \cup Started]
  BY <1>0 DEF PhaseInv
<1>2. phase'[c] = p /\ pc'[c] = l /\ \A d \in Call \ {c} : phase'[d] = phase[d] /\ pc'[d] = pc[d]
  BY DEF PhaseInv
<1>3. ASSUME NEW d \in Call
      PROVE  /\ phase'[d] \in {"idle", "prepared"} => pc'[d] = "idle"
             /\ phase'[d] = "queued" <=> pc'[d] = "waiting"
             /\ phase'[d] = "queued" => UsesLock(d)
             /\ pc'[d] = "held" <=> (phase'[d] = "running" /\ UsesLock(d))
  <2>1. CASE d = c
    BY <2>1, <1>2
  <2>2. CASE d # c
    BY <2>2, <1>2 DEF PhaseInv, SlotFollowsPhase
  <2> QED BY <2>1, <2>2
<1> QED BY <1>1, <1>3 DEF PhaseInv, SlotFollowsPhase

LEMMA PhaseInvStep ==
  ASSUME PhaseInv, NEW c \in Call, Step(c)
  PROVE  PhaseInv'
<1>2. CASE AskForSlot(c)
  <2>1. /\ phase' = [phase EXCEPT ![c] = "queued"] /\ pc' = [pc EXCEPT ![c] = "waiting"]
         /\ kind' = kind /\ UsesLock(c)
    BY <1>2 DEF AskForSlot, Acquire
  <2> QED BY <2>1, OneMoves
<1>3. CASE Launch(c)
  <2>1. phase' = [phase EXCEPT ![c] = "running"] /\ pc' = [pc EXCEPT ![c] = "held"] /\ kind' = kind
    BY <1>3 DEF Launch, Resume
  <2>2. UsesLock(c)
    BY <1>3 DEF Launch, PhaseInv, SlotFollowsPhase
  <2> QED BY <2>1, <2>2, OneMoves
<1>4. ASSUME NEW p \in {"ran", "settled"}, phase[c] = "running",
             phase' = [phase EXCEPT ![c] = p], kind' = kind, ReleaseSlot(c)
      PROVE  PhaseInv'
  <2>1. CASE UsesLock(c)
    <3>1. pc' = [pc EXCEPT ![c] = "released"]
      BY <2>1, <1>4 DEF ReleaseSlot, Release
    <3> QED BY <3>1, <1>4, OneMoves
  <2>2. CASE ~UsesLock(c)
    BY <2>2, <1>4 DEF ReleaseSlot, lockVars, PhaseInv, SlotFollowsPhase, Phases, UsesLock
  <2> QED BY <2>1, <2>2
<1>5. CASE ProcessExits(c)
  BY <1>5, <1>4 DEF ProcessExits
<1>6. CASE CommandThrows(c)
  BY <1>6, <1>4 DEF CommandThrows, Settle
<1> USE DEF PhaseInv, SlotFollowsPhase, UsesLock, Phases
<1>7. CASE EndBeforeLaunch(c)
  BY <1>7 DEF EndBeforeLaunch, Settle, lockVars
<1>8. CASE MakeTempDir(c)
  BY <1>8 DEF MakeTempDir, Settle, lockVars
<1>9. CASE MaterializeFails(c)
  BY <1>9 DEF MaterializeFails, Settle, lockVars
<1>10. CASE LaunchContainer(c)
  BY <1>10 DEF LaunchContainer, lockVars
<1>11. CASE Conclude(c)
  BY <1>11 DEF Conclude, Settle, lockVars
<1> QED BY <1>2, <1>3, <1>5, <1>6, <1>7, <1>8, <1>9, <1>10, <1>11 DEF Step

LEMMA PhaseInvariant == Spec => []PhaseInv
<1>1. Init => PhaseInv
  BY DEF Init, LockInit, PhaseInv, SlotFollowsPhase, Phases
<1>2. PhaseInv /\ [Next]_vars => PhaseInv'
  <2> SUFFICES ASSUME PhaseInv, [Next]_vars PROVE PhaseInv'
    OBVIOUS
  <2>1. CASE UNCHANGED vars
    BY <2>1 DEF PhaseInv, SlotFollowsPhase, UsesLock, vars, lockVars, launchVars
  <2>2. CASE Next
    BY <2>1, <2>2, PhaseInvStep DEF Next, AllSettled
  <2> QED BY <2>1, <2>2
<1> QED BY <1>1, <1>2, PTL DEF Spec

(* The slot is held exactly while a local process runs. *)
THEOREM SlotWhileRunning == Spec => []SlotHeldExactlyWhileRunning
<1>1. PhaseInv => SlotHeldExactlyWhileRunning
  BY DEF PhaseInv, SlotFollowsPhase, SlotHeldExactlyWhileRunning
<1> QED BY <1>1, PhaseInvariant, PTL

(* No two local processes with one lock key ever run together. *)
THEOREM ProcessExclusion == Spec => []OneProcessPerKey
<1>1. SlotHeldExactlyWhileRunning /\ MutualExclusion => OneProcessPerKey
  BY DEF SlotHeldExactlyWhileRunning, MutualExclusion, OneProcessPerKey
<1> QED BY <1>1, SlotWhileRunning, LaunchesImplementLock, LockMutualExclusion, PTL

(* The key a launch locks is that of its code path and port, throughout.   *)
KeyInv == \A c \in Call : key[c] = LockKeyOf(kind[c], port[c])

LEMMA KeyInvariant == Spec => []KeyInv
<1>1. Init => KeyInv
  BY DEF Init, KeyInv
<1>2. KeyInv /\ [Next]_vars => KeyInv'
  <2> SUFFICES ASSUME KeyInv, [Next]_vars PROVE KeyInv'
    OBVIOUS
  <2>1. key' = key /\ kind' = kind /\ port' = port
    BY DEF Next, AllSettled, Step, EndBeforeLaunch, MakeTempDir, MaterializeFails, AskForSlot,
           Launch, LaunchContainer, ProcessExits, CommandThrows, Conclude, ReleaseSlot,
           Acquire, Resume, Release, vars, lockVars, launchVars
  <2> QED BY <2>1 DEF KeyInv
<1> QED BY <1>1, <1>2, PTL DEF Spec

(* Two local processes on one known port never run together, whichever     *)
(* code paths launch them: a known port is its own key on each.            *)
THEOREM PortExclusion == Spec => []OneProcessPerPort
<1>1. KeyInv /\ OneProcessPerKey => OneProcessPerPort
  BY DEF KeyInv, OneProcessPerKey, OneProcessPerPort, LockKeyOf, localViServerLockKey
<1> QED BY <1>1, KeyInvariant, ProcessExclusion, PTL
=============================================================================
