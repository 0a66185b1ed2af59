---------------------------- MODULE ViServerLock ----------------------------
(***************************************************************************)
(* The in-process lock that makes host-native LabVIEW launches take turns  *)
(* on one local VI Server endpoint:                                        *)
(* src/src/reporting/runtime/localViServerAcquisitionLock.ts.              *)
(*                                                                         *)
(* One element of Call is one invocation of acquire(key).  The code runs   *)
(* on one event loop, so the statements before `await previous` are one    *)
(* step (Acquire), the continuation after it is another (Resume), and the  *)
(* returned closure runs in one step whenever its owner calls it (Release).*)
(* The promise each call installs is named by the call itself: `tails` and *)
(* `prev` hold calls, and `resolved` is the set of settled promises.       *)
(***************************************************************************)
EXTENDS Integers, FiniteSets

CONSTANTS Call,      \* the invocations of acquire
          Key,       \* the lock keys (one per endpoint)
          NoCall     \* `undefined` in a Map<string, Promise<void>>

ASSUME CallAssumption == IsFiniteSet(Call) /\ NoCall \notin Call

VARIABLES tails,     \* Map key -> newest acquirer's promise
          depth,     \* Map key -> holder plus waiters (0 stands for "no entry")
          resolved,  \* the promises whose releaseSlot has run
          pc,        \* where each call is
          key,       \* the key a started call asked for
          prev,      \* the promise a started call awaits
          stamp,     \* history: the position of a call in the order of arrival
          clock      \* history: the number of calls that have arrived

lockVars == <<tails, depth, resolved, pc, key, prev, stamp, clock>>

Queued == {"waiting", "held"}
Started == {"waiting", "held", "released"}

(* The calls of a key that are neither idle nor released. *)
Active(k) == {c \in Call : pc[c] \in Queued /\ key[c] = k}

TypeOK ==
    /\ tails \in [Key -> Call \cup {NoCall}]
    /\ depth \in [Key -> Nat]
    /\ resolved \in SUBSET Call
    /\ pc \in [Call -> {"idle"} \cup Started]
    /\ key \in [Call -> Key]
    /\ prev \in [Call -> Call \cup {NoCall}]
    /\ stamp \in [Call -> Nat]
    /\ clock \in Nat

LockInit ==
    /\ tails = [k \in Key |-> NoCall]
    /\ depth = [k \in Key |-> 0]
    /\ resolved = {}
    /\ pc = [c \in Call |-> "idle"]
    /\ key \in [Call -> Key]
    /\ prev = [c \in Call |-> NoCall]
    /\ stamp = [c \in Call |-> 0]
    /\ clock = 0

(* acquire(key), up to its await: wait on the current tail, become the tail. *)
Acquire(c) ==
    /\ pc[c] = "idle"
    /\ pc' = [pc EXCEPT ![c] = "waiting"]
    /\ prev' = [prev EXCEPT ![c] = tails[key[c]]]
    /\ tails' = [tails EXCEPT ![key[c]] = c]
    /\ depth' = [depth EXCEPT ![key[c]] = @ + 1]
    /\ stamp' = [stamp EXCEPT ![c] = clock + 1]
    /\ clock' = clock + 1
    /\ UNCHANGED <<resolved, key>>

(* The promise a call waits on is settled (Promise.resolve() when none). *)
PreviousSettled(c) == prev[c] = NoCall \/ prev[c] \in resolved

(* The continuation of `await previous`: the caller gets its release. *)
Resume(c) ==
    /\ pc[c] = "waiting"
    /\ PreviousSettled(c)
    /\ pc' = [pc EXCEPT ![c] = "held"]
    /\ UNCHANGED <<tails, depth, resolved, key, prev, stamp, clock>>

(* Mutant: the tail is dropped whoever owns it. *)
TailDropped(c) == NoCall

TailAfter(c) == IF tails[key[c]] = c THEN NoCall ELSE tails[key[c]]
ResolvedAfter(c) == resolved \cup {c}

(* The returned closure, first call: leave the queue, drop the tail unless *)
(* a newer acquirer replaced it, settle the promise.                       *)
Release(c) ==
    /\ pc[c] = "held"
    /\ pc' = [pc EXCEPT ![c] = "released"]
    /\ depth' = [depth EXCEPT ![key[c]] = IF @ = 0 THEN 0 ELSE @ - 1]
    /\ tails' = [tails EXCEPT ![key[c]] = TailAfter(c)]
    /\ resolved' = ResolvedAfter(c)
    /\ UNCHANGED <<key, prev, stamp, clock>>

(* Every later call of the closure: `if (released) return`. *)
ReleaseAgain(c) ==
    /\ pc[c] = "released"
    /\ UNCHANGED lockVars

isBusy(k) == depth[k] > 0
waitingCount(k) == IF depth[k] = 0 THEN 0 ELSE depth[k] - 1

LockNext ==
    \E c \in Call : Acquire(c) \/ Resume(c) \/ Release(c) \/ ReleaseAgain(c)

LockSpec == LockInit /\ [][LockNext]_lockVars

(* A continuation whose promise is settled runs, and an owner releases:    *)
(* every caller in src/ releases in a `finally` after a bounded command.   *)
LockFairness == \A c \in Call : WF_lockVars(Resume(c)) /\ WF_lockVars(Release(c))

-----------------------------------------------------------------------------
(* Two holders never share a key: "acquire(key) resolves only once every   *)
(* earlier acquirer of the same key has released" (module header).         *)
MutualExclusion ==
    \A c, d \in Call :
        (pc[c] = "held" /\ pc[d] = "held" /\ key[c] = key[d]) => c = d

(* First come, first served: whoever holds or held a key has nobody who    *)
(* asked for that key earlier still unserved.                              *)
Fifo ==
    \A c, d \in Call :
        (/\ pc[c] \in {"held", "released"} /\ pc[d] \in Started
         /\ key[c] = key[d] /\ stamp[d] < stamp[c]) => pc[d] = "released"

(* The depth map counts exactly the holder and the waiters, however often  *)
(* a release is repeated, so isBusy and waitingCount tell the truth.       *)
DepthExact ==
    \A k \in Key :
        /\ depth[k] = Cardinality(Active(k))
        /\ isBusy(k) <=> Active(k) # {}
        /\ (\E h \in Active(k) : pc[h] = "held") =>
              waitingCount(k) = Cardinality({c \in Active(k) : pc[c] = "waiting"})

(* An idle endpoint leaves no entry behind and a busy one never loses its  *)
(* tail: pruning tails can neither leak nor let a newcomer skip the queue. *)
TailExact ==
    \A k \in Key :
        /\ tails[k] = NoCall <=> Active(k) = {}
        /\ tails[k] # NoCall =>
              /\ tails[k] \in Active(k)
              /\ \A c \in Active(k) : stamp[c] <= stamp[tails[k]]

(* Arrivals are numbered without gaps or repeats, and exactly the released *)
(* calls have settled their promise: the history the proofs argue from.    *)
Bookkeeping ==
    /\ resolved = {c \in Call : pc[c] = "released"}
    /\ \A c \in Call : pc[c] \in Started => stamp[c] \in 1..clock
    /\ \A c, d \in Call :
          (pc[c] \in Started /\ pc[d] \in Started /\ stamp[c] = stamp[d]) => c = d

(* A waiter awaits the promise of its immediate predecessor on the key, or *)
(* nothing when all its predecessors were done as it arrived.              *)
AwaitsPredecessor ==
    \A c, d \in Call :
        (/\ pc[c] = "waiting" /\ pc[d] \in Started
         /\ key[c] = key[d] /\ stamp[d] < stamp[c]) =>
            \/ prev[c] = NoCall /\ pc[d] = "released"
            \/ /\ prev[c] \in Call
               /\ pc[prev[c]] \in Started
               /\ key[prev[c]] = key[c]
               /\ d = prev[c] \/ stamp[d] < stamp[prev[c]]

=============================================================================
