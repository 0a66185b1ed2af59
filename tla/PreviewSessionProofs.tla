------------------------ MODULE PreviewSessionProofs ------------------------
(***************************************************************************)
(* The session manager for every set of requests, priorities and runtimes. *)
(*                                                                         *)
(* The argument: one request is in flight at a time, and only it and       *)
(* dispose() own a container that changes (ContainersOwned); dispose()     *)
(* finds one of a few situations at each of its awaits (DisposalStages).   *)
(* pump() is called in the middle of a turn, so the invariant is stated    *)
(* over the values it is given (Good) and pump is shown to re-establish    *)
(* it once, for every caller.                                              *)
(***************************************************************************)
EXTENDS PreviewSession, SequenceTheorems, WellFoundedInduction, TLAPS

ContainerState == {"none", "booting", "up", "removing", "gone", "left"}
RequestState == {"idle", "queued"} \cup InFlight \cup Settled
Distinct(q) == \A i, j \in DOMAIN q : q[i] = q[j] => i = j

TypeGood(c, st, p, ses, o) ==
    /\ c \in [Request -> ContainerState] /\ st \in [Request -> RequestState]
    /\ p \in Request \cup {None} /\ ses \in Request \cup {None}
    /\ o \in [Request -> Request \cup {None}]

QueueGood(q, st) ==
    /\ q \in Seq(Request)
    /\ \A r \in Request : r \in Entries(q) <=> st[r] = "queued"
    /\ Distinct(q)
    /\ disposed => q = <<>>

FlightGood(busy, st) ==
    /\ busy \in BOOLEAN
    /\ \A r, s \in Request : (st[r] \in InFlight /\ st[s] \in InFlight) => r = s
    /\ \A r \in Request : st[r] \in InFlight => busy
    /\ busy => \E r \in Request : st[r] \in InFlight

ContainerGood(c, st, p, ses, o) ==
    /\ p # None => ses = None
    /\ \A s \in Request :
        /\ c[s] = "up" => ses = s
        /\ c[s] = "booting" <=> p = s
        /\ c[s] = "booting" <=> st[s] = "starting"
        /\ c[s] = "removing" =>
              \/ \E r \in Request : st[r] = "replacing" /\ o[r] = s
              \/ dpc = "closing" /\ dtarget = s
        /\ st[s] \in {"idle", "queued", "replacing"} => c[s] = "none"
        /\ st[s] = "starting" => o[s] = s
        /\ st[s] = "replacing" =>
              /\ o[s] # None /\ c[o[s]] \in {"removing", "gone", "left"}
              /\ ses = None /\ dpc \in {"idle", "done"}
        /\ st[s] = "rendering" =>
              /\ o[s] # None /\ rkey[o[s]] = rkey[s]
              /\ disposed \/ c[o[s]] = "up"

StageGood(c, p, ses) ==
    /\ disposed \in BOOLEAN
    /\ disposed <=> dpc # "idle"
    /\ dpc \in {"idle", "awaitStart", "closing", "done"}
    /\ dtarget \in Request \cup {None}
    /\ prio \in [Request -> {"interactive", "warm"}]
    /\ rkey \in [Request -> RuntimeKey]
    /\ ses # None =>
          \/ c[ses] = "up"
          \/ disposed /\ c[ses] \in {"removing", "gone", "left"} /\ dpc = "closing" /\ dtarget = ses
    /\ dpc = "awaitStart" => dtarget # None /\ p \in {dtarget, None}
    /\ dpc = "closing" =>
          /\ dtarget # None /\ c[dtarget] \in {"removing", "gone", "left"}
          /\ p = None /\ ses \in {dtarget, None}

Good(q, busy, c, st, p, ses, o) ==
    /\ TypeGood(c, st, p, ses, o) /\ QueueGood(q, st) /\ FlightGood(busy, st)
    /\ ContainerGood(c, st, p, ses, o) /\ StageGood(c, p, ses)

(* The inductive invariant. *)
SessionInv ==
    /\ Good(queue, running, container, rpc, startPromise, session, on)
    /\ queue # <<>> => running

-----------------------------------------------------------------------------
(* A non-empty set of positive numbers has a least element. *)
LEMMA LeastIndex ==
  ASSUME NEW I, I \subseteq Nat, I # {}
  PROVE  \E i \in I : \A j \in I : i <= j
<1> DEFINE R == OpToRel(<, Nat)
<1>1. IsWellFoundedOn(R, Nat)
  BY NatLessThanWellFounded
<1>2. PICK x \in I : \A y \in I : ~(<<y, x>> \in R)
  BY <1>1, WFMin
<1>3. \A y \in I : ~(y < x)
  BY <1>2 DEF OpToRel
<1> QED BY <1>3

(* selectNextRender returns an index of the queue; nothing it passes over  *)
(* should have gone first.                                                 *)
LEMMA SelectNext ==
  ASSUME NEW q \in Seq(Request), q # <<>>, prio \in [Request -> {"interactive", "warm"}]
  PROVE  /\ selectNextRender(q) \in DOMAIN q
         /\ \A j \in DOMAIN q :
              prio[q[j]] = "interactive" =>
                 prio[q[selectNextRender(q)]] = "interactive" /\ selectNextRender(q) <= j
         /\ prio[q[selectNextRender(q)]] = "warm" => selectNextRender(q) = 1
<1> DEFINE I == {i \in DOMAIN q : prio[q[i]] = "interactive"}
<1>1. DOMAIN q = 1..Len(q) /\ Len(q) \in Nat /\ Len(q) >= 1
  BY EmptySeq, LenProperties
<1>2. CASE I = {}
  BY <1>1, <1>2 DEF selectNextRender
<1>3. CASE I # {}
  <2>0. I \subseteq Nat
    BY <1>1
  <2>1. \E i \in I : \A j \in I : i <= j
    <3> HIDE DEF I
    <3> QED BY <2>0, <1>3, LeastIndex
  <2>2. selectNextRender(q) = CHOOSE i \in I : \A j \in I : i <= j
    BY <1>3 DEF selectNextRender
  <2>3. selectNextRender(q) \in I /\ \A j \in I : selectNextRender(q) <= j
    BY <2>1, <2>2
  <2> QED BY <2>3
<1> QED BY <1>2, <1>3

(* queue.splice(index, 1) removes one entry and keeps the others in order. *)
LEMMA SpliceOutProperties ==
  ASSUME NEW S, NEW q \in Seq(S), NEW i \in DOMAIN q, Distinct(q)
  PROVE  /\ SpliceOut(q, i) \in Seq(S)
         /\ Entries(SpliceOut(q, i)) = Entries(q) \ {q[i]}
         /\ Distinct(SpliceOut(q, i))
<1> DEFINE p == SpliceOut(q, i)
           n == Len(q)
           a == SubSeq(q, 1, i - 1)
           b == SubSeq(q, i + 1, n)
<1>1. n \in Nat /\ DOMAIN q = 1..n /\ \A j \in 1..n : q[j] \in S
  BY LenProperties, ElementOfSeq
<1>2. i \in 1..n
  BY <1>1
<1>3. /\ a \in Seq(S) /\ Len(a) = i - 1
      /\ \A j \in 1..(i - 1) : a[j] = q[j]
  <2>1. \A j \in 1..(i - 1) : q[j] \in S
    BY <1>1, <1>2
  <2>2. /\ a \in Seq(S)
        /\ Len(a) = IF 1 <= i - 1 THEN (i - 1) - 1 + 1 ELSE 0
        /\ \A j \in 1..((i - 1) - 1 + 1) : a[j] = q[1 + j - 1]
    BY <2>1, <1>2, SubSeqProperties
  <2> QED BY <2>2, <1>2
<1>4. /\ b \in Seq(S) /\ Len(b) = n - i
      /\ \A j \in 1..(n - i) : b[j] = q[i + j]
  <2>1. \A j \in (i + 1)..n : q[j] \in S
    BY <1>1, <1>2
  <2>2. /\ b \in Seq(S)
        /\ Len(b) = IF i + 1 <= n THEN n - (i + 1) + 1 ELSE 0
        /\ \A j \in 1..(n - (i + 1) + 1) : b[j] = q[(i + 1) + j - 1]
    BY <2>1, <1>1, <1>2, SubSeqProperties
  <2> QED BY <2>2, <1>1, <1>2
<1>5. /\ p \in Seq(S) /\ Len(p) = Len(a) + Len(b)
      /\ \A j \in 1..(Len(a) + Len(b)) : p[j] = IF j <= Len(a) THEN a[j] ELSE b[j - Len(a)]
  BY <1>3, <1>4, ConcatProperties DEF SpliceOut
<1>6. Len(p) = n - 1 /\ DOMAIN p = 1..(n - 1)
  BY <1>1, <1>2, <1>3, <1>4, <1>5, LenProperties
<1>7. \A j \in 1..(n - 1) : p[j] = IF j < i THEN q[j] ELSE q[j + 1]
  <2> TAKE j \in 1..(n - 1)
  <2>1. CASE j < i
    BY <2>1, <1>1, <1>2, <1>3, <1>4, <1>5
  <2>2. CASE ~(j < i)
    <3> HIDE DEF a, b, p
    <3>1. j \in 1..(Len(a) + Len(b)) /\ ~(j <= Len(a)) /\ j - Len(a) = j - (i - 1)
      BY <2>2, <1>1, <1>2, <1>3, <1>4
    <3>2. p[j] = b[j - (i - 1)]
      BY <3>1, <1>5
    <3>3. j - (i - 1) \in 1..(n - i) /\ i + (j - (i - 1)) = j + 1
      BY <2>2, <1>1, <1>2
    <3> QED BY <2>2, <3>2, <3>3, <1>4
  <2> QED BY <2>1, <2>2
<1>8. Distinct(p)
  <2> SUFFICES ASSUME NEW j \in 1..(n - 1), NEW k \in 1..(n - 1), p[j] = p[k]
               PROVE  j = k
    BY <1>6 DEF Distinct
  <2> DEFINE J == IF j < i THEN j ELSE j + 1
             K == IF k < i THEN k ELSE k + 1
  <2>1. J \in 1..n /\ K \in 1..n /\ p[j] = q[J] /\ p[k] = q[K]
    BY <1>1, <1>2, <1>7
  <2>2. J = K
    BY <2>1, <1>1 DEF Distinct
  <2> QED BY <2>2, <1>1, <1>2
<1>9. Entries(p) = Entries(q) \ {q[i]}
  <2>1. ASSUME NEW j \in 1..(n - 1) PROVE p[j] \in Entries(q) \ {q[i]}
    <3> DEFINE J == IF j < i THEN j ELSE j + 1
    <3>1. J \in 1..n /\ J # i /\ p[j] = q[J]
      BY <1>1, <1>2, <1>7
    <3> QED BY <3>1, <1>1, <1>2 DEF Entries, Distinct
  <2>2. ASSUME NEW k \in 1..n, k # i PROVE \E j \in 1..(n - 1) : p[j] = q[k]
    <3> DEFINE j == IF k < i THEN k ELSE k - 1
    <3>1. j \in 1..(n - 1) /\ p[j] = q[k]
      BY <2>2, <1>1, <1>2, <1>7
    <3> QED BY <3>1
  <2>3. \A x \in Entries(p) : x \in Entries(q) \ {q[i]}
    BY <2>1, <1>6 DEF Entries
  <2>4. \A x \in Entries(q) \ {q[i]} : x \in Entries(p)
    BY <2>2, <1>6, <1>1 DEF Entries
  <2> QED BY <2>3, <2>4
<1> QED BY <1>5, <1>8, <1>9

(* A request that arrives is the last entry. *)
LEMMA AppendEntries ==
  ASSUME NEW q \in Seq(Request), NEW r \in Request, Distinct(q), r \notin Entries(q)
  PROVE  /\ Append(q, r) \in Seq(Request)
         /\ Entries(Append(q, r)) = Entries(q) \cup {r}
         /\ Distinct(Append(q, r))
<1> DEFINE p == Append(q, r)
           n == Len(q)
<1>1. n \in Nat /\ DOMAIN q = 1..n
  BY LenProperties
<1>2. p \in Seq(Request) /\ Len(p) = n + 1 /\ (\A i \in 1..n : p[i] = q[i]) /\ p[n + 1] = r
  BY AppendProperties
<1>3. DOMAIN p = 1..(n + 1)
  BY <1>1, <1>2, LenProperties
<1>4. \A i \in 1..(n + 1) : i \in 1..n \/ i = n + 1
  BY <1>1
<1>5. \A i \in 1..n : i \in 1..(n + 1) /\ q[i] # r
  BY <1>1 DEF Entries
<1>6. Entries(p) = Entries(q) \cup {r}
  <2>1. n + 1 \in 1..(n + 1)
    BY <1>1
  <2> QED BY <1>1, <1>2, <1>3, <1>4, <1>5, <2>1 DEF Entries
<1>7. Distinct(p)
  BY <1>1, <1>2, <1>3, <1>4, <1>5 DEF Distinct
<1> QED BY <1>2, <1>6, <1>7

-----------------------------------------------------------------------------
(* The conditions pump() is called under. *)
LEMMA PumpGood ==
  ASSUME NEW q, NEW busy, NEW c, NEW st,
         Good(q, busy, c, st, IF busy THEN startPromise ELSE None, session, on),
         Pump(q, busy, c, st),
         UNCHANGED <<prio, rkey, disposerVars>>
  PROVE  SessionInv'
<1> USE RequestAssumption
<1>0. UNCHANGED <<prio, rkey, disposed, dpc, dtarget>>
  BY DEF disposerVars
<1>1. CASE NothingToPump(q, busy)
  <2>1. /\ queue' = q /\ running' = busy /\ rpc' = st /\ container' = c
        /\ startPromise' = (IF busy THEN startPromise ELSE None)
        /\ session' = session /\ on' = on
    BY <1>1 DEF Pump
  <2>2. Good(queue, running, container, rpc, startPromise, session, on)'
    BY <1>0, <2>1
    DEF Good, TypeGood, QueueGood, FlightGood, ContainerGood, StageGood, Entries, Distinct
  <2>3. queue' # <<>> => running'
    BY <1>1, <2>1 DEF NothingToPump, Good, QueueGood
  <2> QED BY <2>2, <2>3 DEF SessionInv
<1>2. CASE ~NothingToPump(q, busy)
  <2> DEFINE i == selectNextRender(q)
             r == q[i]
  <2>1. busy = FALSE /\ ~disposed /\ q # <<>> /\ q \in Seq(Request)
    BY <1>2 DEF NothingToPump, Good, QueueGood, FlightGood
  <2>2. Good(q, FALSE, c, st, None, session, on) /\ prio \in [Request -> {"interactive", "warm"}]
    BY <2>1 DEF Good, StageGood
  <2>3. i \in DOMAIN q
    BY <2>1, <2>2, SelectNext
  <2>4. r \in Request /\ st[r] = "queued"
    <3>1. r \in Request
      BY <2>1, <2>3, ElementOfSeq, LenProperties
    <3> QED BY <3>1, <2>2, <2>3 DEF Good, QueueGood, Entries
  <2>5. /\ SpliceOut(q, i) \in Seq(Request) /\ Distinct(SpliceOut(q, i))
        /\ Entries(SpliceOut(q, i)) = Entries(q) \ {r}
    BY <2>1, <2>2, <2>3, SpliceOutProperties DEF Good, QueueGood
  <2>6. queue' = SpliceOut(q, i) /\ running' = TRUE /\ EnsureSession(r, c, st)
    BY <1>2 DEF Pump
  <2> HIDE DEF i, r
  <2>7. \A s \in Request : st[s] \notin InFlight
    BY <2>2 DEF Good, FlightGood
  <2>8. dpc = "idle" /\ disposed' = disposed
    BY <2>1, <2>2, <1>0 DEF Good, StageGood
  <2>9. \A s \in Request : c[s] \in {"none", "up", "gone", "left"} /\ (c[s] = "up" => session = s)
    BY <2>2, <2>7, <2>8 DEF Good, TypeGood, ContainerGood, InFlight, ContainerState
  <2>10. session # None => c[session] = "up"
    BY <2>1, <2>2 DEF Good, StageGood
  <2>11. c[r] = "none"
    BY <2>2, <2>4 DEF Good, ContainerGood
  <2>12. \E ps \in InFlight : rpc' = [st EXCEPT ![r] = ps]
    BY <2>6 DEF EnsureSession, RenderOnLive, StartSession, InFlight
  <2>13. rpc' \in [Request -> RequestState] /\ rpc'[r] \in InFlight
         /\ \A s \in Request \ {r} : rpc'[s] = st[s]
    BY <2>2, <2>4, <2>12 DEF Good, TypeGood, RequestState, InFlight
  <2>14. QueueGood(queue, rpc)'
    <3>0. Entries(queue)' = Entries(q) \ {r}
      BY <2>5, <2>6 DEF Entries
    <3>1. \A s \in Request : s \in Entries(queue)' <=> rpc'[s] = "queued"
      BY <3>0, <2>2, <2>4, <2>13 DEF Good, QueueGood, InFlight
    <3> QED BY <3>1, <2>1, <2>5, <2>6, <2>8 DEF QueueGood, Distinct, Entries
  <2>15. FlightGood(running, rpc)'
    BY <2>6, <2>7, <2>13, <2>4 DEF FlightGood
  <2>16. /\ TypeGood(container, rpc, startPromise, session, on)'
         /\ ContainerGood(container, rpc, startPromise, session, on)'
         /\ StageGood(container, startPromise, session)'
    <3>1. CASE sessionKey = rkey[r] /\ RenderOnLive(r, c, st)
      <4>1. /\ session # None /\ session' = session /\ startPromise' = None
            /\ container' = c /\ rpc' = [st EXCEPT ![r] = "rendering"]
            /\ on' = [on EXCEPT ![r] = session] /\ rkey[session] = rkey[r]
        BY <3>1 DEF RenderOnLive, sessionKey
      <4>2. session \in Request
        BY <4>1, <2>2 DEF Good, TypeGood
      <4>3. TypeGood(container, rpc, startPromise, session, on)'
        BY <4>1, <4>2, <2>2, <2>4, <2>13 DEF Good, TypeGood
      <4>4. ContainerGood(container, rpc, startPromise, session, on)'
        BY <4>1, <4>2, <1>0, <2>2, <2>4, <2>7, <2>8, <2>9, <2>10, <2>11, <2>13
        DEF Good, TypeGood, ContainerGood, InFlight, RequestState
      <4>5. StageGood(container, startPromise, session)'
        BY <4>1, <4>2, <1>0, <2>2, <2>8, <2>10 DEF Good, StageGood
      <4> QED BY <4>3, <4>4, <4>5
    <3>2. CASE /\ session # None /\ sessionKey # rkey[r]
               /\ rpc' = [st EXCEPT ![r] = "replacing"]
               /\ on' = [on EXCEPT ![r] = session]
               /\ container' = [c EXCEPT ![session] = "removing"]
               /\ session' = None
               /\ startPromise' = None
      <4>1. session \in Request /\ session # r
        BY <3>2, <2>2, <2>10, <2>11 DEF Good, TypeGood
      <4>2. TypeGood(container, rpc, startPromise, session, on)'
        BY <3>2, <4>1, <2>2, <2>4, <2>13 DEF Good, TypeGood, ContainerState
      <4>3. container'[session] = "removing" /\ on'[r] = session
            /\ (\A s \in Request \ {session} : container'[s] = c[s])
            /\ rpc'[r] = "replacing"
        BY <3>2, <4>1, <2>2, <2>4 DEF Good, TypeGood
      <4>4. ContainerGood(container, rpc, startPromise, session, on)'
        BY <3>2, <4>1, <4>3, <1>0, <2>2, <2>4, <2>7, <2>8, <2>9, <2>10, <2>11, <2>13
        DEF Good, TypeGood, ContainerGood, InFlight, RequestState
      <4>5. StageGood(container, startPromise, session)'
        BY <3>2, <4>3, <1>0, <2>2, <2>8 DEF Good, StageGood
      <4> QED BY <4>2, <4>4, <4>5
    <3>3. CASE session = None /\ StartSession(r, c, st) /\ UNCHANGED session
      <4>1. /\ session' = None /\ startPromise' = r
            /\ container' = [c EXCEPT ![r] = "booting"]
            /\ rpc' = [st EXCEPT ![r] = "starting"]
            /\ on' = [on EXCEPT ![r] = r]
        BY <3>3 DEF StartSession
      <4>2. TypeGood(container, rpc, startPromise, session, on)'
        BY <4>1, <2>2, <2>4, <2>13 DEF Good, TypeGood, ContainerState
      <4>3. container'[r] = "booting" /\ on'[r] = r /\ rpc'[r] = "starting"
            /\ \A s \in Request \ {r} : container'[s] = c[s]
        BY <4>1, <2>2, <2>4 DEF Good, TypeGood
      <4>4. ContainerGood(container, rpc, startPromise, session, on)'
        BY <3>3, <4>1, <4>3, <1>0, <2>2, <2>4, <2>7, <2>8, <2>9, <2>11, <2>13
        DEF Good, TypeGood, ContainerGood, InFlight, RequestState
      <4>5. StageGood(container, startPromise, session)'
        BY <4>1, <1>0, <2>2, <2>8 DEF Good, StageGood
      <4> QED BY <4>2, <4>4, <4>5
    <3> QED BY <3>1, <3>2, <3>3, <2>6 DEF EnsureSession
  <2> QED BY <2>6, <2>14, <2>15, <2>16 DEF SessionInv, Good
<1> QED BY <1>1, <1>2

-----------------------------------------------------------------------------
LEMMA InitSessionInv == Init => SessionInv
<1> SUFFICES ASSUME Init PROVE SessionInv
  OBVIOUS
<1> USE RequestAssumption DEF Init
<1>1. QueueGood(queue, rpc)
  <2>1. queue \in Seq(Request) /\ Len(queue) = 0
    BY EmptySeq
  <2>2. DOMAIN queue = {}
    BY <2>1, LenProperties
  <2> QED BY <2>1, <2>2 DEF QueueGood, Entries, Distinct
<1>2. TypeGood(container, rpc, startPromise, session, on)
  BY DEF TypeGood, ContainerState, RequestState
<1>3. FlightGood(running, rpc)
  BY DEF FlightGood, InFlight
<1>4. ContainerGood(container, rpc, startPromise, session, on)
  BY DEF ContainerGood
<1>5. StageGood(container, startPromise, session)
  BY DEF StageGood
<1> QED BY <1>1, <1>2, <1>3, <1>4, <1>5 DEF SessionInv, Good

(* renderVi queues a request and pumps, or rejects it. *)
LEMMA RenderViInv ==
  ASSUME SessionInv, NEW r \in Request, RenderVi(r)
  PROVE  SessionInv'
<1> USE RequestAssumption DEF SessionInv
<1>1. rpc[r] = "idle" /\ UNCHANGED <<prio, rkey, disposerVars>>
  BY DEF RenderVi
<1>2. CASE disposed /\ rpc' = [rpc EXCEPT ![r] = "rejected"]
           /\ UNCHANGED <<queue, running, session, startPromise, on, container>>
  <2>1. rpc' \in [Request -> RequestState] /\ rpc'[r] = "rejected"
        /\ \A s \in Request \ {r} : rpc'[s] = rpc[s]
    BY <1>2 DEF Good, TypeGood, RequestState, Settled
  <2>2. TypeGood(container, rpc, startPromise, session, on)'
    BY <1>2, <2>1 DEF Good, TypeGood
  <2>3. QueueGood(queue, rpc)'
    BY <1>1, <1>2, <2>1 DEF Good, QueueGood, Entries, Distinct, disposerVars
  <2>4. FlightGood(running, rpc)'
    BY <1>1, <1>2, <2>1 DEF Good, FlightGood, InFlight
  <2>5. ContainerGood(container, rpc, startPromise, session, on)'
    BY <1>1, <1>2, <2>1 DEF Good, ContainerGood, disposerVars
  <2>6. StageGood(container, startPromise, session)'
    BY <1>1, <1>2 DEF Good, StageGood, disposerVars
  <2> QED BY <2>2, <2>3, <2>4, <2>5, <2>6, <1>2 DEF Good
<1>3. CASE ~disposed /\ Pump(Append(queue, r), running, container, [rpc EXCEPT ![r] = "queued"])
  <2> DEFINE q == Append(queue, r)
             st == [rpc EXCEPT ![r] = "queued"]
             p == IF running THEN startPromise ELSE None
  <2>1. st \in [Request -> RequestState] /\ st[r] = "queued"
        /\ \A s \in Request \ {r} : st[s] = rpc[s]
    BY DEF Good, TypeGood, RequestState
  <2>2. q \in Seq(Request) /\ Entries(q) = Entries(queue) \cup {r} /\ Distinct(q)
    BY <1>1, AppendEntries DEF Good, QueueGood
  <2>3. p = startPromise
    <3>1. ~running => \A s \in Request : rpc[s] # "starting"
      BY DEF Good, FlightGood, InFlight
    <3> QED BY <3>1 DEF Good, TypeGood, ContainerGood
  <2> HIDE DEF q, st, p
  <2>4. TypeGood(container, st, p, session, on)
    BY <2>1, <2>3 DEF Good, TypeGood
  <2>5. QueueGood(q, st)
    BY <1>1, <1>3, <2>1, <2>2 DEF Good, QueueGood
  <2>6. FlightGood(running, st)
    BY <1>1, <2>1 DEF Good, FlightGood, InFlight
  <2>7. ContainerGood(container, st, p, session, on)
    BY <1>1, <2>1, <2>3 DEF Good, ContainerGood
  <2>8. StageGood(container, p, session)
    BY <2>3 DEF Good, StageGood
  <2>9. Good(q, running, container, st, p, session, on)
    BY <2>4, <2>5, <2>6, <2>7, <2>8 DEF Good
  <2> QED BY <2>9, <1>1, <1>3, PumpGood DEF q, st, p
<1> QED BY <1>2, <1>3 DEF RenderVi

(* The request in flight settles: nothing else is in flight then. *)
LEMMA FinishInv ==
  ASSUME SessionInv, NEW r \in Request, rpc[r] \in {"starting", "rendering"}, NEW how \in Settled,
         NEW e \in {"none", "left"}, NEW c,
         c = IF rpc[r] = "starting" THEN [container EXCEPT ![r] = e] ELSE container,
         Finish(r, c, how), UNCHANGED <<prio, rkey, disposerVars>>
  PROVE  SessionInv'
<1> USE RequestAssumption DEF SessionInv
<1> DEFINE st == [rpc EXCEPT ![r] = how]
<1>1. st \in [Request -> RequestState] /\ st[r] = how /\ how \in {"resolved", "rejected"}
      /\ \A s \in Request \ {r} : st[s] = rpc[s]
  BY DEF Good, TypeGood, RequestState, Settled
<1>2. \A s \in Request : st[s] \notin InFlight
  BY <1>1 DEF Good, FlightGood, InFlight
<1>3. /\ rpc[r] = "starting" => container[r] = "booting" /\ startPromise = r
      /\ rpc[r] = "rendering" => startPromise = None
  <2>1. rpc[r] = "rendering" => \A s \in Request : rpc[s] # "starting"
    BY DEF Good, FlightGood, InFlight
  <2> QED BY <2>1 DEF Good, ContainerGood, TypeGood
<1>4. c \in [Request -> ContainerState]
      /\ (\A s \in Request \ {r} : c[s] = container[s])
      /\ (rpc[r] = "starting" => c[r] = e) /\ (rpc[r] = "rendering" => c[r] = container[r])
  BY DEF Good, TypeGood, ContainerState
<1> HIDE DEF st
<1>5. TypeGood(c, st, None, session, on)
  BY <1>1, <1>4 DEF Good, TypeGood
<1>6. QueueGood(queue, st)
  BY <1>1 DEF Good, QueueGood
<1>7. FlightGood(FALSE, st)
  BY <1>2 DEF FlightGood
<1>8. ContainerGood(c, st, None, session, on)
  <2>1. \A s \in Request : c[s] # "booting"
    BY <1>3, <1>4 DEF Good, ContainerGood, TypeGood
  <2>2. \A s \in Request : c[s] = "removing" => dpc = "closing" /\ dtarget = s
    <3>1. \A s \in Request : rpc[s] # "replacing"
      BY DEF Good, FlightGood, InFlight
    <3> QED BY <3>1, <1>4 DEF Good, ContainerGood
  <2>3. \A s \in Request : st[s] \in {"idle", "queued"} => c[s] = "none"
    BY <1>1, <1>4 DEF Good, ContainerGood
  <2>4. \A s \in Request : c[s] = "up" => session = s
    BY <1>4, <1>3 DEF Good, ContainerGood
  <2> QED BY <2>1, <2>2, <2>3, <2>4, <1>2, <1>1 DEF ContainerGood, InFlight
<1>9. StageGood(c, None, session)
  <2>1. session # None => session # r \/ rpc[r] = "rendering"
    BY <1>3 DEF Good, ContainerGood
  <2>2. dpc = "closing" => dtarget # r \/ rpc[r] = "rendering"
    BY <1>3 DEF Good, StageGood
  <2> QED BY <2>1, <2>2, <1>4 DEF Good, StageGood, TypeGood
<1>10. Good(queue, FALSE, c, st, None, session, on)
  BY <1>5, <1>6, <1>7, <1>8, <1>9 DEF Good
<1>11. Pump(queue, FALSE, c, st)
  BY DEF Finish, st
<1> QED BY <1>10, <1>11, PumpGood

LEMMA RemovalEndsInv ==
  ASSUME SessionInv, NEW s \in Request, RemovalEnds(s)
  PROVE  SessionInv'
<1> USE RequestAssumption DEF SessionInv
<1>1. /\ container[s] = "removing"
      /\ UNCHANGED <<prio, rkey, queue, running, session, startPromise, rpc, on>>
      /\ UNCHANGED <<disposed, dpc, dtarget>>
  BY DEF RemovalEnds, disposerVars
<1>2. container' \in [Request -> ContainerState] /\ container'[s] \in {"gone", "left"}
      /\ \A t \in Request \ {s} : container'[t] = container[t]
  BY DEF RemovalEnds, Good, TypeGood, ContainerState
<1>3. TypeGood(container, rpc, startPromise, session, on)'
  BY <1>1, <1>2 DEF Good, TypeGood
<1>4. QueueGood(queue, rpc)' /\ FlightGood(running, rpc)'
  BY <1>1 DEF Good, QueueGood, FlightGood, Entries, Distinct
<1>5. ContainerGood(container, rpc, startPromise, session, on)'
  BY <1>1, <1>2 DEF Good, TypeGood, ContainerGood
<1>6. StageGood(container, startPromise, session)'
  <2>1. \A t \in Request : container'[t] = container[t] \/ t = s
    BY <1>2
  <2>2. session \in Request \cup {None} /\ dtarget \in Request \cup {None}
    BY DEF Good, TypeGood, StageGood
  <2> QED BY <1>1, <1>2, <2>1, <2>2 DEF Good, StageGood
<1> QED BY <1>1, <1>3, <1>4, <1>5, <1>6 DEF Good

LEMMA ReplacedThenStartInv ==
  ASSUME SessionInv, NEW r \in Request, ReplacedThenStart(r)
  PROVE  SessionInv'
<1> USE RequestAssumption DEF SessionInv
<1>1. /\ rpc[r] = "replacing" /\ container[on[r]] \in {"gone", "left"}
      /\ startPromise' = r /\ container' = [container EXCEPT ![r] = "booting"]
      /\ rpc' = [rpc EXCEPT ![r] = "starting"] /\ on' = [on EXCEPT ![r] = r]
      /\ UNCHANGED <<prio, rkey, queue, running, session, disposed, dpc, dtarget>>
  BY DEF ReplacedThenStart, StartSession, Removed, disposerVars
<1>2. container' \in [Request -> ContainerState] /\ container'[r] = "booting"
      /\ \A t \in Request \ {r} : container'[t] = container[t]
  BY <1>1 DEF Good, TypeGood, ContainerState
<1>3. rpc' \in [Request -> RequestState] /\ rpc'[r] = "starting"
      /\ \A t \in Request \ {r} : rpc'[t] = rpc[t]
  BY <1>1 DEF Good, TypeGood, RequestState, InFlight
<1>4. on' \in [Request -> Request \cup {None}] /\ on'[r] = r
      /\ \A t \in Request \ {r} : on'[t] = on[t]
  BY <1>1 DEF Good, TypeGood
<1>5. session = None /\ dpc \in {"idle", "done"} /\ container[r] = "none"
  BY <1>1 DEF Good, ContainerGood
<1>6. \A t \in Request \ {r} : rpc[t] \notin InFlight
  BY <1>1 DEF Good, FlightGood, InFlight
<1>7. TypeGood(container, rpc, startPromise, session, on)'
  BY <1>1, <1>2, <1>3, <1>4 DEF Good, TypeGood
<1>8. QueueGood(queue, rpc)'
  BY <1>1, <1>3 DEF Good, QueueGood, Entries, Distinct
<1>9. FlightGood(running, rpc)'
  BY <1>1, <1>3, <1>6 DEF Good, FlightGood, InFlight
<1>10. ContainerGood(container, rpc, startPromise, session, on)'
  <2>1. \A t \in Request : container[t] \in {"none", "gone", "left", "removing"}
    BY <1>5, <1>1, <1>6 DEF Good, ContainerGood, TypeGood, ContainerState, InFlight
  <2>2. \A t \in Request : container[t] = "removing" => on[r] = t
    BY <1>5, <1>6 DEF Good, ContainerGood, InFlight
  <2>3. \A t \in Request : container[t] # "removing"
    BY <1>1, <2>2
  <2> QED BY <2>1, <2>3, <1>1, <1>2, <1>3, <1>4, <1>5, <1>6 DEF Good, ContainerGood, InFlight
<1>11. StageGood(container, startPromise, session)'
  BY <1>1, <1>5 DEF Good, StageGood
<1> QED BY <1>1, <1>7, <1>8, <1>9, <1>10, <1>11 DEF Good

LEMMA SessionStartsInv ==
  ASSUME SessionInv, NEW s \in Request, SessionStarts(s)
  PROVE  SessionInv'
<1> USE RequestAssumption DEF SessionInv
<1>1. /\ startPromise = s /\ rpc[s] = "starting"
      /\ container' = [container EXCEPT ![s] = "up"] /\ session' = s
      /\ startPromise' = None /\ rpc' = [rpc EXCEPT ![s] = "rendering"]
      /\ UNCHANGED <<prio, rkey, queue, running, on, disposed, dpc, dtarget>>
  BY DEF SessionStarts, disposerVars
<1>2. container' \in [Request -> ContainerState] /\ container'[s] = "up"
      /\ \A t \in Request \ {s} : container'[t] = container[t]
  BY <1>1 DEF Good, TypeGood, ContainerState
<1>3. rpc' \in [Request -> RequestState] /\ rpc'[s] = "rendering"
      /\ \A t \in Request \ {s} : rpc'[t] = rpc[t]
  BY <1>1 DEF Good, TypeGood, RequestState, InFlight
<1>4. session = None /\ on[s] = s /\ container[s] = "booting" /\ dpc # "closing"
  BY <1>1 DEF Good, ContainerGood, StageGood
<1>5. \A t \in Request \ {s} : rpc[t] \notin InFlight
  BY <1>1 DEF Good, FlightGood, InFlight
<1>6. TypeGood(container, rpc, startPromise, session, on)'
  BY <1>1, <1>2, <1>3 DEF Good, TypeGood
<1>7. QueueGood(queue, rpc)'
  BY <1>1, <1>3 DEF Good, QueueGood, Entries, Distinct
<1>8. FlightGood(running, rpc)'
  BY <1>1, <1>3, <1>5 DEF Good, FlightGood, InFlight
<1>9. ContainerGood(container, rpc, startPromise, session, on)'
  <2>1. \A t \in Request \ {s} : container[t] \in {"none", "gone", "left"}
    BY <1>1, <1>4, <1>5 DEF Good, ContainerGood, TypeGood, ContainerState, InFlight
  <2> QED BY <2>1, <1>1, <1>2, <1>3, <1>4, <1>5 DEF Good, ContainerGood, InFlight
<1>10. StageGood(container, startPromise, session)'
  BY <1>1, <1>2, <1>4 DEF Good, StageGood
<1> QED BY <1>1, <1>6, <1>7, <1>8, <1>9, <1>10 DEF Good

(* A session is disposed of (when it is up) while nothing starts and the   *)
(* queue is empty: the common end of the three steps of dispose().         *)
LEMMA DisposeSessionInv ==
  ASSUME NEW st, TypeGood(container, st, startPromise, session, on), FlightGood(running, st),
         ContainerGood(container, st, startPromise, session, on),
         StageGood(container, startPromise, session),
         \A r \in Request : st[r] # "queued", startPromise = None,
         dpc = "closing" => container[dtarget] \in {"gone", "left"},
         NEW s \in Request \cup {None}, session \in {s, None}, DisposeSession(s),
         session' \in {session, None}, session' # None => s # None /\ container[s] = "up",
         disposed' = TRUE, queue' = <<>>, rpc' = st,
         UNCHANGED <<prio, rkey, running, startPromise, on>>
  PROVE  SessionInv'
<1> USE RequestAssumption DEF SessionInv
<1>1. TypeGood(container, rpc, startPromise, session, on)'
  BY DEF TypeGood, DisposeSession, ContainerState
<1>2. QueueGood(queue, rpc)'
  <2>1. <<>> \in Seq(Request) /\ DOMAIN <<>> = {}
    BY EmptySeq
  <2> QED BY <2>1 DEF QueueGood, Entries, Distinct
<1>3. FlightGood(running, rpc)'
  BY DEF FlightGood
<1>4. CASE s # None /\ container[s] = "up"
  <2>1. /\ container' = [container EXCEPT ![s] = "removing"]
        /\ dpc' = "closing" /\ dtarget' = s /\ session = s /\ s \in Request
    BY <1>4 DEF DisposeSession, ContainerGood
  <2>2. container'[s] = "removing" /\ \A t \in Request \ {s} : container'[t] = container[t]
    BY <2>1 DEF TypeGood
  <2>3. \A r \in Request : st[r] # "replacing"
    BY <2>1 DEF ContainerGood
  <2>4. ContainerGood(container, rpc, startPromise, session, on)'
    BY <1>4, <2>1, <2>2, <2>3 DEF ContainerGood
  <2>5. StageGood(container, startPromise, session)'
    BY <2>1, <2>2 DEF StageGood
  <2> QED BY <1>1, <1>2, <1>3, <2>4, <2>5 DEF Good
<1>5. CASE ~(s # None /\ container[s] = "up")
  <2>1. container' = container /\ dpc' = "done" /\ dtarget' = None /\ session' = None
    BY <1>5 DEF DisposeSession
  <2>2. \A t \in Request : container[t] # "up"
    BY <1>5 DEF ContainerGood
  <2>3. \A t \in Request : container[t] = "removing" =>
              \E r \in Request : st[r] = "replacing" /\ on[r] = t
    BY DEF ContainerGood
  <2>4. ContainerGood(container, rpc, startPromise, session, on)'
    BY <2>1, <2>2, <2>3 DEF ContainerGood
  <2>5. StageGood(container, startPromise, session)'
    BY <2>1 DEF StageGood
  <2> QED BY <1>1, <1>2, <1>3, <2>4, <2>5 DEF Good
<1> QED BY <1>4, <1>5

LEMMA DisposingInv ==
  ASSUME SessionInv, Disposing
  PROVE  SessionInv'
<1> USE RequestAssumption
<1>1. CASE Dispose
  <2> DEFINE st == [r \in Request |-> IF r \in Entries(queue) THEN "rejected" ELSE rpc[r]]
  <2>1. /\ dpc = "idle" /\ disposed' = TRUE /\ queue' = <<>> /\ rpc' = st
        /\ UNCHANGED <<prio, rkey, running, startPromise, on>>
    BY <1>1 DEF Dispose
  <2>2. /\ st \in [Request -> RequestState]
        /\ \A r \in Request : st[r] = IF rpc[r] = "queued" THEN "rejected" ELSE rpc[r]
    BY DEF SessionInv, Good, TypeGood, QueueGood, RequestState, Settled
  <2> HIDE DEF st
  <2>3. TypeGood(container, st, startPromise, session, on)
    BY <2>2 DEF SessionInv, Good, TypeGood
  <2>4. FlightGood(running, st)
    BY <2>2 DEF SessionInv, Good, FlightGood, InFlight
  <2>5. ContainerGood(container, st, startPromise, session, on)
    <3>1. \A r \in Request : rpc[r] # "queued" => st[r] = rpc[r]
      BY <2>2
    <3>2. \A r \in Request : rpc[r] = "queued" => st[r] = "rejected"
      BY <2>2
    <3> QED BY <3>1, <3>2 DEF SessionInv, Good, ContainerGood
  <2>6. StageGood(container, startPromise, session)
    BY DEF SessionInv, Good
  <2>7. \A r \in Request : st[r] # "queued"
    BY <2>2
  <2>8. CASE StartIsPending
    <3>1. /\ dpc' = "awaitStart" /\ dtarget' = startPromise /\ startPromise \in Request
          /\ session' = session /\ container' = container /\ session = None
      BY <1>1, <2>8, <2>5, <2>3 DEF Dispose, StartIsPending, TypeGood, ContainerGood
    <3>2. \A r \in Request : st[r] # "replacing"
      BY <3>1, <2>4, <2>5 DEF FlightGood, ContainerGood, InFlight
    <3>3. TypeGood(container, rpc, startPromise, session, on)' /\ FlightGood(running, rpc)'
      BY <2>1, <2>3, <2>4, <3>1 DEF TypeGood, FlightGood
    <3>4. QueueGood(queue, rpc)'
      <4>1. <<>> \in Seq(Request) /\ DOMAIN <<>> = {}
        BY EmptySeq
      <4> QED BY <4>1, <2>1, <2>7 DEF QueueGood, Entries, Distinct
    <3>5. ContainerGood(container, rpc, startPromise, session, on)'
      BY <2>1, <2>5, <3>1, <3>2 DEF ContainerGood
    <3>6. StageGood(container, startPromise, session)'
      BY <2>1, <2>6, <3>1 DEF StageGood
    <3> QED BY <2>1, <3>3, <3>4, <3>5, <3>6 DEF SessionInv, Good
  <2>9. CASE ~StartIsPending
    <3>1. DisposeSession(session) /\ session' = None /\ startPromise = None
      BY <1>1, <2>9 DEF Dispose, StartIsPending
    <3>2. session \in Request \cup {None}
      BY <2>3 DEF TypeGood
    <3> QED BY <2>1, <2>3, <2>4, <2>5, <2>6, <2>7, <3>1, <3>2, DisposeSessionInv
  <2> QED BY <2>8, <2>9
<1>2. ASSUME DisposeAfterStart \/ DisposeAfterRemoval
      PROVE  SessionInv'
  <2>1. /\ UNCHANGED <<prio, rkey, queue, running, disposed, startPromise, rpc, on>>
        /\ dpc \in {"awaitStart", "closing"}
    BY <1>2 DEF DisposeAfterStart, DisposeAfterRemoval
  <2>2. /\ TypeGood(container, rpc, startPromise, session, on) /\ FlightGood(running, rpc)
        /\ ContainerGood(container, rpc, startPromise, session, on)
        /\ StageGood(container, startPromise, session) /\ QueueGood(queue, rpc)
    BY DEF SessionInv, Good
  <2>3. disposed = TRUE
    BY <2>1, <2>2 DEF StageGood
  <2>4. queue = <<>> /\ \A r \in Request : rpc[r] # "queued"
    <3>1. queue = <<>> /\ DOMAIN <<>> = {}
      BY <2>2, <2>3, EmptySeq DEF QueueGood
    <3> QED BY <2>2, <3>1 DEF QueueGood, Entries
  <2>5. startPromise = None /\ (dpc = "closing" => container[dtarget] \in {"gone", "left"})
    BY <1>2, <2>2 DEF DisposeAfterStart, DisposeAfterRemoval, Removed, StageGood
  <2>6. disposed' = TRUE /\ queue' = <<>> /\ rpc' = rpc
        /\ UNCHANGED <<prio, rkey, running, startPromise, on>>
    BY <2>1, <2>3, <2>4
  <2>7. session \in Request \cup {None} /\ dtarget \in Request \cup {None}
    BY <2>2 DEF TypeGood, StageGood
  <2>8. CASE DisposeSession(session) /\ session' = None
    BY <2>2, <2>4, <2>5, <2>6, <2>7, <2>8, DisposeSessionInv
  <2>9. CASE dtarget # None /\ container[dtarget] = "up" /\ DisposeSession(dtarget) /\ UNCHANGED session
    <3>1. session = dtarget
      BY <2>9, <2>2, <2>7 DEF ContainerGood
    <3> QED BY <2>2, <2>4, <2>5, <2>6, <2>7, <2>9, <3>1, DisposeSessionInv
  <2>10. DisposeAfterStart => dtarget # None
    BY <2>2 DEF DisposeAfterStart, StageGood
  <2> QED BY <1>2, <2>8, <2>9, <2>10 DEF DisposeAfterStart, DisposeAfterRemoval
<1> QED BY <1>1, <1>2 DEF Disposing

-----------------------------------------------------------------------------
LEMMA SessionInvStutter == SessionInv /\ UNCHANGED vars => SessionInv'
BY DEF SessionInv, Good, TypeGood, QueueGood, FlightGood, ContainerGood, StageGood,
       Entries, Distinct, vars

(* The invariant holds of every behaviour. *)
THEOREM SessionInvariant == Spec => []SessionInv
<1>1. SessionInv /\ [Next]_vars => SessionInv'
  <2> SUFFICES ASSUME SessionInv, [Next]_vars PROVE SessionInv'
    OBVIOUS
  <2>1. ASSUME NEW r \in Request, RenderVi(r) PROVE SessionInv'
    BY <2>1, RenderViInv
  <2>2. ASSUME NEW r \in Request, ReplacedThenStart(r) PROVE SessionInv'
    BY <2>2, ReplacedThenStartInv
  <2>3. ASSUME NEW r \in Request, RenderEnds(r) PROVE SessionInv'
    <3>1. PICK how \in Settled : Finish(r, container, how)
      BY <2>3 DEF RenderEnds
    <3>2. "none" \in {"none", "left"}
      OBVIOUS
    <3> QED BY <2>3, <3>1, <3>2, FinishInv DEF RenderEnds
  <2>4. ASSUME NEW s \in Request, SessionStarts(s) PROVE SessionInv'
    BY <2>4, SessionStartsInv
  <2>5. ASSUME NEW s \in Request, SessionStartFails(s) PROVE SessionInv'
    <3>1. "rejected" \in Settled
      BY DEF Settled
    <3>2. PICK e \in {"none", "left"} : Finish(s, [container EXCEPT ![s] = e], "rejected")
      BY <2>5 DEF SessionStartFails
    <3> QED BY <2>5, <3>1, <3>2, FinishInv DEF SessionStartFails
  <2>6. ASSUME NEW s \in Request, RemovalEnds(s) PROVE SessionInv'
    BY <2>6, RemovalEndsInv
  <2>7. CASE Disposing
    BY <2>7, DisposingInv
  <2>8. CASE UNCHANGED vars
    BY <2>8, SessionInvStutter
  <2> QED BY <2>1, <2>2, <2>3, <2>4, <2>5, <2>6, <2>7, <2>8 DEF Next, AtRest
<1> QED BY <1>1, InitSessionInv, PTL DEF Spec

(* Every variable keeps its type. *)
THEOREM SessionTyping == Spec => []TypeOK
<1>1. SessionInv => TypeOK
  BY DEF SessionInv, Good, TypeGood, QueueGood, FlightGood, StageGood, TypeOK,
         ContainerState, RequestState
<1> QED BY <1>1, SessionInvariant, PTL

(* One request at a time is past the queue, and `running` says so. *)
THEOREM SessionOneRender == Spec => []OneRenderAtATime
<1>1. SessionInv => OneRenderAtATime
  BY DEF SessionInv, Good, FlightGood, OneRenderAtATime, Requests
<1> QED BY <1>1, SessionInvariant, PTL

(* Of two containers that exist one is left over from a failed command. *)
THEOREM SessionOneContainer == Spec => []OneContainerAtATime
<1>1. SessionInv => OneContainerAtATime
  <2> SUFFICES ASSUME SessionInv, NEW s \in Request, NEW t \in Request,
                      container[s] \in {"booting", "up", "removing"},
                      container[t] \in {"booting", "up", "removing"}
               PROVE  s = t
    BY DEF OneContainerAtATime, Exists
  <2>1. CASE dpc = "closing"
    <3>1. \A u \in Request : container[u] \in {"booting", "up", "removing"} => u = dtarget
      BY <2>1, RequestAssumption DEF SessionInv, Good, ContainerGood, StageGood
    <3> QED BY <3>1
  <2>2. CASE dpc # "closing"
    <3>1. ASSUME NEW u \in Request, container[u] = "removing"
          PROVE  \A v \in Request : container[v] \in {"booting", "up", "removing"} => v = u
      <4>1. PICK r \in Request : rpc[r] = "replacing" /\ on[r] = u
        BY <2>2, <3>1 DEF SessionInv, Good, ContainerGood
      <4>2. session = None /\ \A v \in Request : rpc[v] \in InFlight => v = r
        BY <4>1 DEF SessionInv, Good, ContainerGood, FlightGood, InFlight
      <4> QED BY <4>1, <4>2, <2>2, RequestAssumption DEF SessionInv, Good, ContainerGood, InFlight
    <3>2. CASE container[s] # "removing" /\ container[t] # "removing"
      BY <3>2, RequestAssumption DEF SessionInv, Good, ContainerGood
    <3> QED BY <3>1, <3>2
  <2> QED BY <2>1, <2>2
<1> QED BY <1>1, SessionInvariant, PTL

(* A render runs on an up container of its own runtime, until dispose().   *)
THEOREM SessionRuntimes == Spec => []RendersOnItsRuntime
<1>1. SessionInv => RendersOnItsRuntime
  BY DEF SessionInv, Good, ContainerGood, RendersOnItsRuntime, Requests
<1> QED BY <1>1, SessionInvariant, PTL

(* The queue holds every waiting request once and is empty after disposal. *)
THEOREM SessionQueue == Spec => []QueueAccounted
<1>1. SessionInv => QueueAccounted
  <2> SUFFICES ASSUME SessionInv PROVE QueueAccounted
    OBVIOUS
  <2>1. \A x \in Entries(queue) : x \in Request
    BY ElementOfSeq, LenProperties DEF SessionInv, Good, QueueGood, Entries
  <2>2. Entries(queue) = Requests({"queued"})
    BY <2>1 DEF SessionInv, Good, QueueGood, Requests
  <2> QED BY <2>2 DEF SessionInv, Good, QueueGood, Distinct, QueueAccounted
<1> QED BY <1>1, SessionInvariant, PTL

-----------------------------------------------------------------------------
OneRuntime == \A r, s \in Request : rkey[r] = rkey[s]

(* With one runtime nothing is ever replaced, and a dispose() that is over  *)
(* has left neither a live session nor a pending start.                     *)
Reclaimed == OneRuntime =>
    /\ \A r \in Request : rpc[r] # "replacing"
    /\ dpc = "done" => session = None /\ startPromise = None

(* pump() replaces no session of the runtime it is asked for, and once the  *)
(* manager is disposed it starts and publishes nothing.                     *)
LEMMA PumpReplacesNone ==
  ASSUME NEW q \in Seq(Request), NEW busy, NEW c, NEW st \in [Request -> RequestState],
         Pump(q, busy, c, st), OneRuntime, session \in Request \cup {None},
         prio \in [Request -> {"interactive", "warm"}],
         \A r \in Request : st[r] # "replacing"
  PROVE  /\ \A r \in Request : rpc'[r] # "replacing"
         /\ disposed => UNCHANGED session /\ startPromise' \in {startPromise, None}
<1>1. CASE NothingToPump(q, busy)
  BY <1>1 DEF Pump
<1>2. CASE ~NothingToPump(q, busy)
  <2>1. q # <<>> /\ ~disposed BY <1>2 DEF NothingToPump
  <2> DEFINE r == q[selectNextRender(q)]
  <2>2. r \in Request BY <2>1, SelectNext, ElementOfSeq, LenProperties
  <2>3. EnsureSession(r, c, st) BY <1>2 DEF Pump
  <2>4. session # None => sessionKey = rkey[r] BY <2>2 DEF sessionKey, OneRuntime
  <2>5. rpc' \in {[st EXCEPT ![r] = "rendering"], [st EXCEPT ![r] = "starting"]}
    BY <2>3, <2>4 DEF EnsureSession, RenderOnLive, StartSession
  <2> QED BY <2>1, <2>2, <2>5
<1> QED BY <1>1, <1>2

(* Every step keeps Reclaimed. *)
LEMMA ReclaimedStep == SessionInv /\ Reclaimed /\ [Next]_vars => Reclaimed'
<1> SUFFICES ASSUME SessionInv, Reclaimed, [Next]_vars, OneRuntime'
             PROVE  /\ \A r \in Request : rpc'[r] # "replacing"
                    /\ dpc' = "done" => session' = None /\ startPromise' = None
  BY DEF Reclaimed
<1>1. UNCHANGED <<prio, rkey>>
  BY DEF Next, RenderVi, ReplacedThenStart, RenderEnds, SessionStarts, SessionStartFails,
         RemovalEnds, Disposing, Dispose, DisposeAfterStart, DisposeAfterRemoval, AtRest, vars
<1>2. OneRuntime /\ (\A r \in Request : rpc[r] # "replacing")
      /\ (dpc = "done" => session = None /\ startPromise = None)
  BY <1>1 DEF OneRuntime, Reclaimed
<1>3. /\ TypeGood(container, rpc, startPromise, session, on) /\ QueueGood(queue, rpc)
      /\ ContainerGood(container, rpc, startPromise, session, on)
      /\ StageGood(container, startPromise, session)
  BY DEF SessionInv, Good
<1>4. ASSUME NEW r \in Request, NEW c, NEW how \in Settled, Finish(r, c, how), UNCHANGED disposerVars
      PROVE  /\ \A s \in Request : rpc'[s] # "replacing"
             /\ dpc' = "done" => session' = None /\ startPromise' = None
  <2>1. [rpc EXCEPT ![r] = how] \in [Request -> RequestState]
    BY <1>3 DEF TypeGood, RequestState, Settled
  <2>2. \A s \in Request : [rpc EXCEPT ![r] = how][s] # "replacing"
    BY <1>2, <1>3 DEF TypeGood, Settled
  <2>3. /\ \A s \in Request : rpc'[s] # "replacing"
        /\ disposed => UNCHANGED session /\ startPromise' \in {startPromise, None}
    BY <1>2, <1>3, <1>4, <2>1, <2>2, PumpReplacesNone DEF Finish, TypeGood, QueueGood, StageGood
  <2> QED BY <1>2, <1>3, <1>4, <2>3 DEF disposerVars, StageGood
<1>5. ASSUME NEW r \in Request, RenderVi(r)
      PROVE  /\ \A s \in Request : rpc'[s] # "replacing"
             /\ dpc' = "done" => session' = None /\ startPromise' = None
  <2>1. CASE disposed
    BY <1>2, <1>3, <1>5, <2>1 DEF RenderVi, TypeGood, disposerVars
  <2>2. CASE ~disposed
    <3>1. dpc' # "done" BY <1>3, <1>5, <2>2 DEF RenderVi, disposerVars, StageGood
    <3>2. Append(queue, r) \in Seq(Request) BY <1>3, AppendProperties DEF QueueGood
    <3>3. [rpc EXCEPT ![r] = "queued"] \in [Request -> RequestState]
          /\ \A s \in Request : [rpc EXCEPT ![r] = "queued"][s] # "replacing"
      BY <1>2, <1>3 DEF TypeGood, RequestState
    <3>4. Pump(Append(queue, r), running, container, [rpc EXCEPT ![r] = "queued"])
      BY <1>5, <2>2 DEF RenderVi
    <3>5. \A s \in Request : rpc'[s] # "replacing"
      BY <1>2, <1>3, <3>2, <3>3, <3>4, PumpReplacesNone DEF TypeGood, StageGood
    <3> QED BY <3>1, <3>5
  <2> QED BY <2>1, <2>2
<1>6. ASSUME NEW r \in Request, SessionStarts(r)
      PROVE  /\ \A s \in Request : rpc'[s] # "replacing"
             /\ dpc' = "done" => session' = None /\ startPromise' = None
  BY <1>2, <1>3, <1>6, RequestAssumption DEF SessionStarts, TypeGood, disposerVars
<1>7. CASE Dispose
  <2>1. \A r \in Request : rpc'[r] # "replacing" BY <1>2, <1>7 DEF Dispose
  <2>2. dpc' = "done" => session' = None /\ startPromise' = None
    BY <1>7 DEF Dispose, StartIsPending
  <2> QED BY <2>1, <2>2
<1>8. CASE DisposeAfterStart
  <2>1. UNCHANGED rpc /\ UNCHANGED startPromise /\ startPromise = None
    BY <1>3, <1>8 DEF DisposeAfterStart, StageGood
  <2>2. dpc' = "done" => session' = None
    BY <1>3, <1>8 DEF DisposeAfterStart, DisposeSession, StageGood
  <2> QED BY <1>2, <2>1, <2>2
<1>9. CASE DisposeAfterRemoval
  BY <1>2, <1>3, <1>9 DEF DisposeAfterRemoval, StageGood
<1>10. ASSUME UNCHANGED <<rpc, session, startPromise, dpc>>
       PROVE  /\ \A s \in Request : rpc'[s] # "replacing"
              /\ dpc' = "done" => session' = None /\ startPromise' = None
  BY <1>2, <1>10
<1>11. ASSUME NEW r \in Request, SessionStartFails(r) \/ RenderEnds(r)
       PROVE  /\ \A s \in Request : rpc'[s] # "replacing"
              /\ dpc' = "done" => session' = None /\ startPromise' = None
  <2>1. UNCHANGED disposerVars /\ \E c, how : how \in Settled /\ Finish(r, c, how)
    BY <1>11 DEF SessionStartFails, RenderEnds, Settled
  <2> QED BY <1>4, <2>1
<1> QED
  BY <1>2, <1>5, <1>6, <1>7, <1>8, <1>9, <1>10, <1>11
  DEF Next, Disposing, AtRest, ReplacedThenStart, RemovalEnds, vars, disposerVars

(* When all requests ask for one runtime, all that dispose() leaves behind  *)
(* is what a failed docker command left, whatever it found starting,        *)
(* rendering or being removed.                                              *)
THEOREM SessionDisposeReclaims == Spec => []DisposeReclaims
<1>1. Init => Reclaimed BY DEF Init, Reclaimed
<1>2. SessionInv /\ Reclaimed => DisposeReclaims
  BY RequestAssumption
  DEF SessionInv, Good, ContainerGood, Reclaimed, OneRuntime, DisposeReclaims, Exists
<1> QED BY <1>1, <1>2, ReclaimedStep, SessionInvariant, PTL DEF Spec

-----------------------------------------------------------------------------
(* What pump() starts overtakes no entry of the queue it is called with.   *)
LEMMA PumpOvertakesNone ==
  ASSUME NEW q, NEW busy, NEW c, NEW st, Pump(q, busy, c, st),
         QueueGood(q, st), st \in [Request -> RequestState],
         prio \in [Request -> {"interactive", "warm"}],
         NEW r \in Request, NEW s \in Request, st[r] = "queued", st[s] = "queued",
         rpc'[r] \in InFlight, rpc'[s] = "queued"
  PROVE  /\ ~(prio[r] = "warm" /\ prio[s] = "interactive")
         /\ prio[r] = prio[s] =>
              ~\E a, b \in DOMAIN q : a < b /\ q[a] = s /\ q[b] = r
<1> DEFINE i == selectNextRender(q)
<1>1. ~NothingToPump(q, busy)
  BY DEF Pump, InFlight
<1>2. q # <<>> /\ q \in Seq(Request) /\ Distinct(q) /\ s \in Entries(q)
  BY <1>1 DEF NothingToPump, QueueGood
<1>3. /\ i \in DOMAIN q
      /\ \A j \in DOMAIN q : prio[q[j]] = "interactive" => prio[q[i]] = "interactive" /\ i <= j
      /\ prio[q[i]] = "warm" => i = 1
  BY <1>2, SelectNext
<1>4. DOMAIN q = 1..Len(q) /\ Len(q) \in Nat /\ q[i] \in Request
  BY <1>2, <1>3, LenProperties, ElementOfSeq
<1> HIDE DEF i
<1>5. EnsureSession(q[i], c, st)
  BY <1>1 DEF Pump, i
<1>6. \E ps \in InFlight : rpc' = [st EXCEPT ![q[i]] = ps]
  BY <1>5 DEF EnsureSession, RenderOnLive, StartSession, InFlight
<1>7. r = q[i]
  BY <1>4, <1>6 DEF InFlight
<1>8. ~(prio[r] = "warm" /\ prio[s] = "interactive")
  BY <1>2, <1>3, <1>7 DEF Entries
<1>9. ASSUME prio[r] = prio[s], NEW a \in DOMAIN q, NEW b \in DOMAIN q,
             a < b, q[a] = s, q[b] = r
      PROVE  FALSE
  <2>1. b = i
    BY <1>2, <1>3, <1>7, <1>9 DEF Distinct
  <2>2. CASE prio[r] = "interactive"
    <3>1. i <= a /\ a < i
      BY <1>3, <1>9, <2>1, <2>2
    <3>2. a \in Nat /\ i \in Nat
      BY <1>3, <1>4
    <3> QED BY <3>1, <3>2
  <2>3. CASE prio[r] = "warm"
    BY <1>3, <1>4, <1>7, <1>9, <2>1, <2>3
  <2> QED BY <2>2, <2>3
<1> QED BY <1>8, <1>9

LEMMA StepOvertakesNone ==
  ASSUME SessionInv, [Next]_vars, NEW r \in Requests({"queued"}), NEW s \in Requests({"queued"}),
         rpc'[r] \in InFlight, rpc'[s] = "queued"
  PROVE  ~Overtakes(r, s)
<1>1. /\ r \in Request /\ s \in Request /\ rpc[r] = "queued" /\ rpc[s] = "queued"
      /\ rpc \in [Request -> RequestState] /\ prio \in [Request -> {"interactive", "warm"}]
      /\ QueueGood(queue, rpc)
  BY DEF Requests, SessionInv, Good, TypeGood, StageGood
<1>2. ASSUME NEW t \in Request, RenderVi(t) PROVE ~Overtakes(r, s)
  <2> DEFINE q == Append(queue, t)
             st == [rpc EXCEPT ![t] = "queued"]
  <2>1. Pump(q, running, container, st) /\ ~disposed /\ rpc[t] = "idle"
    BY <1>1, <1>2 DEF RenderVi, InFlight
  <2>2. /\ st \in [Request -> RequestState] /\ st[t] = "queued"
        /\ \A u \in Request \ {t} : st[u] = rpc[u]
    BY <1>1 DEF RequestState
  <2>3. q \in Seq(Request) /\ Entries(q) = Entries(queue) \cup {t} /\ Distinct(q)
    BY <1>1, <2>1, AppendEntries DEF QueueGood
  <2>4. /\ Len(queue) \in Nat /\ DOMAIN queue = 1..Len(queue)
        /\ DOMAIN q = 1..(Len(queue) + 1) /\ \A a \in DOMAIN queue : q[a] = queue[a]
    BY <1>1, <2>3, LenProperties, AppendProperties DEF QueueGood
  <2> HIDE DEF q, st
  <2>5. QueueGood(q, st)
    BY <1>1, <2>1, <2>2, <2>3 DEF QueueGood
  <2>6. /\ ~(prio[r] = "warm" /\ prio[s] = "interactive")
        /\ prio[r] = prio[s] => ~\E a, b \in DOMAIN q : a < b /\ q[a] = s /\ q[b] = r
    <3>1. st[r] = "queued" /\ st[s] = "queued"
      BY <1>1, <2>2
    <3> QED BY <1>1, <2>1, <2>2, <2>5, <3>1, PumpOvertakesNone
  <2>7. \A a \in DOMAIN queue : a \in DOMAIN q /\ q[a] = queue[a]
    BY <2>4
  <2> QED BY <2>6, <2>7 DEF Overtakes
<1>3. ASSUME NEW t \in Request, NEW how \in Settled, NEW c, Finish(t, c, how),
             rpc[t] \in {"starting", "rendering"}
      PROVE  ~Overtakes(r, s)
  <2> DEFINE st == [rpc EXCEPT ![t] = how]
  <2>1. /\ st \in [Request -> RequestState] /\ st[t] \in {"resolved", "rejected"}
        /\ \A u \in Request \ {t} : st[u] = rpc[u]
    BY <1>1 DEF RequestState, Settled
  <2>2. QueueGood(queue, st)
    BY <1>1, <1>3, <2>1 DEF QueueGood
  <2>3. st[r] = "queued" /\ st[s] = "queued"
    BY <1>1, <1>3, <2>1
  <2>4. Pump(queue, FALSE, c, st)
    BY <1>3 DEF Finish
  <2> HIDE DEF st
  <2>5. /\ ~(prio[r] = "warm" /\ prio[s] = "interactive")
        /\ prio[r] = prio[s] =>
             ~\E a, b \in DOMAIN queue : a < b /\ queue[a] = s /\ queue[b] = r
    <3> DEFINE q == queue
               busy == FALSE
    <3>1. QueueGood(q, st) /\ Pump(q, busy, c, st)
      BY <2>2, <2>4
    <3> HIDE DEF q, busy
    <3>2. /\ ~(prio[r] = "warm" /\ prio[s] = "interactive")
          /\ prio[r] = prio[s] => ~\E a, b \in DOMAIN q : a < b /\ q[a] = s /\ q[b] = r
      BY <1>1, <2>1, <2>3, <3>1, PumpOvertakesNone
    <3> QED BY <3>2 DEF q
  <2> QED BY <2>5 DEF Overtakes
<1>4. CASE rpc'[r] = rpc[r]
  BY <1>1, <1>4 DEF InFlight
<1>5. ASSUME NEW t \in Request, ReplacedThenStart(t) \/ SessionStarts(t) PROVE rpc'[r] = rpc[r]
  BY <1>1, <1>5 DEF ReplacedThenStart, StartSession, SessionStarts
<1>6. ASSUME NEW t \in Request, SessionStartFails(t) PROVE ~Overtakes(r, s)
  <2>1. "rejected" \in Settled
    BY DEF Settled
  <2> QED BY <1>3, <1>6, <2>1 DEF SessionStartFails
<1>7. ASSUME NEW t \in Request, RenderEnds(t) PROVE ~Overtakes(r, s)
  BY <1>3, <1>7 DEF RenderEnds
<1>8. CASE Dispose
  BY <1>1, <1>8 DEF Dispose, InFlight
<1>9. ASSUME \/ \E t \in Request : RemovalEnds(t)
             \/ DisposeAfterStart \/ DisposeAfterRemoval \/ UNCHANGED vars
      PROVE  rpc' = rpc
  BY <1>9 DEF RemovalEnds, DisposeAfterStart, DisposeAfterRemoval, vars
<1> QED BY <1>2, <1>4, <1>5, <1>6, <1>7, <1>8, <1>9 DEF Next, Disposing, AtRest

(* No request is started past one that should go first. *)
THEOREM SessionNoOvertaking == Spec => NoOvertaking
<1>1. SessionInv /\ [Next]_vars =>
        [\A r, s \in Requests({"queued"}) :
           (rpc'[r] \in InFlight /\ rpc'[s] = "queued") => ~Overtakes(r, s)]_vars
  BY StepOvertakesNone
<1> QED BY <1>1, SessionInvariant, PTL DEF Spec, NoOvertaking

-----------------------------------------------------------------------------
(* The session manager implements the service its callers see.             *)

(* The request served is the one in flight. *)
LEMMA Served ==
  ASSUME NEW r \in Request, rpc[r] \in InFlight,
         \A s \in Request : rpc[s] \in InFlight => s = r
  PROVE  InService = r
<1>1. Requests(InFlight) # {}
  BY DEF Requests
<1>2. \E s \in Request : rpc[s] \in InFlight
  OBVIOUS
<1> QED BY <1>1, <1>2 DEF InService

LEMMA ServedNone ==
  ASSUME \A s \in Request : rpc[s] \notin InFlight
  PROVE  InService = None
BY DEF InService, Requests

(* The same two facts after a step. *)
LEMMA ServedNext ==
  ASSUME NEW r \in Request, rpc'[r] \in InFlight,
         \A s \in Request : rpc'[s] \in InFlight => s = r
  PROVE  InService' = r
<1>1. Requests(InFlight)' # {}
  BY DEF Requests
<1>2. \E s \in Request : rpc'[s] \in InFlight
  OBVIOUS
<1> QED BY <1>1, <1>2 DEF InService

LEMMA ServedNoneNext ==
  ASSUME \A s \in Request : rpc'[s] \notin InFlight
  PROVE  InService' = None
BY DEF InService, Requests

(* Somebody is served exactly while `running` is set. *)
LEMMA ServedWhileRunning ==
  ASSUME SessionInv
  PROVE  /\ running => InService \in Request /\ rpc[InService] \in InFlight
         /\ ~running => InService = None
         /\ \A r \in Request : rpc[r] \in InFlight => InService = r
<1>1. FlightGood(running, rpc)
  BY DEF SessionInv, Good
<1>2. \A r \in Request : rpc[r] \in InFlight => InService = r
  BY <1>1, Served DEF FlightGood
<1>3. ~running => InService = None
  BY <1>1, ServedNone DEF FlightGood
<1> QED BY <1>1, <1>2, <1>3 DEF FlightGood

(* A step that moves nobody into flight or out of it changes nobody's turn. *)
LEMMA ServedUnchanged ==
  ASSUME SessionInv, \A r \in Request : rpc'[r] \in InFlight <=> rpc[r] \in InFlight
  PROVE  InService' = InService
<1>1. running \in BOOLEAN /\ FlightGood(running, rpc)
  BY DEF SessionInv, Good, FlightGood
<1>2. CASE ~running
  <2>1. \A r \in Request : rpc'[r] \notin InFlight
    BY <1>1, <1>2 DEF FlightGood
  <2> QED BY <2>1, <1>2, ServedNoneNext, ServedWhileRunning
<1>3. CASE running
  <2>1. PICK r \in Request : rpc[r] \in InFlight
    BY <1>1, <1>3 DEF FlightGood
  <2>2. InService' = r
    BY <1>1, <2>1, ServedNext DEF FlightGood
  <2> QED BY <2>1, <2>2, ServedWhileRunning
<1> QED BY <1>1, <1>2, <1>3

(* When nothing is in flight pump() serves whoever goes before all others, *)
(* and settles nobody.                                                     *)
LEMMA PumpTakesNext ==
  ASSUME NEW q \in Seq(Request), NEW c, NEW st \in [Request -> RequestState],
         Pump(q, FALSE, c, st), \A r \in Request : st[r] \notin InFlight,
         \A r \in Request : r \in Entries(q) => st[r] = "queued",
         disposed => q = <<>>,
         prio \in [Request -> {"interactive", "warm"}]
  PROVE  /\ Service!TakeNext(q)
         /\ Requests(Settled)' = {r \in Request : st[r] \in Settled}
<1>1. CASE NothingToPump(q, FALSE)
  <2>1. q = <<>> /\ queue' = q /\ rpc' = st
    BY <1>1 DEF NothingToPump, Pump
  <2>2. InService' = None
    BY <2>1, ServedNoneNext
  <2> QED BY <2>1, <2>2 DEF Service!TakeNext, Requests
<1>2. CASE ~NothingToPump(q, FALSE)
  <2> DEFINE i == selectNextRender(q)
  <2>1. q # <<>>
    BY <1>2 DEF NothingToPump
  <2>2. /\ i \in DOMAIN q
        /\ \A j \in DOMAIN q : prio[q[j]] = "interactive" => prio[q[i]] = "interactive" /\ i <= j
        /\ prio[q[i]] = "warm" => i = 1
    BY <2>1, SelectNext
  <2>3. queue' = SpliceOut(q, i) /\ EnsureSession(q[i], c, st)
    BY <1>2 DEF Pump
  <2> HIDE DEF i
  <2>4. DOMAIN q = 1..Len(q) /\ Len(q) \in Nat /\ \A j \in DOMAIN q : q[j] \in Request
    BY LenProperties, ElementOfSeq
  <2>5. \A j \in DOMAIN q \ {i} : Service!GoesBefore(q, i, j)
    <3> TAKE j \in DOMAIN q \ {i}
    <3>1. i \in 1..Len(q) /\ j \in 1..Len(q) /\ i # j
      BY <2>2, <2>4
    <3>2. prio[q[i]] \in {"interactive", "warm"} /\ prio[q[j]] \in {"interactive", "warm"}
      BY <2>2, <2>4
    <3>3. CASE prio[q[j]] = "interactive"
      <4>1. prio[q[i]] = "interactive" /\ i <= j
        BY <2>2, <3>3
      <4>2. i < j
        BY <4>1, <3>1, <2>4
      <4> QED BY <4>1, <4>2, <3>3 DEF Service!GoesBefore
    <3>4. CASE prio[q[j]] = "warm" /\ prio[q[i]] = "interactive"
      BY <3>4 DEF Service!GoesBefore
    <3>5. CASE prio[q[j]] = "warm" /\ prio[q[i]] = "warm"
      <4>1. i < j
        BY <2>2, <2>4, <3>1, <3>5
      <4> QED BY <4>1, <3>5 DEF Service!GoesBefore
    <3> QED BY <3>2, <3>3, <3>4, <3>5
  <2>6. PICK ps \in InFlight : rpc' = [st EXCEPT ![q[i]] = ps]
    BY <2>3 DEF EnsureSession, RenderOnLive, StartSession, InFlight
  <2>7. q[i] \in Request /\ st[q[i]] = "queued"
    BY <2>2, <2>4 DEF Entries
  <2>8. rpc'[q[i]] \in InFlight /\ \A s \in Request \ {q[i]} : rpc'[s] = st[s]
    BY <2>6, <2>7
  <2>9. InService' = q[i]
    BY <2>7, <2>8, ServedNext
  <2>10. Requests(Settled)' = {r \in Request : st[r] \in Settled}
    BY <2>7, <2>8 DEF Requests, Settled, InFlight
  <2>11. queue' = SubSeq(q, 1, i - 1) \o SubSeq(q, i + 1, Len(q))
    BY <2>3 DEF SpliceOut
  <2> QED BY <2>2, <2>5, <2>9, <2>10, <2>11 DEF Service!TakeNext
<1> QED BY <1>1, <1>2

(* renderVi is the service's Ask: r is sent away, waits behind the others, *)
(* or finds the service idle and is served at once.                        *)
LEMMA RenderViAsks ==
  ASSUME SessionInv, NEW r \in Request, RenderVi(r)
  PROVE  Service!Ask(r)
<1> USE RequestAssumption
<1>1. /\ rpc[r] = "idle" /\ UNCHANGED <<prio, disposed>>
      /\ rpc \in [Request -> RequestState] /\ running \in BOOLEAN /\ disposed \in BOOLEAN
      /\ prio \in [Request -> {"interactive", "warm"}]
      /\ queue \in Seq(Request) /\ Distinct(queue) /\ (queue # <<>> => running)
      /\ \A s \in Request : s \in Entries(queue) <=> rpc[s] = "queued"
  BY DEF RenderVi, disposerVars, SessionInv, Good, TypeGood, QueueGood, FlightGood, StageGood
<1>2. r \notin Requests(Settled) \cup Service!AllOf(queue) /\ r # InService
  <2>1. r \notin Requests(Settled) /\ r \notin Entries(queue)
    BY <1>1 DEF Requests, Settled
  <2>2. r # InService
    BY <1>1, ServedWhileRunning DEF InFlight
  <2> QED BY <2>1, <2>2 DEF Service!AllOf, Entries
<1>3. CASE disposed /\ rpc' = [rpc EXCEPT ![r] = "rejected"]
           /\ UNCHANGED <<queue, running, session, startPromise, on, container>>
  <2>1. InService' = InService
    <3>1. \A s \in Request : rpc'[s] \in InFlight <=> rpc[s] \in InFlight
      BY <1>1, <1>3 DEF InFlight
    <3> QED BY <3>1, ServedUnchanged
  <2>2. Requests(Settled)' = Requests(Settled) \cup {r}
    BY <1>1, <1>3 DEF Requests, Settled
  <2> QED BY <1>1, <1>2, <1>3, <2>1, <2>2 DEF Service!Ask
<1>4. CASE ~disposed /\ Pump(Append(queue, r), running, container, [rpc EXCEPT ![r] = "queued"])
  <2> DEFINE q == Append(queue, r)
             st == [rpc EXCEPT ![r] = "queued"]
  <2>1. /\ st \in [Request -> RequestState] /\ st[r] = "queued"
        /\ \A s \in Request \ {r} : st[s] = rpc[s]
    BY <1>1 DEF RequestState
  <2>2. q \in Seq(Request) /\ Entries(q) = Entries(queue) \cup {r}
    BY <1>1, AppendEntries
  <2>3. {s \in Request : st[s] \in Settled} = Requests(Settled)
    BY <1>1, <2>1 DEF Requests, Settled
  <2>4. CASE running
    <3>1. queue' = q /\ rpc' = st
      BY <1>4, <2>4 DEF Pump, NothingToPump
    <3>2. InService' = InService
      <4>1. \A s \in Request : rpc'[s] \in InFlight <=> rpc[s] \in InFlight
        BY <1>1, <2>1, <3>1 DEF InFlight
      <4> QED BY <4>1, ServedUnchanged
    <3>3. Requests(Settled)' = Requests(Settled)
      BY <2>3, <3>1 DEF Requests
    <3>4. InService # None
      BY <2>4, ServedWhileRunning
    <3> QED BY <1>1, <1>2, <1>4, <3>1, <3>2, <3>3, <3>4 DEF Service!Ask
  <2>5. CASE ~running
    <3>1. \A s \in Request : st[s] \notin InFlight
      <4>1. \A s \in Request : rpc[s] \notin InFlight
        BY <2>5 DEF SessionInv, Good, FlightGood
      <4> QED BY <2>1, <4>1 DEF InFlight
    <3>2. \A s \in Request : s \in Entries(q) => st[s] = "queued"
      BY <1>1, <2>1, <2>2
    <3>3. Pump(q, FALSE, container, st)
      BY <1>1, <1>4, <2>5
    <3> HIDE DEF q, st
    <3>4. Service!TakeNext(q) /\ Requests(Settled)' = Requests(Settled)
      BY <1>1, <1>4, <2>1, <2>2, <2>3, <3>1, <3>2, <3>3, PumpTakesNext
    <3>5. InService = None
      BY <2>5, ServedWhileRunning
    <3> QED BY <1>1, <1>2, <1>4, <3>4, <3>5 DEF Service!Ask, q
  <2> QED BY <1>1, <2>4, <2>5
<1> QED BY <1>3, <1>4 DEF RenderVi

(* The end of the request in flight is the service's Answer. *)
LEMMA FinishAnswers ==
  ASSUME SessionInv, NEW r \in Request, rpc[r] \in InFlight, NEW how \in Settled,
         NEW c, Finish(r, c, how), UNCHANGED <<prio, disposed>>
  PROVE  Service!Answer
<1> USE RequestAssumption
<1> DEFINE st == [rpc EXCEPT ![r] = how]
<1>1. /\ rpc \in [Request -> RequestState] /\ prio \in [Request -> {"interactive", "warm"}]
      /\ queue \in Seq(Request) /\ (disposed => queue = <<>>)
      /\ \A s \in Request : s \in Entries(queue) <=> rpc[s] = "queued"
      /\ \A s \in Request : rpc[s] \in InFlight => s = r
  BY DEF SessionInv, Good, TypeGood, QueueGood, FlightGood, StageGood
<1>2. InService = r /\ r # None
  BY ServedWhileRunning
<1>3. /\ st \in [Request -> RequestState] /\ st[r] \in Settled
      /\ \A s \in Request \ {r} : st[s] = rpc[s]
  BY <1>1 DEF RequestState
<1>4. \A s \in Request : st[s] \notin InFlight
  BY <1>1, <1>3 DEF InFlight, Settled
<1>5. \A s \in Request : s \in Entries(queue) => st[s] = "queued"
  BY <1>1, <1>3 DEF InFlight
<1>6. {s \in Request : st[s] \in Settled} = Requests(Settled) \cup {r}
  BY <1>1, <1>3 DEF Requests, Settled, InFlight
<1>7. Service!TakeNext(queue) /\ Requests(Settled)' = Requests(Settled) \cup {r}
  <2> DEFINE q == queue
  <2>1. Pump(q, FALSE, c, st)
    BY DEF Finish
  <2> HIDE DEF st
  <2>2. /\ q \in Seq(Request) /\ (disposed => q = <<>>)
        /\ \A s \in Request : s \in Entries(q) => st[s] = "queued"
    BY <1>1, <1>5
  <2> HIDE DEF q
  <2>3. Service!TakeNext(q) /\ Requests(Settled)' = Requests(Settled) \cup {r}
    BY <1>1, <1>3, <1>4, <1>6, <2>1, <2>2, PumpTakesNext
  <2> QED BY <2>3 DEF q
<1> QED BY <1>2, <1>7 DEF Service!Answer

(* dispose() is the service's Close; its awaits are not seen. *)
LEMMA DisposeCloses ==
  ASSUME SessionInv, Dispose
  PROVE  Service!Close
<1>1. /\ rpc \in [Request -> RequestState] /\ ~disposed
      /\ \A s \in Request : s \in Entries(queue) <=> rpc[s] = "queued"
  BY DEF Dispose, SessionInv, Good, TypeGood, QueueGood, StageGood
<1>2. /\ disposed' = TRUE /\ queue' = <<>> /\ UNCHANGED prio
      /\ rpc' = [s \in Request |-> IF s \in Entries(queue) THEN "rejected" ELSE rpc[s]]
  BY DEF Dispose
<1>3. InService' = InService
  <2>1. \A s \in Request : rpc'[s] \in InFlight <=> rpc[s] \in InFlight
    BY <1>1, <1>2 DEF InFlight
  <2> QED BY <2>1, ServedUnchanged
<1>4. Entries(queue) \subseteq Request
  <2>1. queue \in Seq(Request)
    BY DEF SessionInv, Good, QueueGood
  <2> QED BY <2>1, LenProperties, ElementOfSeq DEF Entries
<1>5. Requests(Settled)' = Requests(Settled) \cup Entries(queue)
  BY <1>1, <1>2, <1>4 DEF Requests, Settled
<1>6. Service!AllOf(queue) = Entries(queue)
  BY DEF Service!AllOf, Entries
<1> QED BY <1>1, <1>2, <1>3, <1>5, <1>6 DEF Service!Close

(* Every step of the manager is one of the service or none. *)
LEMMA ServiceStep ==
  ASSUME SessionInv, [Next]_vars
  PROVE  [Service!Next]_(Service!vars)
<1>1. ASSUME NEW r \in Request, RenderVi(r) PROVE Service!Next
  BY <1>1, RenderViAsks DEF Service!Next
<1>2. ASSUME NEW r \in Request, RenderEnds(r) PROVE Service!Next
  <2>1. rpc[r] \in InFlight /\ UNCHANGED <<prio, disposed>>
        /\ \E how \in Settled : Finish(r, container, how)
    BY <1>2 DEF RenderEnds, InFlight, disposerVars
  <2> QED BY <2>1, FinishAnswers DEF Service!Next
<1>3. ASSUME NEW r \in Request, SessionStartFails(r) PROVE Service!Next
  <2>1. rpc[r] \in InFlight /\ UNCHANGED <<prio, disposed>> /\ "rejected" \in Settled
        /\ \E e \in {"none", "left"} : Finish(r, [container EXCEPT ![r] = e], "rejected")
    BY <1>3 DEF SessionStartFails, InFlight, Settled, disposerVars
  <2> QED BY <2>1, FinishAnswers DEF Service!Next
<1>4. CASE Dispose
  BY <1>4, DisposeCloses DEF Service!Next
<1>5. ASSUME NEW r \in Request, ReplacedThenStart(r) \/ SessionStarts(r)
      PROVE  UNCHANGED Service!vars
  <2>1. rpc \in [Request -> RequestState]
    BY DEF SessionInv, Good, TypeGood
  <2>2. UNCHANGED <<prio, queue, disposed>> /\ rpc[r] \in {"replacing", "starting"}
        /\ \E ps \in InFlight : rpc' = [rpc EXCEPT ![r] = ps]
    BY <1>5 DEF ReplacedThenStart, StartSession, SessionStarts, disposerVars, InFlight
  <2>3. \A s \in Request : rpc'[s] \in InFlight <=> rpc[s] \in InFlight
    BY <2>1, <2>2 DEF InFlight
  <2>4. Requests(Settled)' = Requests(Settled)
    BY <2>1, <2>2 DEF Requests, Settled, InFlight
  <2> QED BY <2>2, <2>3, <2>4, ServedUnchanged DEF Service!vars
<1>6. ASSUME \/ \E r \in Request : RemovalEnds(r)
             \/ DisposeAfterStart \/ DisposeAfterRemoval \/ UNCHANGED vars
      PROVE  UNCHANGED Service!vars
  <2>1. UNCHANGED <<prio, queue, rpc, disposed>>
    BY <1>6 DEF RemovalEnds, DisposeAfterStart, DisposeAfterRemoval, vars, disposerVars
  <2> QED BY <2>1 DEF Service!vars, InService, Requests
<1> QED BY <1>1, <1>2, <1>3, <1>4, <1>5, <1>6 DEF Next, Disposing, AtRest

(* For any requests, priorities and runtimes, whatever containers start,   *)
(* fail and are removed: the manager serves its callers one at a time, the *)
(* one next whose turn it is, never idle while one waits, and dispose()    *)
(* answers those who wait.                                                 *)
THEOREM SessionImplementsService == Spec => ImplementsService
<1>1. Init => Service!Init
  <2> SUFFICES ASSUME Init PROVE Service!Init
    OBVIOUS
  <2>1. \A r \in Request : rpc[r] \notin InFlight /\ rpc[r] \notin Settled
    BY DEF Init, InFlight, Settled
  <2>2. InService = None /\ Requests(Settled) = {}
    BY <2>1, ServedNone DEF Requests
  <2> QED BY <2>2 DEF Init, Service!Init
<1>2. SessionInv /\ [Next]_vars => [Service!Next]_(Service!vars)
  BY ServiceStep
<1> QED BY <1>1, <1>2, SessionInvariant, PTL DEF Spec, ImplementsService, Service!Spec
=============================================================================
