------------------------- MODULE SdeTimelineProofs -------------------------
(***************************************************************************)
(* Proofs about the two components that hand out fences on a timeline of   *)
(* their own.                                                              *)
(*                                                                         *)
(* The fence timeline (SdeFence), for any number of fences and threads and *)
(* for every bound: no fence is on two lists, every reference count is the *)
(* number of holders, nothing is used after it was freed, and no fence is  *)
(* signalled before its commit is done.                                    *)
(*                                                                         *)
(* The rotator (SdeRotator), for any set of contexts, any list of requests *)
(* and any mix of faults, overlapping submissions among them: an entry is  *)
(* in one place of the core, its slot and its votes come back once, and    *)
(* the timeline of a context is never signalled more often than it has     *)
(* frames and entries.  Where clients are orderly, what they are told of   *)
(* their frames by fence and by buffer is true.                            *)
(***************************************************************************)
EXTENDS MCSdeFence, SdeRotator, NatLemmas, FiniteSetTheorems, TLAPS

(***************************************************************************)
(* The fence timeline.                                                     *)
(***************************************************************************)

\* Where the program counter and the thread's local variables agree: the
\* fence being put back or released is on the private list, the one being
\* added exists, and there is no private list outside the trigger's loop.
LocalsOK ==
  \A t \in Thread :
    /\ pc[t] \in {"put", "move"} => cur[t] \in local[t]
    /\ pc[t] = "add" => cur[t] \in Fence
    /\ pc[t] \notin {"check", "put", "move"} => local[t] = {}

\* The inductive invariant.
IInv ==
  /\ TypeOK
  /\ LocalsOK
  /\ OneListPerFence
  /\ FenceRefsExact
  /\ NoDangling
  /\ CtxRefsExact

-----------------------------------------------------------------------------
\* Allocating or freeing one fence changes the number of live fences by one.
LEMMA LiveCount ==
  ASSUME TypeOK
  PROVE  /\ Cardinality(live) \in Nat
         /\ \A f \in Fence \ live :
              Cardinality(live \cup {f}) = Cardinality(live) + 1
         /\ \A f \in live :
              Cardinality(live \ {f}) = Cardinality(live) - 1
<1>1. IsFiniteSet(live)
  BY FenceAssumption, FS_Subset DEF TypeOK
<1> QED  BY <1>1, FS_CardinalityType, FS_AddElement, FS_RemoveElement

\* The initial states satisfy the inductive invariant.
LEMMA InitIInv == Init => IInv
<1> SUFFICES ASSUME Init PROVE IInv
  OBVIOUS
<1>1. TypeOK  BY FenceAssumption DEF Init, TypeOK, Locations
<1>2. LocalsOK  BY DEF Init, LocalsOK
<1>3. OneListPerFence  BY DEF Init, OneListPerFence, Held
<1>4. FenceRefsExact  BY DEF Init, FenceRefsExact
<1>5. NoDangling  BY DEF Init, NoDangling, OnTimeline, Held
<1>6. CtxRefsExact  BY FS_EmptySet DEF Init, CtxRefsExact, One
<1> QED  BY <1>1, <1>2, <1>3, <1>4, <1>5, <1>6 DEF IInv

\* Dropping a reference that is accounted for keeps every count exact.
LEMMA PutKeepsCounts ==
  ASSUME IInv, NEW f \in Fence, f \in live, PutFence(f), UNCHANGED owner
  PROVE  /\ refs' \in [Fence -> Nat] /\ ctx_kref' \in Nat
         /\ due' \in [Fence -> Nat]
         /\ live' \in SUBSET Fence
         /\ signaled' \in SUBSET Fence /\ errored' \in SUBSET Fence
         /\ CtxRefsExact'
         /\ refs[f] >= 1
         /\ refs'[f] = refs[f] - 1
         /\ live' = IF refs[f] = 1 THEN live \ {f} ELSE live
         /\ \A g \in Fence \ {f} : refs'[g] = refs[g]
<1>1. refs[f] \in Nat /\ refs[f] >= 1
  BY DEF IInv, TypeOK, NoDangling
<1>2. /\ refs' \in [Fence -> Nat]
      /\ refs'[f] = refs[f] - 1
      /\ \A g \in Fence \ {f} : refs'[g] = refs[g]
  BY <1>1 DEF PutFence, IInv, TypeOK
<1>3. /\ live' = IF refs[f] = 1 THEN live \ {f} ELSE live
      /\ live' \in SUBSET Fence
      /\ signaled' \in SUBSET Fence /\ errored' \in SUBSET Fence
      /\ due' \in [Fence -> Nat]
  BY DEF PutFence, IInv, TypeOK, status
<1>4. CtxRefsExact' /\ ctx_kref' \in Nat
  <2>1. TypeOK /\ CtxRefsExact
    BY DEF IInv
  <2>2. One(owner) \in {0, 1}
    BY DEF One
  <2>3. CASE refs[f] = 1
    <3>1. live' = live \ {f} /\ ctx_kref' = ctx_kref - 1
      BY <2>3 DEF PutFence
    <3>2. Cardinality(live') = Cardinality(live) - 1 /\ Cardinality(live) \in Nat
      BY <2>1, <3>1, LiveCount
    <3>3. Cardinality(live') \in Nat
      BY <1>3, FenceAssumption, FS_Subset, FS_CardinalityType
    <3> QED  BY <2>1, <2>2, <3>1, <3>2, <3>3 DEF CtxRefsExact, One
  <2>4. CASE refs[f] # 1
    BY <2>1, <2>4 DEF PutFence, CtxRefsExact, TypeOK
  <2> QED  BY <2>3, <2>4
<1> QED  BY <1>1, <1>2, <1>3, <1>4

(***************************************************************************)
(* The steps that leave every list and every holder alone.                 *)
(***************************************************************************)
LEMMA QuietStep ==
  ASSUME IInv, UNCHANGED <<live, refs, ctx_kref, owner, list, fds, waiters>>,
         TypeOK', LocalsOK', \A t \in Thread : Held(t)' = Held(t)
  PROVE  IInv'
<1>1. \A f : OnTimeline(f)' <=> OnTimeline(f)
  BY DEF OnTimeline
<1>2. OneListPerFence'
  BY DEF IInv, OneListPerFence
<1>3. FenceRefsExact'
  BY <1>1 DEF IInv, FenceRefsExact, One
<1>4. NoDangling'
  BY <1>1 DEF IInv, NoDangling
<1>5. CtxRefsExact'
  BY DEF IInv, CtxRefsExact
<1> QED  BY <1>2, <1>3, <1>4, <1>5 DEF IInv

\* Counters, program counters outside the list operations, and polling.
LEMMA QuietSteps ==
  ASSUME IInv,
         \/ Prepare
         \/ \E t \in Creator : \/ \E o \in Offset : CreateRead(t, o)
                               \/ CreateFail(t)
         \/ \E t \in Signaler : (\E e \in BOOLEAN : Signal(t, e)) \/ ResetTimeline(t)
         \/ \E t \in Thread, f \in Fence : TriggerCheck(t, f)
         \/ \E f \in Fence : Poll(f)
         \/ UNCHANGED vars
  PROVE  IInv'
<1> USE FenceAssumption DEF IInv, objects, counters, status, threads, Goto
<1>1. CASE Prepare
  <2>1. TypeOK' /\ LocalsOK'  BY <1>1 DEF Prepare, TypeOK, LocalsOK
  <2>2. \A t \in Thread : Held(t)' = Held(t)  BY <1>1 DEF Prepare, Held
  <2> QED  BY <1>1, <2>1, <2>2, QuietStep DEF Prepare
<1>2. ASSUME NEW t \in Creator, NEW o \in Offset, CreateRead(t, o)  PROVE IInv'
  <2>0. t \in Thread /\ commits + o \in Nat  BY DEF Thread, TypeOK
  <2>1. TypeOK'  BY <1>2, <2>0 DEF CreateRead, TypeOK, Locations
  <2>2. LocalsOK'  BY <1>2, <2>0 DEF CreateRead, LocalsOK, TypeOK
  <2>3. \A u \in Thread : Held(u)' = Held(u)
    BY <1>2, <2>0 DEF CreateRead, Held, TypeOK
  <2> QED  BY <1>2, <2>1, <2>2, <2>3, QuietStep DEF CreateRead
<1>3. ASSUME NEW t \in Creator, CreateFail(t)  PROVE IInv'
  <2>0. t \in Thread  BY DEF Thread
  <2>1. TypeOK'  BY <1>3, <2>0 DEF CreateFail, TypeOK, Locations
  <2>2. LocalsOK'  BY <1>3, <2>0 DEF CreateFail, LocalsOK, TypeOK
  <2>3. \A u \in Thread : Held(u)' = Held(u)
    BY <1>3, <2>0 DEF CreateFail, Held, TypeOK
  <2> QED  BY <1>3, <2>1, <2>2, <2>3, QuietStep DEF CreateFail
<1>4. ASSUME NEW t \in Signaler, NEW e \in BOOLEAN, Signal(t, e)  PROVE IInv'
  <2>0. t \in Thread  BY DEF Thread
  <2>1. TypeOK'  BY <1>4, <2>0 DEF Signal, TypeOK, Locations
  <2>2. LocalsOK'  BY <1>4, <2>0 DEF Signal, LocalsOK, TypeOK
  <2>3. \A u \in Thread : Held(u)' = Held(u)
    BY <1>4, <2>0 DEF Signal, Held, TypeOK
  <2> QED  BY <1>4, <2>1, <2>2, <2>3, QuietStep DEF Signal
<1>5. ASSUME NEW t \in Signaler, ResetTimeline(t)  PROVE IInv'
  <2>0. t \in Thread  BY DEF Thread
  <2>1. TypeOK'  BY <1>5, <2>0 DEF ResetTimeline, TypeOK, Locations
  <2>2. LocalsOK'  BY <1>5, <2>0 DEF ResetTimeline, LocalsOK, TypeOK
  <2>3. \A u \in Thread : Held(u)' = Held(u)
    BY <1>5, <2>0 DEF ResetTimeline, Held, TypeOK
  <2> QED  BY <1>5, <2>1, <2>2, <2>3, QuietStep DEF ResetTimeline
<1>6. ASSUME NEW t \in Thread, NEW f \in Fence, TriggerCheck(t, f)  PROVE IInv'
  <2>1. TypeOK'  BY <1>6 DEF TriggerCheck, TypeOK, Locations
  <2>2. LocalsOK'  BY <1>6 DEF TriggerCheck, LocalsOK, TypeOK
  <2>3. \A u \in Thread : Held(u)' = Held(u)
    BY <1>6 DEF TriggerCheck, Held, TypeOK
  <2> QED  BY <1>6, <2>1, <2>2, <2>3, QuietStep DEF TriggerCheck
<1>7. ASSUME NEW f \in Fence, Poll(f)  PROVE IInv'
  <2>1. TypeOK' /\ LocalsOK'  BY <1>7 DEF Poll, TypeOK, LocalsOK
  <2>2. \A u \in Thread : Held(u)' = Held(u)  BY <1>7 DEF Poll, Held
  <2> QED  BY <1>7, <2>1, <2>2, QuietStep DEF Poll
<1>8. CASE UNCHANGED vars
  <2>1. TypeOK' /\ LocalsOK'  BY <1>8 DEF vars, TypeOK, LocalsOK
  <2>2. \A u \in Thread : Held(u)' = Held(u)  BY <1>8 DEF vars, Held
  <2> QED  BY <1>8, <2>1, <2>2, QuietStep DEF vars
<1> QED  BY <1>1, <1>2, <1>3, <1>4, <1>5, <1>6, <1>7, <1>8

(***************************************************************************)
(* The steps that move a fence between lists without touching a count.     *)
(***************************************************************************)
LEMMA MoveStep ==
  ASSUME IInv, UNCHANGED <<live, refs, ctx_kref, owner, fds, waiters>>,
         TypeOK', LocalsOK', OneListPerFence',
         \A f \in Fence : OnTimeline(f)' <=> OnTimeline(f)
  PROVE  IInv'
<1>1. FenceRefsExact'
  BY DEF IInv, FenceRefsExact, One, TypeOK
<1>2. NoDangling'
  BY DEF IInv, NoDangling, TypeOK
<1>3. CtxRefsExact'
  BY DEF IInv, CtxRefsExact
<1> QED  BY <1>1, <1>2, <1>3 DEF IInv

\* sde_fence_create lists its fence.
LEMMA AddStep ==
  ASSUME IInv, NEW t \in Thread, CreateAdd(t)
  PROVE  IInv'
<1> USE DEF IInv, objects, counters, status, threads, Goto
<1>1. cur[t] \in Fence /\ local[t] = {} /\ pc[t] = "add"
  BY DEF CreateAdd, LocalsOK
<1>2. TypeOK'  BY <1>1 DEF CreateAdd, TypeOK, Locations
<1>3. LocalsOK'  BY <1>1 DEF CreateAdd, LocalsOK, TypeOK
<1>4. /\ Held(t) = {cur[t]} /\ Held(t)' = {} /\ list' = list \cup {cur[t]}
      /\ \A u \in Thread \ {t} : Held(u)' = Held(u)
  BY <1>1 DEF CreateAdd, Held, TypeOK
<1>5. OneListPerFence'
  BY <1>4 DEF OneListPerFence
<1>6. \A f \in Fence : OnTimeline(f)' <=> OnTimeline(f)
  BY <1>4 DEF OnTimeline
<1> QED  BY <1>2, <1>3, <1>5, <1>6, MoveStep DEF CreateAdd

\* The trigger takes the whole list.
LEMMA SpliceStep ==
  ASSUME IInv, NEW t \in Thread, TriggerSplice(t)
  PROVE  IInv'
<1> USE DEF IInv, objects, counters, status, threads, Goto
<1>1. local[t] = {} /\ pc[t] = "trigger"
  BY DEF TriggerSplice, LocalsOK
<1>2. TypeOK'  BY <1>1 DEF TriggerSplice, TypeOK, Locations
<1>3. LocalsOK'  BY <1>1 DEF TriggerSplice, LocalsOK, TypeOK
<1>4. /\ Held(t) = {} /\ Held(t)' = list /\ list' = {}
      /\ \A u \in Thread \ {t} : Held(u)' = Held(u)
  BY <1>1 DEF TriggerSplice, Held, TypeOK
<1>5. OneListPerFence'
  BY <1>4 DEF OneListPerFence
<1>6. \A f \in Fence : OnTimeline(f)' <=> OnTimeline(f)
  BY <1>4 DEF OnTimeline
<1> QED  BY <1>2, <1>3, <1>5, <1>6, MoveStep DEF TriggerSplice

\* A fence that is not due goes back on the list.
LEMMA MoveBackStep ==
  ASSUME IInv, NEW t \in Thread, TriggerMove(t)
  PROVE  IInv'
<1> USE DEF IInv, objects, counters, status, threads, Goto
<1>1. cur[t] \in local[t] /\ cur[t] \in Fence /\ pc[t] = "move"
  BY DEF TriggerMove, LocalsOK, TypeOK
<1>2. TypeOK'  BY <1>1 DEF TriggerMove, Advance, TypeOK, Locations
<1>3. LocalsOK'  BY <1>1 DEF TriggerMove, Advance, LocalsOK, TypeOK
<1>4. /\ Held(t) = local[t] /\ Held(t)' = local[t] \ {cur[t]}
      /\ list' = list \cup {cur[t]}
      /\ \A u \in Thread \ {t} : Held(u)' = Held(u)
  BY <1>1 DEF TriggerMove, Advance, Held, TypeOK
<1>5. OneListPerFence'
  BY <1>1, <1>4 DEF OneListPerFence
<1>6. \A f \in Fence : OnTimeline(f)' <=> OnTimeline(f)
  BY <1>1, <1>4 DEF OnTimeline
<1> QED  BY <1>2, <1>3, <1>5, <1>6, MoveStep DEF TriggerMove

(***************************************************************************)
(* The steps that take or drop a reference.                                *)
(***************************************************************************)
LEMMA CreateFdStep ==
  ASSUME IInv, NEW t \in Thread, NEW f \in Fence, CreateFd(t, f)
  PROVE  IInv'
<1> USE DEF IInv, objects, counters, status, threads, Goto
<1>1. local[t] = {} /\ pc[t] = "create" /\ f \notin live
  BY DEF CreateFd, LocalsOK
<1>2. TypeOK'  BY <1>1 DEF CreateFd, TypeOK, Locations
<1>3. LocalsOK'  BY <1>1 DEF CreateFd, LocalsOK, TypeOK
<1>4. /\ Held(t) = {} /\ Held(t)' = {f} /\ list' = list
      /\ \A u \in Thread \ {t} : Held(u)' = Held(u)
  BY <1>1 DEF CreateFd, Held, TypeOK
<1>5. ~OnTimeline(f) /\ f \notin fds /\ f \notin waiters
  BY <1>1 DEF NoDangling
<1>6. OneListPerFence'
  BY <1>4, <1>5 DEF OneListPerFence, OnTimeline
<1>7. OnTimeline(f)' /\ \A g \in Fence \ {f} : OnTimeline(g)' <=> OnTimeline(g)
  BY <1>4 DEF OnTimeline
<1>8. /\ live' = live \cup {f} /\ fds' = fds \cup {f} /\ waiters' = waiters
      /\ refs'[f] = 2 /\ \A g \in Fence \ {f} : refs'[g] = refs[g]
  BY DEF CreateFd, TypeOK
<1>9. FenceRefsExact'
  BY <1>2, <1>5, <1>7, <1>8 DEF FenceRefsExact, One, TypeOK
<1>10. NoDangling'
  BY <1>2, <1>5, <1>7, <1>8 DEF NoDangling, TypeOK
<1>11. CtxRefsExact'
  <2>1. Cardinality(live') = Cardinality(live) + 1 /\ Cardinality(live) \in Nat
    BY <1>1, <1>8, LiveCount
  <2> QED  BY <2>1 DEF CtxRefsExact, CreateFd, One
<1> QED  BY <1>2, <1>3, <1>6, <1>9, <1>10, <1>11

\* A signalled fence leaves its private list with the timeline's reference.
LEMMA PutStep ==
  ASSUME IInv, NEW t \in Thread, TriggerPut(t)
  PROVE  IInv'
<1> USE DEF objects, counters, threads, Goto
<1> PICK f \in Fence : f = cur[t]
  BY DEF TriggerPut, LocalsOK, TypeOK, IInv
<1>1. f \in local[t] /\ f \in Fence /\ pc[t] = "put"
  BY DEF TriggerPut, LocalsOK, TypeOK, IInv
<1>2. /\ Held(t) = local[t] /\ Held(t)' = local[t] \ {f} /\ list' = list
      /\ \A u \in Thread \ {t} : Held(u)' = Held(u)
  BY <1>1 DEF TriggerPut, Advance, Held, TypeOK, IInv
<1>3. OnTimeline(f) /\ f \in live
  BY <1>1, <1>2 DEF OnTimeline, NoDangling, IInv
<1>4. PutFence(f) /\ UNCHANGED <<owner, fds, waiters>>
  BY DEF TriggerPut
<1>5. /\ refs' \in [Fence -> Nat] /\ ctx_kref' \in Nat
      /\ due' \in [Fence -> Nat]
      /\ live' \in SUBSET Fence
      /\ signaled' \in SUBSET Fence /\ errored' \in SUBSET Fence
      /\ CtxRefsExact'
      /\ refs[f] >= 1
      /\ refs'[f] = refs[f] - 1
      /\ live' = IF refs[f] = 1 THEN live \ {f} ELSE live
      /\ \A g \in Fence \ {f} : refs'[g] = refs[g]
  BY <1>1, <1>3, <1>4, PutKeepsCounts
<1>6. TypeOK'
  BY <1>1, <1>5 DEF TriggerPut, Advance, TypeOK, Locations, IInv
<1>7. LocalsOK'
  BY <1>1 DEF TriggerPut, Advance, LocalsOK, TypeOK, IInv
<1>8. OneListPerFence'
  BY <1>2 DEF OneListPerFence, IInv
<1>9. ~OnTimeline(f)' /\ \A g \in Fence \ {f} : OnTimeline(g)' <=> OnTimeline(g)
  BY <1>1, <1>2 DEF OnTimeline, OneListPerFence, IInv
<1>10. FenceRefsExact'
  BY <1>3, <1>4, <1>5, <1>6, <1>9 DEF FenceRefsExact, One, TypeOK, IInv
<1>11. NoDangling'
  <2>1. refs[f] = 1 => f \notin fds /\ f \notin waiters
    BY <1>3 DEF FenceRefsExact, One, IInv, TypeOK
  <2>2. refs[f] \in Nat  BY <1>1 DEF IInv, TypeOK
  <2> QED  BY <1>3, <1>4, <1>5, <1>9, <2>1, <2>2 DEF NoDangling, IInv, TypeOK
<1> QED  BY <1>5, <1>6, <1>7, <1>8, <1>10, <1>11 DEF IInv

\* The holders outside the timeline: an open fd and a waiter.
LEMMA UserSteps ==
  ASSUME IInv, NEW f \in Fence, SyncGet(f) \/ SyncPut(f) \/ CloseFd(f)
  PROVE  IInv'
<1> USE DEF objects, counters, threads
<1>1. /\ \A t \in Thread : Held(t)' = Held(t)
      /\ list' = list /\ owner' = owner /\ LocalsOK'
      /\ \A g : OnTimeline(g)' <=> OnTimeline(g)
  BY DEF SyncGet, SyncPut, CloseFd, Held, OnTimeline, LocalsOK, IInv
<1>2. OneListPerFence'
  BY <1>1 DEF OneListPerFence, IInv
<1>3. f \in live
  BY DEF SyncGet, SyncPut, CloseFd, NoDangling, IInv
<1>4. CASE SyncGet(f)
  <2>1. TypeOK'  BY <1>4 DEF SyncGet, TypeOK, status, IInv
  <2>2. FenceRefsExact'
    BY <1>1, <1>3, <1>4, <2>1 DEF SyncGet, FenceRefsExact, One, TypeOK, IInv
  <2>3. NoDangling'
    BY <1>1, <1>3, <1>4, <2>1 DEF SyncGet, NoDangling, TypeOK, IInv
  <2>4. CtxRefsExact'  BY <1>4 DEF SyncGet, CtxRefsExact, IInv
  <2> QED  BY <1>1, <1>2, <2>1, <2>2, <2>3, <2>4 DEF IInv
<1>5. CASE SyncPut(f) \/ CloseFd(f)
  <2>0. PutFence(f)  BY <1>5 DEF SyncPut, CloseFd
  <2>1. /\ refs' \in [Fence -> Nat] /\ ctx_kref' \in Nat
        /\ due' \in [Fence -> Nat]
        /\ live' \in SUBSET Fence
        /\ signaled' \in SUBSET Fence /\ errored' \in SUBSET Fence
        /\ CtxRefsExact'
        /\ refs[f] >= 1
        /\ refs'[f] = refs[f] - 1
        /\ live' = IF refs[f] = 1 THEN live \ {f} ELSE live
        /\ \A g \in Fence \ {f} : refs'[g] = refs[g]
    BY <1>1, <1>3, <2>0, PutKeepsCounts
  <2>2. \/ f \in waiters /\ waiters' = waiters \ {f} /\ fds' = fds
        \/ f \in fds /\ fds' = fds \ {f} /\ waiters' = waiters
    BY <1>5 DEF SyncPut, CloseFd
  <2>3. TypeOK'
    <3>1. UNCHANGED <<counters, owner, list, threads>>
      BY <1>5 DEF SyncPut, CloseFd
    <3>2. fds' \in SUBSET Fence /\ waiters' \in SUBSET Fence
      BY <2>2 DEF IInv, TypeOK
    <3> QED
      BY <2>1, <3>1, <3>2 DEF TypeOK, IInv, counters, threads
  <2>4. FenceRefsExact'
    <3>1. ASSUME NEW g \in live'
          PROVE  refs'[g] = One(OnTimeline(g)') + One(g \in fds') + One(g \in waiters')
      <4>1. g \in live /\ g \in Fence
        BY <2>1 DEF IInv, TypeOK
      <4>2. refs[g] = One(OnTimeline(g)) + One(g \in fds) + One(g \in waiters)
        BY <4>1 DEF IInv, FenceRefsExact
      <4>3. /\ OnTimeline(g)' <=> OnTimeline(g)
            /\ g # f => (g \in fds' <=> g \in fds) /\ (g \in waiters' <=> g \in waiters)
        BY <1>1, <2>2
      <4>4. CASE g = f
        BY <2>1, <2>2, <4>2, <4>3, <4>4 DEF One
      <4>5. CASE g # f
        BY <2>1, <4>1, <4>2, <4>3, <4>5 DEF One
      <4> QED
        BY <4>4, <4>5
    <3> QED
      BY <3>1 DEF FenceRefsExact
  <2>5. NoDangling'
    <3>1. refs[f] = One(OnTimeline(f)) + One(f \in fds) + One(f \in waiters)
      BY <1>3 DEF FenceRefsExact, IInv
    <3>2. refs[f] = 1 => ~OnTimeline(f)' /\ f \notin fds' /\ f \notin waiters'
      BY <1>1, <2>2, <3>1 DEF One
    <3>3. refs[f] \in Nat  BY DEF IInv, TypeOK
    <3> QED  BY <1>1, <1>3, <2>1, <2>2, <3>2, <3>3 DEF NoDangling, IInv, TypeOK
  <2> QED  BY <1>1, <1>2, <2>1, <2>3, <2>4, <2>5 DEF IInv
<1> QED  BY <1>4, <1>5

\* The owner drops its reference to the timeline.
LEMMA DeinitStep ==
  ASSUME IInv, Deinit
  PROVE  IInv'
<1> USE DEF counters, status, threads
<1>1. Cardinality(live) \in Nat  BY LiveCount DEF IInv
<1>2. CtxRefsExact' /\ ctx_kref' \in Nat
  BY <1>1 DEF Deinit, CtxRefsExact, One, IInv
<1>3. TypeOK'  BY <1>2 DEF Deinit, TypeOK, IInv
<1>4. LocalsOK'  BY DEF Deinit, LocalsOK, IInv
<1>5. /\ \A t \in Thread : Held(t)' = Held(t)
      /\ \A g : OnTimeline(g)' <=> OnTimeline(g)
  BY DEF Deinit, Held, OnTimeline
<1>6. OneListPerFence'  BY <1>5 DEF Deinit, OneListPerFence, IInv
<1>7. FenceRefsExact'  BY <1>5 DEF Deinit, FenceRefsExact, One, IInv
<1>8. NoDangling'  BY <1>5 DEF Deinit, NoDangling, IInv
<1> QED  BY <1>2, <1>3, <1>4, <1>6, <1>7, <1>8 DEF IInv

\* Every step preserves the inductive invariant.
LEMMA NextIInv == IInv /\ [Next]_vars => IInv'
<1> SUFFICES ASSUME IInv, [Next]_vars  PROVE IInv'
  OBVIOUS
<1>1. CASE Prepare  BY <1>1, QuietSteps
<1>2. ASSUME NEW t \in Creator, CreatorStep(t)  PROVE IInv'
  <2>1. t \in Thread  BY DEF Thread
  <2> QED  BY <1>2, <2>1, QuietSteps, CreateFdStep, AddStep DEF CreatorStep
<1>3. ASSUME NEW t \in Signaler, SignalerStep(t)  PROVE IInv'
  BY <1>3, QuietSteps DEF SignalerStep
<1>4. ASSUME NEW t \in Thread, TriggerStep(t)  PROVE IInv'
  BY <1>4, QuietSteps, SpliceStep, PutStep, MoveBackStep DEF TriggerStep
<1>5. ASSUME NEW f \in Fence, UserStep(f)  PROVE IInv'
  BY <1>5, QuietSteps, UserSteps DEF UserStep
<1>6. CASE Deinit  BY <1>6, DeinitStep
<1>7. CASE UNCHANGED vars  BY <1>7, QuietSteps
<1> QED  BY <1>1, <1>2, <1>3, <1>4, <1>5, <1>6, <1>7 DEF Next

(***************************************************************************)
(* sde_fence.c keeps its reference counts: in every reachable state, for   *)
(* any number of fences, ioctl threads and signalling threads, a fence is  *)
(* on at most one list, its reference count is the number of its holders,  *)
(* nobody holds a freed fence, and the timeline outlives its fences.       *)
(***************************************************************************)
THEOREM FenceSafety == Spec => [](TypeOK /\ References)
<1>1. IInv => TypeOK /\ References
  BY DEF IInv, References
<1> QED  BY InitIInv, NextIInv, <1>1, PTL DEF Spec

\* Timeline and fences keep their types: no reference count drops below zero,
\* neither a fence's nor the context's (sde_fence_release).
THEOREM FenceTypes == Spec => []TypeOK
  BY FenceSafety, PTL

\* The reference count of a fence is the number of its holders (sde_fence.c).
THEOREM FenceRefs == Spec => []FenceRefsExact
<1>1. References => FenceRefsExact
  BY DEF References
<1> QED  BY FenceSafety, <1>1, PTL

\* Nobody holds a freed fence (sde_fence_release, sde_fence.c:140-149).
THEOREM FenceNoDangling == Spec => []NoDangling
<1>1. References => NoDangling
  BY DEF References
<1> QED  BY FenceSafety, <1>1, PTL

-----------------------------------------------------------------------------
(***************************************************************************)
(* No fence early: the invariant.  Nothing is due further ahead than the   *)
(* window in which the wrapped comparison is that of the numbers.          *)
(***************************************************************************)
EarlyInv ==
  /\ dones <= commits /\ commits - dones <= MaxOutstanding
  /\ signaled \subseteq live
  /\ \A t \in Thread : pc[t] = "create" => \E o \in Offset : value[t] <= commits + o
  /\ \A f \in live : \E o \in Offset : due[f] <= commits + o
  /\ \A f \in signaled : due[f] <= dones

\* Half of the range of the counters.
LEMMA HalfRange ==
  Half \in Nat /\ Half > 0 /\ 2 * Half <= Modulus /\ Modulus \in Nat \ {0}
  BY FenceAssumption, WindowAssumption DEF Half

\* A fence that the comparison finds reached is due.
LEMMA ReachedIsDue ==
  ASSUME TypeOK, EarlyInv, NEW f \in live, Reached(f)
  PROVE  due[f] <= dones
<1>1. due[f] \in Nat /\ dones \in Nat /\ commits \in Nat /\ MaxOutstanding \in Nat
  BY FenceAssumption DEF TypeOK
<1>2. PICK o \in Offset : due[f] <= commits + o
  BY DEF EarlyInv
<1>3. o \in Nat /\ MaxOutstanding + o < Half /\ commits - dones <= MaxOutstanding
  BY FenceAssumption, WindowAssumption DEF EarlyInv
<1> DEFINE d == due[f] - dones
<1> SUFFICES ASSUME d > 0 PROVE FALSE
  BY <1>1
<1>4. d < Half /\ d \in 0 .. Modulus - 1
  BY <1>1, <1>2, <1>3, HalfRange
<1>5. ((due[f] % Modulus) - (dones % Modulus)) % Modulus = d
  BY <1>1, <1>4, HalfRange, WrappedDifference
<1> HIDE DEF d
<1>6. d = 0 \/ d >= Half
  BY <1>5 DEF Reached, SignedLE0, SignedLT0, done_count
<1> QED  BY <1>4, <1>6, HalfRange

\* The timeline advances only up to the commits.
LEMMA BehindIsLess ==
  ASSUME TypeOK, EarlyInv, Behind
  PROVE  dones < commits
<1> SUFFICES ASSUME dones = commits PROVE FALSE
  BY DEF TypeOK, EarlyInv
<1>1. ((dones % Modulus) - (commits % Modulus)) % Modulus = 0
  <2>1. dones \in Nat /\ commits \in Nat /\ dones - commits = 0 /\ 0 \in 0 .. Modulus - 1
    BY HalfRange DEF TypeOK
  <2> QED  BY <2>1, HalfRange, WrappedDifference
<1> QED  BY <1>1, HalfRange DEF Behind, SignedLT0, commit_count, done_count

\* Steps that create no fence, signal none and leave the counters alone.
LEMMA EarlyQuiet ==
  ASSUME TypeOK, EarlyInv, UNCHANGED counters,
         live' \subseteq live, signaled' \subseteq signaled, signaled' \subseteq live',
         \A f \in live' : due'[f] = due[f],
         \A t \in Thread : pc'[t] = "create" => pc[t] = "create" /\ value'[t] = value[t]
  PROVE  EarlyInv'
  BY DEF EarlyInv, counters

\* Dropping a reference signals nothing and moves no fence that stays.
LEMMA PutMovesNothing ==
  ASSUME IInv, EarlyInv, NEW f \in Fence, PutFence(f)
  PROVE  /\ live' \subseteq live /\ signaled' \subseteq signaled /\ signaled' \subseteq live'
         /\ \A g \in live' : due'[g] = due[g]
         /\ \A g \in live' \cap signaled : g \in signaled'
  BY DEF IInv, TypeOK, EarlyInv, PutFence, status

\* Every step keeps the fences from being early.
LEMMA EarlyStep == IInv /\ EarlyInv /\ [Next]_vars => EarlyInv'
<1> SUFFICES ASSUME IInv, EarlyInv, [Next]_vars PROVE EarlyInv'
  OBVIOUS
<1>0. TypeOK /\ NoDangling  BY DEF IInv
<1> USE <1>0, FenceAssumption DEF objects, counters, status, threads, Goto
<1>1. CASE Prepare
  BY <1>1 DEF Prepare, EarlyInv, TypeOK
<1>2. ASSUME NEW t \in Creator, NEW o \in Offset, CreateRead(t, o)  PROVE EarlyInv'
  <2>1. t \in Thread /\ value'[t] = commits + o  BY <1>2 DEF CreateRead, TypeOK, Thread
  <2>2. \A u \in Thread : pc'[u] = "create" => \E p \in Offset : value'[u] <= commits' + p
    BY <1>2, <2>1 DEF CreateRead, EarlyInv, TypeOK
  <2> QED  BY <1>2, <2>2 DEF CreateRead, EarlyInv
<1>3. ASSUME NEW t \in Creator, NEW f \in Fence, CreateFd(t, f)  PROVE EarlyInv'
  <2>1. t \in Thread  BY DEF Thread
  <2>2. PICK o \in Offset : value[t] <= commits + o
    BY <1>3, <2>1 DEF CreateFd, EarlyInv
  <2>3. /\ live' = live \cup {f} /\ f \notin live /\ due'[f] = value[t]
        /\ \A g \in Fence \ {f} : due'[g] = due[g]
        /\ UNCHANGED <<commits, dones, signaled>>
    BY <1>3 DEF CreateFd, TypeOK
  <2>4. \A g \in live' : \E p \in Offset : due'[g] <= commits' + p
    BY <2>2, <2>3 DEF EarlyInv, TypeOK
  <2>5. \A u \in Thread : pc'[u] = "create" => pc[u] = "create" /\ value'[u] = value[u]
    BY <1>3, <2>1 DEF CreateFd, TypeOK
  <2>6. \A g \in signaled : g # f /\ g \in Fence
    BY <2>3 DEF EarlyInv, TypeOK
  <2> QED  BY <2>3, <2>4, <2>5, <2>6 DEF EarlyInv
<1>4. ASSUME NEW t \in Creator, CreateFail(t) \/ CreateAdd(t)  PROVE EarlyInv'
  <2>1. t \in Thread  BY DEF Thread
  <2>2. \A u \in Thread : pc'[u] = "create" => pc[u] = "create" /\ value'[u] = value[u]
    BY <1>4, <2>1 DEF CreateFail, CreateAdd, TypeOK
  <2> QED  BY <1>4, <2>2, EarlyQuiet DEF CreateFail, CreateAdd, EarlyInv
<1>5. ASSUME NEW t \in Signaler, NEW e \in BOOLEAN, Signal(t, e)  PROVE EarlyInv'
  <2>1. t \in Thread /\ dones < commits  BY <1>5, BehindIsLess DEF Signal, Thread
  <2>2. \A u \in Thread : pc'[u] = "create" => pc[u] = "create" /\ value'[u] = value[u]
    BY <1>5, <2>1 DEF Signal, TypeOK
  <2>3. dones' = dones + 1 /\ UNCHANGED <<commits, live, due, signaled>>
    BY <1>5 DEF Signal
  <2>4. \A f \in signaled' : due'[f] <= dones'
    BY <2>3 DEF EarlyInv, TypeOK
  <2> QED  BY <2>1, <2>2, <2>3, <2>4 DEF EarlyInv, TypeOK
<1>6. ASSUME NEW t \in Signaler, ResetTimeline(t)  PROVE EarlyInv'
  <2>1. t \in Thread  BY DEF Thread
  <2>2. \A u \in Thread : pc'[u] = "create" => pc[u] = "create" /\ value'[u] = value[u]
    BY <1>6, <2>1 DEF ResetTimeline, TypeOK
  <2>3. dones' = commits /\ UNCHANGED <<commits, live, due, signaled>>
    BY <1>6 DEF ResetTimeline
  <2>4. \A f \in signaled' : due'[f] <= dones'
    BY <2>3 DEF EarlyInv, TypeOK
  <2> QED  BY <2>1, <2>2, <2>3, <2>4 DEF EarlyInv, TypeOK
<1>7. ASSUME NEW t \in Thread, TriggerSplice(t) \/ TriggerMove(t)  PROVE EarlyInv'
  <2>1. \A u \in Thread : pc'[u] = "create" => pc[u] = "create" /\ value'[u] = value[u]
    BY <1>7 DEF TriggerSplice, TriggerMove, Advance, TypeOK
  <2> QED  BY <1>7, <2>1, EarlyQuiet DEF TriggerSplice, TriggerMove, EarlyInv
<1>8. ASSUME NEW t \in Thread, NEW f \in Fence, TriggerCheck(t, f)  PROVE EarlyInv'
  <2>1. f \in live  BY <1>8 DEF TriggerCheck, NoDangling, OnTimeline, Held
  <2>2. \A u \in Thread : pc'[u] = "create" => pc[u] = "create" /\ value'[u] = value[u]
    BY <1>8 DEF TriggerCheck, TypeOK
  <2>3. signaled' \subseteq signaled \cup {f} /\ (f \in signaled' => due[f] <= dones)
    BY <1>8, <2>1, ReachedIsDue DEF TriggerCheck, EarlyInv
  <2>4. UNCHANGED <<commits, dones, live, due, value>>
    BY <1>8 DEF TriggerCheck
  <2>5. \A g \in signaled' : due'[g] <= dones'
    BY <2>3, <2>4 DEF EarlyInv
  <2> QED  BY <2>1, <2>2, <2>3, <2>4, <2>5 DEF EarlyInv
<1>9. ASSUME NEW t \in Thread, TriggerPut(t)  PROVE EarlyInv'
  <2>1. cur[t] \in Fence /\ PutFence(cur[t])
    BY <1>9 DEF TriggerPut, LocalsOK, TypeOK, IInv
  <2>2. \A u \in Thread : pc'[u] = "create" => pc[u] = "create" /\ value'[u] = value[u]
    BY <1>9 DEF TriggerPut, Advance, TypeOK
  <2>3. UNCHANGED counters  BY <1>9 DEF TriggerPut
  <2> QED  BY <2>1, <2>2, <2>3, PutMovesNothing, EarlyQuiet
<1>10. ASSUME NEW f \in Fence, SyncGet(f)  PROVE EarlyInv'
  BY <1>10, EarlyQuiet DEF SyncGet, EarlyInv
<1>11. ASSUME NEW f \in Fence, SyncPut(f) \/ CloseFd(f)  PROVE EarlyInv'
  <2>1. PutFence(f) /\ UNCHANGED <<counters, pc, value>>
    BY <1>11 DEF SyncPut, CloseFd
  <2> QED  BY <2>1, PutMovesNothing, EarlyQuiet
<1>12. ASSUME NEW f \in Fence, Poll(f)  PROVE EarlyInv'
  <2>1. f \in live  BY <1>12 DEF Poll, NoDangling
  <2>2. due[f] <= dones  BY <1>12, <2>1, ReachedIsDue DEF Poll
  <2>3. signaled' = signaled \cup {f} /\ UNCHANGED <<commits, dones, live, due, pc, value>>
    BY <1>12 DEF Poll
  <2> QED  BY <2>1, <2>2, <2>3 DEF EarlyInv
<1>13. CASE Deinit
  BY <1>13, EarlyQuiet DEF Deinit, EarlyInv
<1>14. CASE UNCHANGED vars
  BY <1>14, EarlyQuiet DEF vars, EarlyInv
<1> QED
  BY <1>1, <1>2, <1>3, <1>4, <1>5, <1>6, <1>7, <1>8, <1>9, <1>10, <1>11, <1>12,
     <1>13, <1>14
  DEF Next, CreatorStep, SignalerStep, TriggerStep, UserStep

(***************************************************************************)
(* No fence is signalled before its commit is done and done_count never    *)
(* passes commit_count, for every number of threads and fences, although   *)
(* the code compares counters that wrap: as long as far fewer commits are  *)
(* in flight than half the range of the counters (sde_fence_signaled).     *)
(***************************************************************************)
THEOREM FenceNeverEarly == Spec => []NeverEarly
<1>1. Init => EarlyInv
  BY FenceAssumption DEF Init, EarlyInv
<1>2. EarlyInv => NeverEarly
  BY DEF EarlyInv, NeverEarly
<1> QED  BY InitIInv, NextIInv, <1>1, EarlyStep, <1>2, PTL DEF Spec

-----------------------------------------------------------------------------
(***************************************************************************)
(* No fence forgotten when calls do not overlap.  While a trigger looks at *)
(* its fences the timeline stands still, so those it has put back are not  *)
(* due when it ends; and a fence is never so old that the comparison takes *)
(* it for one that is due later.                                           *)
(***************************************************************************)
SerialInv ==
  serial =>
    /\ \A t, u \in InProgress(pc) : t = u
    /\ \A f \in live \ signaled : commits - due[f] < Half
    /\ \A t \in Thread : pc[t] = "create" => value[t] >= dones
    /\ \A t \in Thread : pc[t] = "move" => due[cur[t]] > dones
    /\ \A f \in list :
         due[f] > dones \/ f \in signaled \/ \E t \in Thread : pc[t] = "trigger"

\* A fence that is due and not too old is found by the comparison.
LEMMA DueIsReached ==
  ASSUME TypeOK, EarlyInv, NEW f \in live, commits - due[f] < Half, due[f] <= dones
  PROVE  Reached(f)
<1>1. due[f] \in Nat /\ dones \in Nat /\ commits \in Nat /\ dones <= commits
  BY DEF TypeOK, EarlyInv
<1>2. CASE due[f] = dones
  <2>1. due[f] - dones = 0 /\ 0 \in 0 .. Modulus - 1  BY <1>1, <1>2, HalfRange
  <2>2. ((due[f] % Modulus) - (dones % Modulus)) % Modulus = 0
    BY <1>1, <2>1, HalfRange, WrappedDifference
  <2> QED  BY <2>2 DEF Reached, SignedLE0, done_count
<1>3. CASE due[f] < dones
  <2>1. PICK d \in Nat : d = (due[f] - dones) + Modulus /\ d \in 0 .. Modulus - 1 /\ d >= Half
    BY <1>1, <1>3, HalfRange
  <2>2. due[f] - dones = d - Modulus  BY <1>1, <2>1, HalfRange
  <2>3. Modulus \in Nat \ {0} /\ d \in 0 .. Modulus - 1  BY <2>1, HalfRange
  <2>4. ((due[f] % Modulus) - (dones % Modulus)) % Modulus = d
    <3>1. \A x, y \in Nat : x - y = d - Modulus => ((x % Modulus) - (y % Modulus)) % Modulus = d
      BY <2>3, WrappedDifference
    <3> QED  BY <1>1, <2>2, <3>1
  <2> QED  BY <2>1, <2>4 DEF Reached, SignedLE0, SignedLT0, done_count
<1> QED  BY <1>1, <1>2, <1>3

\* A call that begins in a serial behaviour is alone.
LEMMA BeginsAlone ==
  ASSUME TypeOK, SerialInv, serial, NEW t \in Thread, NEW l,
         pc[t] = "idle", pc' = [pc EXCEPT ![t] = l],
         Cardinality(InProgress(pc')) <= 1, l # "idle"
  PROVE  \A u \in Thread \ {t} : pc[u] = "idle" /\ pc'[u] = "idle"
<1> SUFFICES ASSUME NEW u \in Thread \ {t}, pc[u] # "idle" PROVE FALSE
  BY DEF TypeOK
<1>1. InProgress(pc) = {u}
  BY DEF SerialInv, InProgress
<1>2. InProgress(pc') = {t, u}
  BY <1>1 DEF InProgress, TypeOK
<1>3. Cardinality({t, u}) = 2
  <2>1. IsFiniteSet({u}) /\ Cardinality({u}) = 1
    BY FS_Singleton
  <2>2. Cardinality({u} \cup {t}) = Cardinality({u}) + 1
    BY <2>1, FS_AddElement
  <2>3. {u} \cup {t} = {t, u}  OBVIOUS
  <2> QED  BY <2>1, <2>2, <2>3
<1>4. Cardinality({t, u}) <= 1  BY <1>2
<1> QED  BY <1>3, <1>4

\* Steps outside the threads forget nothing.
LEMMA SerialQuiet ==
  ASSUME IInv, SerialInv, IInv', UNCHANGED <<counters, list, pc, cur, value, serial>>,
         live' \subseteq live, \A f \in live' : due'[f] = due[f],
         \A f \in live' \cap signaled : f \in signaled'
  PROVE  SerialInv'
<1>1. \A f \in Fence : OnTimeline(f)' => f \in live'
  BY DEF IInv, NoDangling
<1>2. \A f \in list : f \in live'
  BY <1>1 DEF IInv, TypeOK, OnTimeline
<1>3. ASSUME NEW t \in Thread, pc[t] = "move"  PROVE due'[cur[t]] = due[cur[t]]
  <2>1. cur[t] \in Fence /\ cur[t] \in local'[t]
    BY <1>3 DEF IInv, LocalsOK, TypeOK
  <2>2. cur[t] \in live'
    BY <1>1, <2>1 DEF OnTimeline, Held
  <2> QED  BY <2>2
<1> QED  BY <1>2, <1>3 DEF SerialInv, counters

LEMMA SerialStep ==
  IInv /\ IInv' /\ EarlyInv /\ SerialInv /\ [MCNext]_<<vars, serial>> => SerialInv'
<1> SUFFICES ASSUME IInv, IInv', EarlyInv, SerialInv, [MCNext]_<<vars, serial>>, serial'
             PROVE  SerialInv'
  BY DEF SerialInv
<1>0. TypeOK /\ NoDangling /\ serial /\ UNCHANGED serial
  BY DEF IInv, MCNext
<1> USE <1>0, FenceAssumption DEF objects, counters, status, threads, Goto
<1>1. CASE Prepare
  BY <1>1 DEF Prepare, SerialInv, TypeOK
<1>2. ASSUME NEW t \in Creator, NEW o \in Offset, CreateRead(t, o), MCNext  PROVE SerialInv'
  <2>1. t \in Thread  BY DEF Thread
  <2>2. \A u \in Thread \ {t} : pc[u] = "idle" /\ pc'[u] = "idle"
    BY <1>2, <2>1, BeginsAlone DEF CreateRead, MCNext
  <2>3. pc'[t] = "create" /\ value'[t] = commits + o /\ pc[t] = "idle"
    BY <1>2, <2>1 DEF CreateRead, TypeOK
  <2>4. value'[t] >= dones  BY <2>3 DEF EarlyInv, TypeOK
  <2>5. UNCHANGED <<commits, dones, live, due, signaled, list>>
    BY <1>2 DEF CreateRead
  <2>6. \A f \in list : due[f] > dones \/ f \in signaled
    BY <2>2, <2>3 DEF SerialInv
  <2> QED  BY <2>2, <2>3, <2>4, <2>5, <2>6 DEF SerialInv, InProgress
<1>3. ASSUME NEW t \in Creator, NEW f \in Fence, CreateFd(t, f)  PROVE SerialInv'
  <2>1. t \in Thread /\ pc[t] = "create"  BY <1>3 DEF Thread, CreateFd
  <2>2. /\ live' = live \cup {f} /\ f \notin live /\ due'[f] = value[t]
        /\ \A g \in Fence \ {f} : due'[g] = due[g]
        /\ UNCHANGED <<commits, dones, signaled, list>>
        /\ pc'[t] = "add" /\ \A u \in Thread \ {t} : pc'[u] = pc[u]
    BY <1>3, <2>1 DEF CreateFd, TypeOK
  <2>3. \A u \in Thread \ {t} : pc[u] = "idle"
    BY <2>1 DEF SerialInv, InProgress
  <2>4. commits' - due'[f] < Half
    <3>1. value[t] >= dones  BY <2>1 DEF SerialInv
    <3> QED  BY <2>1, <2>2, <3>1, HalfRange, WindowAssumption DEF EarlyInv, TypeOK
  <2>5. f \notin list  BY <2>2 DEF NoDangling, OnTimeline
  <2>6. \A g \in list : due'[g] > dones \/ g \in signaled
    BY <2>1, <2>2, <2>3, <2>5 DEF SerialInv, TypeOK
  <2> QED  BY <2>1, <2>2, <2>3, <2>4, <2>6 DEF SerialInv, InProgress, TypeOK
<1>4. ASSUME NEW t \in Creator, CreateFail(t)  PROVE SerialInv'
  <2>1. t \in Thread /\ pc[t] = "create"  BY <1>4 DEF Thread, CreateFail
  <2>2. /\ UNCHANGED <<commits, dones, live, due, signaled, list>>
        /\ \A u \in Thread : pc'[u] = "idle"
    BY <1>4, <2>1 DEF CreateFail, TypeOK, SerialInv, InProgress
  <2>3. \A f \in list : due[f] > dones \/ f \in signaled
    BY <2>1 DEF SerialInv, InProgress
  <2> QED  BY <2>2, <2>3 DEF SerialInv, InProgress
<1>5. ASSUME NEW t \in Creator, CreateAdd(t)  PROVE SerialInv'
  <2>1. t \in Thread /\ pc[t] = "add"  BY <1>5 DEF Thread, CreateAdd
  <2>2. /\ UNCHANGED <<commits, dones, live, due, signaled>>
        /\ pc'[t] = "trigger" /\ \A u \in Thread \ {t} : pc'[u] = "idle"
    BY <1>5, <2>1 DEF CreateAdd, TypeOK, SerialInv, InProgress
  <2> QED  BY <2>1, <2>2 DEF SerialInv, InProgress
<1>6. ASSUME NEW t \in Signaler, NEW e \in BOOLEAN, Signal(t, e) \/ ResetTimeline(t), MCNext
      PROVE  SerialInv'
  <2>1. t \in Thread  BY DEF Thread
  <2>2. pc[t] = "idle" /\ pc' = [pc EXCEPT ![t] = "trigger"]
    BY <1>6 DEF Signal, ResetTimeline
  <2>3. \A u \in Thread \ {t} : pc[u] = "idle" /\ pc'[u] = "idle"
    BY <1>6, <2>1, <2>2, BeginsAlone DEF MCNext
  <2>4. pc'[t] = "trigger"  BY <2>1, <2>2 DEF TypeOK
  <2>5. UNCHANGED <<commits, live, due, signaled, list>>
    BY <1>6 DEF Signal, ResetTimeline
  <2> QED  BY <2>1, <2>3, <2>4, <2>5 DEF SerialInv, InProgress
<1>7. ASSUME NEW t \in Thread, TriggerSplice(t)  PROVE SerialInv'
  <2>1. /\ UNCHANGED <<commits, dones, live, due, signaled>> /\ list' = {}
        /\ pc[t] = "trigger" /\ pc'[t] \in {"idle", "check"}
    BY <1>7 DEF TriggerSplice, TypeOK
  <2>2. \A u \in Thread \ {t} : pc'[u] = "idle"
    BY <1>7, <2>1 DEF TriggerSplice, TypeOK, SerialInv, InProgress
  <2> QED  BY <2>1, <2>2 DEF SerialInv, InProgress
<1>8. ASSUME NEW t \in Thread, NEW f \in Fence, TriggerCheck(t, f)  PROVE SerialInv'
  <2>1. /\ UNCHANGED <<commits, dones, live, due, list>> /\ signaled \subseteq signaled'
        /\ pc[t] = "check" /\ f \in local[t]
    BY <1>8 DEF TriggerCheck
  <2>2. f \in live  BY <2>1 DEF NoDangling, OnTimeline, Held
  <2>3. \A u \in Thread \ {t} : pc[u] = "idle" /\ pc'[u] = "idle"
    BY <1>8, <2>1 DEF TriggerCheck, TypeOK, SerialInv, InProgress
  <2>4. pc'[t] \in {"put", "move"} /\ cur'[t] = f
    BY <1>8 DEF TriggerCheck, TypeOK
  <2>5. pc'[t] = "move" => due[f] > dones
    <3> SUFFICES ASSUME pc'[t] = "move", due[f] <= dones PROVE FALSE
      BY DEF TypeOK
    <3>1. f \notin signaled /\ ~Reached(f)
      BY <1>8, <2>4 DEF TriggerCheck, TypeOK
    <3>2. commits - due[f] < Half  BY <2>2, <3>1 DEF SerialInv
    <3> QED  BY <2>2, <3>1, <3>2, DueIsReached
  <2>6. \A g \in list : due[g] > dones \/ g \in signaled
    BY <2>1, <2>3 DEF SerialInv
  <2> QED  BY <2>1, <2>3, <2>4, <2>5, <2>6 DEF SerialInv, InProgress
<1>9. ASSUME NEW t \in Thread, TriggerMove(t)  PROVE SerialInv'
  <2>1. /\ UNCHANGED <<commits, dones, live, due, signaled>>
        /\ pc[t] = "move" /\ list' = list \cup {cur[t]} /\ pc'[t] \in {"idle", "check"}
    BY <1>9 DEF TriggerMove, Advance, TypeOK
  <2>2. \A u \in Thread \ {t} : pc[u] = "idle" /\ pc'[u] = "idle"
    BY <1>9, <2>1 DEF TriggerMove, Advance, TypeOK, SerialInv, InProgress
  <2>3. due[cur[t]] > dones  BY <2>1 DEF SerialInv
  <2>4. \A g \in list : due[g] > dones \/ g \in signaled
    BY <2>1, <2>2 DEF SerialInv
  <2> QED  BY <2>1, <2>2, <2>3, <2>4 DEF SerialInv, InProgress
<1>10. ASSUME NEW t \in Thread, TriggerPut(t)  PROVE SerialInv'
  <2>1. cur[t] \in Fence /\ PutFence(cur[t])
    BY <1>10 DEF TriggerPut, LocalsOK, TypeOK, IInv
  <2>2. /\ UNCHANGED <<commits, dones, list>> /\ pc[t] = "put" /\ pc'[t] \in {"idle", "check"}
    BY <1>10 DEF TriggerPut, Advance, TypeOK
  <2>3. \A u \in Thread \ {t} : pc[u] = "idle" /\ pc'[u] = "idle"
    BY <1>10, <2>2 DEF TriggerPut, Advance, TypeOK, SerialInv, InProgress
  <2>4. /\ live' \subseteq live /\ \A g \in live' : due'[g] = due[g]
        /\ \A g \in live' \cap signaled : g \in signaled'
    BY <2>1, PutMovesNothing
  <2>5. \A g \in list : g \in live'
    BY <2>2 DEF IInv, NoDangling, OnTimeline, TypeOK
  <2>6. \A g \in list : due[g] > dones \/ g \in signaled
    BY <2>2, <2>3 DEF SerialInv
  <2> QED  BY <2>2, <2>3, <2>4, <2>5, <2>6 DEF SerialInv, InProgress
<1>11. ASSUME NEW f \in Fence, SyncGet(f)  PROVE SerialInv'
  BY <1>11, SerialQuiet DEF SyncGet
<1>12. ASSUME NEW f \in Fence, SyncPut(f) \/ CloseFd(f)  PROVE SerialInv'
  <2>1. PutFence(f) /\ UNCHANGED <<counters, list, pc, cur, value>>
    BY <1>12 DEF SyncPut, CloseFd
  <2> QED  BY <2>1, PutMovesNothing, SerialQuiet
<1>13. ASSUME NEW f \in Fence, Poll(f)  PROVE SerialInv'
  BY <1>13, SerialQuiet DEF Poll
<1>14. CASE Deinit
  BY <1>14, SerialQuiet DEF Deinit
<1>15. CASE UNCHANGED <<vars, serial>>
  BY <1>15, SerialQuiet DEF vars
<1> QED
  BY <1>1, <1>2, <1>3, <1>4, <1>5, <1>6, <1>7, <1>8, <1>9, <1>10, <1>11, <1>12,
     <1>13, <1>14,
     <1>15
  DEF MCNext, Next, CreatorStep, SignalerStep, TriggerStep, UserStep

(***************************************************************************)
(* When creates and signals do not overlap, no fence whose commit is done  *)
(* is left on the list unsignalled after a call, for every number of       *)
(* fences and whatever the counters stand at (sde_fence_create,            *)
(* sde_fence_signal): the lost signal needs two calls at once.             *)
(***************************************************************************)
THEOREM FenceSerialSignaled == MCSpec => []SerialSignaled
<1>1. MCInit => Init /\ EarlyInv /\ SerialInv
  <2>1. Init => EarlyInv
    BY FenceAssumption DEF Init, EarlyInv
  <2>2. Init => SerialInv
    BY DEF Init, SerialInv, InProgress
  <2> QED  BY <2>1, <2>2 DEF MCInit
<1>2. [MCNext]_<<vars, serial>> => [Next]_vars
  BY DEF MCNext, vars
<1>3. SerialInv => SerialSignaled
  BY DEF SerialInv, SerialSignaled, QuiescentSignaled
<1> QED  BY InitIInv, NextIInv, <1>1, <1>2, EarlyStep, SerialStep, <1>3, PTL DEF MCSpec

-----------------------------------------------------------------------------
(* The rotator: what is in a list.                                         *)

LEMMA RangeSeq ==
  ASSUME NEW S, NEW q \in Seq(S)
  PROVE  /\ Range(q) = {q[i] : i \in 1 .. Len(q)} /\ Range(q) \subseteq S
         /\ (q = <<>>) <=> (Range(q) = {})
<1>1. /\ Len(q) \in Nat /\ DOMAIN q = 1 .. Len(q) /\ \A i \in 1 .. Len(q) : q[i] \in S
      /\ (q = <<>>) <=> (Len(q) = 0)
  OBVIOUS
<1>2. Range(q) = {q[i] : i \in 1 .. Len(q)}
  BY <1>1 DEF Range
<1>3. ASSUME q # <<>> PROVE Range(q) # {}
  <2>1. 1 \in 1 .. Len(q)
    BY <1>1, <1>3
  <2>2. q[1] \in Range(q)
    BY <1>2, <2>1
  <2> QED
    BY <2>2
<1>4. ASSUME q = <<>> PROVE Range(q) = {}
  <2>1. 1 .. Len(q) = {}
    BY <1>1, <1>4
  <2> QED
    BY <1>2, <2>1
<1> QED
  BY <1>1, <1>2, <1>3, <1>4

LEMMA RangeWithin ==
  ASSUME NEW S, NEW q \in Seq(S), NEW T, \A i \in 1 .. Len(q) : q[i] \in T
  PROVE  Range(q) \subseteq T
  BY RangeSeq

LEMMA RangeAppend ==
  ASSUME NEW S, NEW q \in Seq(S), NEW e \in S
  PROVE  /\ Append(q, e) \in Seq(S) /\ Range(Append(q, e)) = Range(q) \cup {e}
         /\ IsInjective(q) /\ e \notin Range(q) => IsInjective(Append(q, e))
<1>1. /\ Append(q, e) \in Seq(S) /\ Len(Append(q, e)) = Len(q) + 1
      /\ \A i \in 1 .. Len(q) : Append(q, e)[i] = q[i]
      /\ Append(q, e)[Len(q) + 1] = e
  BY AppendProperties
<1> DEFINE p == Append(q, e)
<1> HIDE DEF p
<1>2. /\ p \in Seq(S) /\ Len(p) = Len(q) + 1 /\ Len(q) \in Nat
      /\ \A i \in 1 .. Len(q) : p[i] = q[i]
      /\ p[Len(q) + 1] = e
  BY <1>1 DEF p
<1>3. Range(p) = Range(q) \cup {e}
  <2>1. \A i \in 1 .. Len(p) : p[i] \in Range(q) \cup {e}
    BY <1>2 DEF Range
  <2>2. \A i \in 1 .. Len(q) : q[i] \in Range(p)
    BY <1>2 DEF Range
  <2>3. e \in Range(p)
    BY <1>2 DEF Range
  <2> QED
    BY <1>2, <2>1, <2>2, <2>3, RangeSeq
<1>4. ASSUME IsInjective(q), e \notin Range(q) PROVE IsInjective(p)
  <2>1. \A i, j \in 1 .. Len(q) : q[i] = q[j] => i = j
    BY <1>4 DEF IsInjective
  <2>2. \A i \in 1 .. Len(q) : q[i] # e
    BY <1>4 DEF Range
  <2>3. \A i, j \in 1 .. Len(p) : p[i] = p[j] => i = j
    BY <1>2, <2>1, <2>2
  <2> QED
    BY <1>2, <2>3 DEF IsInjective
<1> QED
  BY <1>1, <1>3, <1>4 DEF p

LEMMA RangeTail ==
  ASSUME NEW S, NEW q \in Seq(S), q # <<>>
  PROVE  /\ Tail(q) \in Seq(S) /\ Head(q) \in S
         /\ Range(q) = {Head(q)} \cup Range(Tail(q))
         /\ IsInjective(q) => IsInjective(Tail(q)) /\ Head(q) \notin Range(Tail(q))
<1> DEFINE p == Tail(q)
<1>1. /\ p \in Seq(S) /\ Len(p) = Len(q) - 1 /\ Len(q) \in Nat \ {0} /\ Head(q) = q[1]
      /\ \A i \in 1 .. Len(p) : p[i] = q[i + 1]
  BY HeadTailProperties
<1> HIDE DEF p
<1>2. Range(q) = {Head(q)} \cup Range(p)
  <2>1. \A i \in 1 .. Len(q) : q[i] \in {q[1]} \cup Range(p)
    <3> SUFFICES ASSUME NEW i \in 1 .. Len(q), i # 1 PROVE q[i] \in Range(p)
      OBVIOUS
    <3>1. i - 1 \in 1 .. Len(p) /\ p[i - 1] = q[i]
      BY <1>1
    <3> QED
      BY <1>1, <3>1 DEF Range
  <2>2. \A i \in 1 .. Len(p) : p[i] \in Range(q)
    BY <1>1 DEF Range
  <2>3. q[1] \in Range(q)
    BY <1>1 DEF Range
  <2>4. Range(q) \subseteq {q[1]} \cup Range(p)
    BY <2>1, RangeWithin
  <2>5. Range(p) \subseteq Range(q)
    BY <1>1, <2>2, RangeWithin
  <2> QED
    BY <1>1, <2>3, <2>4, <2>5
<1>3. ASSUME IsInjective(q) PROVE IsInjective(p) /\ Head(q) \notin Range(p)
  <2>1. \A i, j \in 1 .. Len(q) : q[i] = q[j] => i = j
    BY <1>3 DEF IsInjective
  <2>2. \A i, j \in 1 .. Len(p) : p[i] = p[j] => i = j
    BY <1>1, <2>1
  <2>3. \A i \in 1 .. Len(p) : p[i] # q[1]
    BY <1>1, <2>1
  <2> QED
    BY <1>1, <2>2, <2>3 DEF IsInjective, Range
<1> QED
  BY <1>1, <1>2, <1>3 DEF p

LEMMA RangeRemove ==
  ASSUME NEW S, NEW q \in Seq(S), NEW e
  PROVE  /\ RemoveFirst(q, e) \in Seq(S)
         /\ Range(RemoveFirst(q, e)) \subseteq Range(q)
         /\ Range(q) \subseteq Range(RemoveFirst(q, e)) \cup {e}
         /\ IsInjective(q) => IsInjective(RemoveFirst(q, e))
                              /\ e \notin Range(RemoveFirst(q, e))
<1> DEFINE p == RemoveFirst(q, e)
<1>1. Removed(p, q, e, S)
  BY RemoveFirstIs
<1> HIDE DEF p
<1>2. CASE p = q /\ \A i \in 1 .. Len(q) : q[i] # e
  BY <1>2 DEF p, Range
<1>3. ASSUME NEW k \in 1 .. Len(q), q[k] = e, p \in Seq(S), Len(p) = Len(q) - 1,
             \A i \in 1 .. Len(q) - 1 : p[i] = IF i < k THEN q[i] ELSE q[i + 1]
      PROVE  /\ p \in Seq(S) /\ Range(p) \subseteq Range(q)
             /\ Range(q) \subseteq Range(p) \cup {e}
             /\ IsInjective(q) => IsInjective(p) /\ e \notin Range(p)
  <2>1. Len(q) \in Nat /\ Len(p) \in Nat
    BY <1>3
  <2>2. \A i \in 1 .. Len(p) : p[i] \in Range(q)
    BY <1>3, <2>1 DEF Range
  <2>3. ASSUME NEW i \in 1 .. Len(q) PROVE q[i] \in Range(p) \cup {e}
    <3>1. CASE i < k
      <4>1. i \in 1 .. Len(p) /\ p[i] = q[i]
        BY <1>3, <2>1, <3>1
      <4> QED
        BY <1>3, <4>1 DEF Range
    <3>2. CASE i = k
      BY <1>3, <3>2
    <3>3. CASE i > k
      <4>1. i - 1 \in 1 .. Len(p) /\ p[i - 1] = q[i]
        BY <1>3, <2>1, <3>3
      <4> QED
        BY <1>3, <4>1 DEF Range
    <3> QED
      BY <2>1, <3>1, <3>2, <3>3
  <2>4. ASSUME IsInjective(q) PROVE IsInjective(p) /\ e \notin Range(p)
    <3>1. \A i, j \in 1 .. Len(q) : q[i] = q[j] => i = j
      BY <2>4 DEF IsInjective
    <3>2. \A i, j \in 1 .. Len(p) : p[i] = p[j] => i = j
      BY <1>3, <2>1, <3>1
    <3>3. \A i \in 1 .. Len(p) : p[i] # q[k]
      BY <1>3, <2>1, <3>1
    <3> QED
      BY <1>3, <3>2, <3>3 DEF IsInjective, Range
  <2> QED
    BY <1>3, <2>2, <2>3, <2>4, RangeSeq
<1> QED
  BY <1>1, <1>2, <1>3 DEF Removed, p

LEMMA RangeConcat ==
  ASSUME NEW S, NEW q \in Seq(S), NEW r \in Seq(S)
  PROVE  q \o r \in Seq(S) /\ Range(q \o r) = Range(q) \cup Range(r)
<1>1. /\ q \o r \in Seq(S) /\ Len(q \o r) = Len(q) + Len(r)
      /\ \A i \in 1 .. Len(q) + Len(r) :
           (q \o r)[i] = IF i <= Len(q) THEN q[i] ELSE r[i - Len(q)]
  BY ConcatProperties
<1> DEFINE p == q \o r
<1> HIDE DEF p
<1>2. /\ p \in Seq(S) /\ Len(p) = Len(q) + Len(r) /\ Len(q) \in Nat /\ Len(r) \in Nat
      /\ \A i \in 1 .. Len(p) : p[i] = IF i <= Len(q) THEN q[i] ELSE r[i - Len(q)]
  BY <1>1 DEF p
<1>3. ASSUME NEW i \in 1 .. Len(p) PROVE p[i] \in Range(q) \cup Range(r)
  <2>1. CASE i <= Len(q)
    <3>1. i \in 1 .. Len(q) /\ p[i] = q[i]
      BY <1>2, <2>1
    <3> QED
      BY <3>1, RangeSeq
  <2>2. CASE ~(i <= Len(q))
    <3>1. i - Len(q) \in 1 .. Len(r) /\ p[i] = r[i - Len(q)]
      BY <1>2, <2>2
    <3> QED
      BY <3>1, RangeSeq
  <2> QED
    BY <2>1, <2>2
<1>4. \A i \in 1 .. Len(q) : q[i] \in Range(p)
  <2> SUFFICES ASSUME NEW i \in 1 .. Len(q) PROVE q[i] \in Range(p)
    OBVIOUS
  <2>1. i \in 1 .. Len(p) /\ p[i] = q[i]
    BY <1>2
  <2> QED
    BY <1>2, <2>1 DEF Range
<1>5. \A i \in 1 .. Len(r) : r[i] \in Range(p)
  <2> SUFFICES ASSUME NEW i \in 1 .. Len(r) PROVE r[i] \in Range(p)
    OBVIOUS
  <2> DEFINE k == i + Len(q)
  <2>1. k \in 1 .. Len(p) /\ ~(k <= Len(q)) /\ k - Len(q) = i
    BY <1>2
  <2> HIDE DEF k
  <2>2. p[k] = r[i]
    BY <1>2, <2>1
  <2> QED
    BY <1>2, <2>1, <2>2 DEF Range
<1>6. Range(p) = Range(q) \cup Range(r)
  <2>1. Range(p) \subseteq Range(q) \cup Range(r)
    BY <1>2, <1>3, RangeWithin
  <2>2. Range(q) \subseteq Range(p) /\ Range(r) \subseteq Range(p)
    BY <1>4, <1>5, RangeWithin
  <2> QED
    BY <2>1, <2>2
<1> QED
  BY <1>1, <1>6 DEF p

\* Any value of an index may be assigned: one outside the sequence is ignored.
LEMMA SeqAssign ==
  ASSUME NEW S, NEW q \in Seq(S), NEW i, NEW v \in S
  PROVE  [q EXCEPT ![i] = v] \in Seq(S)
<1>1. CASE i \in 1 .. Len(q)
  BY <1>1, ExceptSeq
<1>2. CASE i \notin 1 .. Len(q)
  <2>1. DOMAIN q = 1 .. Len(q)
    OBVIOUS
  <2>2. [q EXCEPT ![i] = v] = q
    BY <1>2, <2>1
  <2> QED
    BY <2>2
<1> QED
  BY <1>1, <1>2

-----------------------------------------------------------------------------
(* The rotator: the record of a context.                                   *)

Ids == Ctxs \X Nat
WorkItems == {"submit", "retire"} \X Request
Statuses == {"queued", "done", "error"}

RotContext(c) ==
    [pending : Seq(Request), retired : Seq(Request), req : [Request -> {None} \cup ({c} \X Nat)],
     ready : Seq(Nat), abort : BOOLEAN, on : BOOLEAN, next : Nat, curr : Nat,
     work : Seq(WorkItems), status : Seq(Statuses)]

\* x is a record of c whose requests are all on one of its two lists.
ContextOf(c, x) ==
    /\ x \in RotContext(c)
    /\ Range(x.pending) \cup Range(x.retired) = Request

\* y is x with its requests and its works moved on, or its timeline caught up.
Follows(c, x, y) ==
    /\ ContextOf(c, y)
    /\ y.next = x.next /\ y.on = x.on /\ y.curr \in {x.curr, x.next}

LEMMA ContextFields ==
  ASSUME NEW c, NEW x, ContextOf(c, x)
  PROVE  /\ x.pending \in Seq(Request) /\ x.retired \in Seq(Request)
         /\ x.req \in [Request -> {None} \cup ({c} \X Nat)] /\ x.ready \in Seq(Nat)
         /\ x.abort \in BOOLEAN /\ x.on \in BOOLEAN /\ x.next \in Nat /\ x.curr \in Nat
         /\ x.work \in Seq(WorkItems) /\ x.status \in Seq(Statuses)
         /\ Range(x.pending) \cup Range(x.retired) = Request
  BY DEF ContextOf, RotContext

LEMMA FollowsTwice ==
  ASSUME NEW c, NEW x, NEW y, NEW z, Follows(c, x, y), Follows(c, y, z)
  PROVE  Follows(c, x, z)
  BY DEF Follows

LEMMA RequestsExist ==
  /\ Request # {} /\ Requests \in Seq(Request)
<1>1. Requests \in Seq(Range(Requests)) /\ Requests # <<>>
  BY RotAssumption
<1>2. Range(Requests) # {}
  BY <1>1, RangeSeq
<1> QED
  BY <1>1, <1>2 DEF Request

LEMMA EnqueueFollows ==
  ASSUME NEW c, NEW x, ContextOf(c, x), NEW w \in WorkItems
  PROVE  Follows(c, x, Enqueue(x, w)) /\ Enqueue(x, w).curr = x.curr
<1>1. CASE w \in Range(x.work)
  BY <1>1 DEF Enqueue, Follows
<1>2. CASE w \notin Range(x.work)
  <2> DEFINE l == Append(x.work, w)
  <2>1. l \in Seq(WorkItems)
    BY ContextFields, RangeAppend
  <2> HIDE DEF l
  <2> DEFINE y == [x EXCEPT !.work = l]
  <2>2. y \in RotContext(c)
    BY <2>1 DEF ContextOf, RotContext
  <2>3. /\ y.pending = x.pending /\ y.retired = x.retired
        /\ y.next = x.next /\ y.on = x.on /\ y.curr = x.curr
    BY DEF ContextOf, RotContext
  <2>4. Enqueue(x, w) = y
    BY <1>2 DEF Enqueue, l
  <2> HIDE DEF y
  <2> QED
    BY <2>2, <2>3, <2>4 DEF Follows, ContextOf
<1> QED
  BY <1>1, <1>2

LEMMA RetireFollows ==
  ASSUME NEW c, NEW x, ContextOf(c, x), NEW r \in Request
  PROVE  /\ Follows(c, x, Retire(x, r))
         /\ Retire(x, r).work = x.work /\ Retire(x, r).ready = x.ready
<1> DEFINE p == RemoveFirst(x.pending, r)
           q == RemoveFirst(x.retired, r)
           l == Append(q, r)
           m == [x.req EXCEPT ![r] = None]
<1>1. /\ p \in Seq(Request) /\ Range(p) \subseteq Range(x.pending)
      /\ Range(x.pending) \subseteq Range(p) \cup {r}
  BY ContextFields, RangeRemove
<1>2. /\ q \in Seq(Request) /\ Range(q) \subseteq Range(x.retired)
      /\ Range(x.retired) \subseteq Range(q) \cup {r}
  BY ContextFields, RangeRemove
<1>3. l \in Seq(Request) /\ Range(l) = Range(q) \cup {r}
  BY <1>2, RangeAppend
<1>4. m \in [Request -> {None} \cup ({c} \X Nat)]
  BY ContextFields
<1>5. Retire(x, r) = [x EXCEPT !.req = m, !.pending = p, !.retired = l]
  BY DEF Retire
<1> HIDE DEF p, q, l, m
<1> DEFINE y == [x EXCEPT !.req = m, !.pending = p, !.retired = l]
<1>6. y \in RotContext(c)
  BY <1>1, <1>3, <1>4 DEF ContextOf, RotContext
<1>7. /\ y.pending = p /\ y.retired = l /\ y.work = x.work /\ y.ready = x.ready
      /\ y.next = x.next /\ y.on = x.on /\ y.curr = x.curr
  BY DEF ContextOf, RotContext
<1>8. Range(p) \cup Range(l) = Request
  BY <1>1, <1>2, <1>3, ContextFields
<1> HIDE DEF y
<1> QED
  BY <1>5, <1>6, <1>7, <1>8 DEF Follows, ContextOf, y

LEMMA ResyncFollows ==
  ASSUME NEW c, NEW x, ContextOf(c, x)
  PROVE  Follows(c, x, Resync(x)) /\ Resync(x).work = x.work
<1>1. CASE x.next > x.curr
  <2> DEFINE y == [x EXCEPT !.curr = x.next]
  <2>1. y \in RotContext(c)
    BY ContextFields DEF ContextOf, RotContext
  <2>2. /\ y.pending = x.pending /\ y.retired = x.retired /\ y.work = x.work
        /\ y.next = x.next /\ y.on = x.on /\ y.curr = x.next
    BY DEF ContextOf, RotContext
  <2>3. Resync(x) = y
    BY <1>1 DEF Resync
  <2> HIDE DEF y
  <2> QED
    BY <2>1, <2>2, <2>3 DEF Follows, ContextOf
<1>2. CASE ~(x.next > x.curr)
  BY <1>2 DEF Resync, Follows
<1> QED
  BY <1>1, <1>2

\* With no request pending there is a retired one to submit.
LEMMA SubmitFollows ==
  ASSUME NEW c, NEW x, ContextOf(c, x), x.pending = <<>>
  PROVE  Follows(c, x, Submit(x))
<1> DEFINE r == Head(x.retired)
           t == Tail(x.retired)
<1>1. Range(x.pending) = {}
  BY ContextFields, RangeSeq
<1>2. Range(x.retired) = Request /\ x.retired # <<>>
  <2>1. Range(x.retired) = Request
    BY <1>1, ContextFields
  <2> QED
    BY <2>1, ContextFields, RangeSeq, RequestsExist
<1>3. r \in Request /\ t \in Seq(Request) /\ Range(x.retired) = {r} \cup Range(t)
  BY <1>2, ContextFields, RangeTail
<1> HIDE DEF r, t
<1>4. <<r>> \in Seq(Request) /\ Range(<<r>>) = {r}
  <2>1. <<r>> \in Seq(Request) /\ Len(<<r>>) = 1 /\ <<r>>[1] = r
    BY <1>3
  <2>2. Range(<<r>>) \subseteq {r}
    <3>1. \A i \in 1 .. Len(<<r>>) : <<r>>[i] \in {r}
      BY <2>1
    <3> QED
      BY <2>1, <3>1, RangeWithin
  <2>3. <<r>>[1] \in Range(<<r>>)
    BY <2>1 DEF Range
  <2> QED
    BY <2>1, <2>2, <2>3
<1> DEFINE y == [x EXCEPT !.pending = <<r>>, !.retired = t]
<1>5. y \in RotContext(c)
  BY <1>3, <1>4 DEF ContextOf, RotContext
<1>6. /\ y.pending = <<r>> /\ y.retired = t
      /\ y.next = x.next /\ y.on = x.on /\ y.curr = x.curr
  BY DEF ContextOf, RotContext
<1>7. Submit(x) = Enqueue(y, <<"submit", r>>)
  BY DEF Submit, r, t
<1> HIDE DEF y
<1>8. Follows(c, x, y)
  BY <1>2, <1>3, <1>4, <1>5, <1>6 DEF Follows, ContextOf
<1>9. <<"submit", r>> \in WorkItems
  BY <1>3 DEF WorkItems
<1> QED
  BY <1>7, <1>8, <1>9, EnqueueFollows, FollowsTwice DEF Follows

\* v4l2 gives a frame back: its request is retired and its status is set.
LEMMA DeviceRunFollows ==
  ASSUME NEW c, NEW x, ContextOf(c, x), x.pending # <<>>, x.ready # <<>>,
         NEW outcome \in {"error", "done"}
  PROVE  Follows(c, x, DeviceRun(x, outcome))
<1> DEFINE r == Head(x.pending)
           z == Retire(x, r)
           l == Tail(x.ready)
           v == [z.status EXCEPT ![Head(x.ready)] = outcome]
           y == [z EXCEPT !.ready = l, !.status = v]
<1>1. r \in Request
  BY ContextFields, RangeTail
<1>2. Follows(c, x, z)
  BY <1>1, RetireFollows
<1>3. l \in Seq(Nat)
  BY ContextFields, RangeTail
<1>4. v \in Seq(Statuses)
  <2>1. z.status \in Seq(Statuses) /\ outcome \in Statuses
    BY <1>2, ContextFields DEF Follows, Statuses
  <2> HIDE DEF z
  <2> QED
    BY <2>1, SeqAssign
<1>5. DeviceRun(x, outcome) = IF outcome = "error" THEN Resync(y) ELSE y
  <2>1. z.ready = x.ready
    BY <1>1, RetireFollows
  <2>2. z \in RotContext(c)
    BY <1>2 DEF Follows, ContextOf
  <2> HIDE DEF z
  <2> DEFINE w == [z EXCEPT !.ready = Tail(@), !.status[Head(x.ready)] = outcome]
  <2>3. w = y
    BY <2>1, <2>2 DEF RotContext
  <2>4. DeviceRun(x, outcome) = IF outcome = "error" THEN Resync(w) ELSE w
    BY DEF DeviceRun, z, r
  <2> QED
    BY <2>3, <2>4
<1> HIDE DEF r, z, l, v
<1>6. Follows(c, z, y)
  <2>1. y \in RotContext(c)
    BY <1>2, <1>3, <1>4 DEF Follows, ContextOf, RotContext
  <2>2. /\ y.pending = z.pending /\ y.retired = z.retired
        /\ y.next = z.next /\ y.on = z.on /\ y.curr = z.curr
    BY <1>2 DEF Follows, ContextOf, RotContext
  <2> HIDE DEF y
  <2> QED
    BY <1>2, <2>1, <2>2 DEF Follows, ContextOf
<1> HIDE DEF y
<1>7. Follows(c, x, y)
  BY <1>2, <1>6, FollowsTwice
<1>8. Follows(c, x, Resync(y))
  BY <1>7, ResyncFollows, FollowsTwice DEF Follows
<1> QED
  BY <1>5, <1>7, <1>8

LEMMA OutcomeIs ==
  ASSUME NEW x
  PROVE  /\ Outcome(x) \in {"error", "done"} =>
              x.on /\ x.pending # <<>> /\ x.ready # <<>>
              /\ (x.req[Head(x.pending)] = None \/ Completed(x.req[Head(x.pending)]))
         /\ Outcome(x) = "submit" => x.on /\ x.pending = <<>>
<1> DEFINE id == x.req[Head(x.pending)]
<1>1. CASE ~x.on \/ x.abort \/ x.ready = <<>>
  BY <1>1 DEF Outcome
<1>2. CASE x.on /\ ~x.abort /\ x.ready # <<>> /\ x.pending = <<>>
  BY <1>2 DEF Outcome
<1>3. CASE x.on /\ ~x.abort /\ x.ready # <<>> /\ x.pending # <<>>
  <2>1. Outcome(x) = CASE id = None -> "error"
                       [] id # None /\ ~Completed(id) -> "none"
                       [] id # None /\ Completed(id) -> IF Failed(id) THEN "error" ELSE "done"
    BY <1>3 DEF Outcome
  <2> HIDE DEF id
  <2>2. CASE id = None
    <3>1. Outcome(x) = "error"
      BY <2>1, <2>2
    <3> QED
      BY <1>3, <2>2, <3>1 DEF id
  <2>3. CASE id # None /\ ~Completed(id)
    <3>1. Outcome(x) = "none"
      BY <2>1, <2>3
    <3> QED
      BY <3>1
  <2>4. CASE id # None /\ Completed(id)
    <3>1. Outcome(x) = IF Failed(id) THEN "error" ELSE "done"
      BY <2>1, <2>4
    <3> QED
      BY <1>3, <2>4, <3>1 DEF id
  <2> QED
    BY <2>2, <2>3, <2>4
<1> QED
  BY <1>1, <1>2, <1>3

\* Scheduling a context drops the entry of its head request at most, one that
\* the core is through with, and none when the stream is off.
LEMMA ScheduleFollows ==
  ASSUME NEW c, NEW x, ContextOf(c, x)
  PROVE  /\ Follows(c, x, Schedule(x))
         /\ ~x.on => Schedule(x) = x /\ Finished(x) = {}
         /\ \A e \in Finished(x) : e = None \/ (e \in {c} \X Nat /\ Completed(e))
<1> DEFINE y == IF Outcome(x) \in {"error", "done"} THEN DeviceRun(x, Outcome(x)) ELSE x
<1>1. Schedule(x) = IF Outcome(y) = "submit" THEN Submit(y) ELSE y
  BY DEF Schedule
<1>2. Follows(c, x, y)
  <2>1. CASE Outcome(x) \in {"error", "done"}
    BY <2>1, OutcomeIs, DeviceRunFollows
  <2>2. CASE Outcome(x) \notin {"error", "done"}
    BY <2>2 DEF Follows
  <2> QED
    BY <2>1, <2>2
<1>3. ~x.on => y = x /\ Finished(x) = {}
  BY OutcomeIs DEF Finished
<1>4. \A e \in Finished(x) : e = None \/ (e \in {c} \X Nat /\ Completed(e))
  <2> SUFFICES ASSUME NEW e \in Finished(x), e # None
               PROVE  e \in {c} \X Nat /\ Completed(e)
    OBVIOUS
  <2>1. Outcome(x) \in {"error", "done"} /\ e = x.req[Head(x.pending)]
    BY DEF Finished
  <2>2. x.pending # <<>> /\ Completed(e)
    BY <2>1, OutcomeIs
  <2>3. Head(x.pending) \in Request
    BY <2>2, ContextFields, RangeTail
  <2> QED
    BY <2>1, <2>2, <2>3, ContextFields
<1> HIDE DEF y
<1>5. Follows(c, x, Schedule(x))
  <2>1. CASE Outcome(y) = "submit"
    <3>1. y.pending = <<>>
      BY <2>1, OutcomeIs
    <3>2. Follows(c, y, Submit(y))
      BY <1>2, <3>1, SubmitFollows DEF Follows
    <3> QED
      BY <1>1, <1>2, <2>1, <3>2, FollowsTwice
  <2>2. CASE Outcome(y) # "submit"
    BY <1>1, <1>2, <2>2
  <2> QED
    BY <2>1, <2>2
<1>6. ~x.on => Schedule(x) = x
  BY <1>1, <1>3, OutcomeIs
<1> QED
  BY <1>3, <1>4, <1>5, <1>6

\* Stopping gives all frames back and keeps requests and works as they are.
LEMMA ReturnAllKeeps ==
  ASSUME NEW c, NEW x, ContextOf(c, x)
  PROVE  /\ ContextOf(c, ReturnAll(x)) /\ ReturnAll(x).work = x.work /\ ~ReturnAll(x).on
         /\ ReturnAll(x).next = x.next /\ ReturnAll(x).curr \in {x.curr, x.next}
<1> DEFINE v == [n \in DOMAIN x.status |->
                   IF n \in Range(x.ready) THEN "error" ELSE x.status[n]]
           y == [x EXCEPT !.ready = <<>>, !.on = FALSE, !.status = v]
<1>1. v \in Seq(Statuses)
  <2>1. x.status \in Seq(Statuses) /\ DOMAIN x.status = 1 .. Len(x.status) /\ Len(x.status) \in Nat
    BY ContextFields
  <2>2. \A n \in 1 .. Len(x.status) : x.status[n] \in Statuses
    BY <2>1
  <2>3. v = [n \in 1 .. Len(x.status) |->
               IF n \in Range(x.ready) THEN "error" ELSE x.status[n]]
    BY <2>1
  <2>4. \A n \in 1 .. Len(x.status) :
          (IF n \in Range(x.ready) THEN "error" ELSE x.status[n]) \in Statuses
    BY <2>2 DEF Statuses
  <2>5. v \in [1 .. Len(x.status) -> Statuses]
    BY <2>3, <2>4
  <2> HIDE DEF v
  <2> QED
    BY <2>1, <2>5, SeqDef
<1>2. ReturnAll(x) = Resync(y)
  BY DEF ReturnAll
<1> HIDE DEF v
<1>3. y \in RotContext(c)
  <2>1. <<>> \in Seq(Nat) /\ FALSE \in BOOLEAN /\ x \in RotContext(c)
    BY DEF ContextOf
  <2> QED
    BY <1>1, <2>1 DEF RotContext
<1>4. /\ y.pending = x.pending /\ y.retired = x.retired /\ y.work = x.work
      /\ y.next = x.next /\ ~y.on /\ y.curr = x.curr
  BY DEF ContextOf, RotContext
<1> HIDE DEF y
<1>5. ContextOf(c, y)
  BY <1>3, <1>4 DEF ContextOf
<1> QED
  BY <1>2, <1>4, <1>5, ResyncFollows DEF Follows

-----------------------------------------------------------------------------
(* The rotator: the inductive invariant.  Every operation changes one      *)
(* context and hands on one entry at most, so each part says where an      *)
(* entry, or how high a count, may be between two operations.              *)

RotStages == {"queued", "active", "failing", "done"}
RotEntry == [req : Request, frame : Nat, stage : RotStages, failed : BOOLEAN]
RotPlaces == {"idle", "stopping", "stop_cancel", "stop_submit", "stop_retire", "stop_end",
              "close_cancel", "flush", "closed"}

InStage(e, stages) == e \in DOMAIN entry /\ entry[e].stage \in stages

ContextsOK == DOMAIN ctx = Ctxs /\ \A c \in Ctxs : ContextOf(c, ctx[c])

\* Entries are numbered for each context, those that are gone included.
EntriesOK ==
    /\ made \in [Ctxs -> Nat]
    /\ IsFiniteSet(DOMAIN entry) /\ DOMAIN entry \subseteq Ids
    /\ \A e \in DOMAIN entry : entry[e] \in RotEntry /\ e[2] <= made[e[1]]
    /\ IsFiniteSet(lost) /\ lost \subseteq Ids /\ \A e \in lost : e[2] <= made[e[1]]

\* An entry is in one place, the one its stage says, or its work was
\* cancelled there.
QueuesOK ==
    /\ commitq \in Seq(Ids) /\ IsInjective(commitq) /\ doneq \in Seq(Ids) /\ IsInjective(doneq)
    /\ \A e \in Range(commitq) : InStage(e, {"queued"}) /\ e # committing
    /\ committing # None => InStage(committing, {"queued", "failing"})
    /\ \A e \in Range(doneq) : InStage(e, {"active"}) /\ e # finishing /\ e \notin lost
    /\ finishing # None => InStage(finishing, {"active"}) /\ finishing \notin lost
    /\ \A e \in DOMAIN entry :
        /\ entry[e].stage = "failing" => e = committing
        /\ entry[e].stage = "active" => e \in Range(doneq) \cup {finishing} \cup lost
        /\ e \in lost => entry[e].stage = "active"

\* num_active may also count entries whose done_work was cancelled, and it
\* does until the hardware resource is freed.
SlotsOK ==
    /\ slots \in [active : 0 .. MaxActive, pending : Nat]
    /\ slots.pending = Cardinality(Unreleased)
    /\ Cardinality(Holding) <= slots.active /\ slots.active <= Cardinality(Holding \cup lost)
    /\ smmu = Cardinality(Holding \cup lost)

\* The entry that a client cancels stays until the client frees it, and its
\* works do not come back.
TargetsOK ==
    /\ target \in [Ctxs -> {None} \cup [entry : Ids, work : {"commit", "done"}]]
    /\ \A c \in Ctxs : target[c] # None =>
        LET e == target[c].entry
        IN  /\ Cancelling(c) /\ e[1] = c /\ e \in DOMAIN entry /\ e \notin Range(commitq)
            /\ target[c].work = "done" => e # committing /\ e \notin Range(doneq)

\* After the cancel loop of a close no entry of the context can be made.
PlacesOK ==
    /\ at \in [Ctxs -> RotPlaces] /\ locked \in Ctxs \cup {None}
    /\ busy \in [Ctxs -> {None} \cup [req : Request, frame : Nat]]
    /\ \A c \in Ctxs :
        /\ at[c] \in {"flush", "stop_cancel"} => locked = c
        /\ at[c] \in {"close_cancel", "flush", "closed"} => ~ctx[c].on
        /\ at[c] \in {"flush", "closed"} => \A e \in DOMAIN entry : e[1] # c
        /\ at[c] = "closed" => busy[c] = None /\ ctx[c].work = <<>>

\* A session that waits for its last entry has one.
SessionsOK ==
    /\ session \in [Ctxs -> {"open", "closing", "closed"}]
    /\ \A c \in Ctxs :
        /\ session[c] = "closing" => InCore(c) # {}
        /\ at[c] \in {"close_cancel", "flush", "closed"} => session[c] # "open"
        /\ at[c] \in {"flush", "closed"} => session[c] = "closed"

\* Each entry signals once: the signals that are given and that are to come
\* are not more than frames and entries.
CountsOK ==
    \A c \in Ctxs :
        /\ Cardinality(InCore(c)) <= made[c]
        /\ ctx[c].curr + Cardinality(InCore(c)) <= ctx[c].next + made[c]

RotInv ==
    /\ ContextsOK /\ EntriesOK /\ QueuesOK /\ SlotsOK
    /\ TargetsOK /\ PlacesOK /\ SessionsOK /\ CountsOK

LEMMA NoneIsNoId ==
  /\ None \notin Ids /\ None \notin Ctxs
  BY RotAssumption DEF Ids

LEMMA CoreSets ==
  ASSUME EntriesOK
  PROVE  /\ Unreleased = {e \in DOMAIN entry : entry[e].stage # "done"}
         /\ Holding = {e \in DOMAIN entry : entry[e].stage \in {"active", "failing"}}
         /\ IsFiniteSet(Unreleased) /\ IsFiniteSet(Holding)
         /\ IsFiniteSet(Holding \cup lost) /\ IsFiniteSet(Holding \cap lost)
         /\ \A c \in Ctxs : IsFiniteSet(InCore(c))
<1>1. \A e \in DOMAIN entry : e[1] \in Ctxs
  BY DEF EntriesOK, Ids
<1>2. Unreleased = {e \in DOMAIN entry : entry[e].stage # "done"}
  BY <1>1 DEF Unreleased, InCore
<1>3. Holding = {e \in DOMAIN entry : entry[e].stage \in {"active", "failing"}}
  BY <1>2 DEF Holding
<1>4. /\ Unreleased \subseteq DOMAIN entry /\ Holding \subseteq DOMAIN entry
      /\ \A c \in Ctxs : InCore(c) \subseteq DOMAIN entry
  BY <1>2, <1>3 DEF InCore
<1>5. /\ IsFiniteSet(Unreleased) /\ IsFiniteSet(Holding)
      /\ \A c \in Ctxs : IsFiniteSet(InCore(c))
  BY <1>4, FS_Subset DEF EntriesOK
<1>6. IsFiniteSet(Holding \cup lost)
  BY <1>5, FS_Union DEF EntriesOK
<1>7. IsFiniteSet(Holding \cap lost)
  BY <1>5, FS_Intersection
<1> QED
  BY <1>2, <1>3, <1>5, <1>6, <1>7

\* The same of the next state.
LEMMA CoreSetsNext ==
  ASSUME EntriesOK'
  PROVE  /\ Unreleased' = {e \in DOMAIN entry' : entry'[e].stage # "done"}
         /\ Holding' = {e \in DOMAIN entry' : entry'[e].stage \in {"active", "failing"}}
<1>1. \A e \in DOMAIN entry' : e[1] \in Ctxs
  BY DEF EntriesOK, Ids
<1>2. Unreleased' = {e \in DOMAIN entry' : entry'[e].stage # "done"}
  BY <1>1 DEF Unreleased, InCore
<1>3. Holding' = {e \in DOMAIN entry' : entry'[e].stage \in {"active", "failing"}}
  BY <1>2 DEF Holding
<1> QED
  BY <1>2, <1>3

LEMMA StageSet ==
  ASSUME NEW x \in RotEntry, NEW stage \in RotStages
  PROVE  [x EXCEPT !.stage = stage] \in RotEntry /\ [x EXCEPT !.stage = stage].stage = stage
  BY DEF RotEntry

-----------------------------------------------------------------------------
(* The rotator: steps that leave the core alone, but for entries it is     *)
(* through with.                                                           *)

Drops ==
    /\ DOMAIN entry' \subseteq DOMAIN entry
    /\ \A e \in DOMAIN entry' : entry'[e] = entry[e]
    /\ \A e \in DOMAIN entry \ DOMAIN entry' : entry[e].stage = "done"

LEMMA DropsSets ==
  ASSUME Drops
  PROVE  /\ \A c \in Ctxs : InCore(c)' = InCore(c)
         /\ Unreleased' = Unreleased /\ Holding' = Holding
<1>1. ASSUME NEW c PROVE InCore(c)' = InCore(c)
  BY DEF Drops, InCore
<1>2. Unreleased' = Unreleased
  BY <1>1 DEF Unreleased
<1>3. Holding' = Holding
  <2>1. \A e \in Unreleased : e \in DOMAIN entry /\ e \in DOMAIN entry'
    <3>1. \A c \in Ctxs : \A e \in InCore(c) : e \in DOMAIN entry /\ e \in DOMAIN entry'
      BY DEF Drops, InCore
    <3> QED
      BY <3>1 DEF Unreleased
  <2> QED
    BY <1>2, <2>1 DEF Holding, Drops
<1> QED
  BY <1>1, <1>2, <1>3

LEMMA DropsCore ==
  ASSUME EntriesOK, QueuesOK, SlotsOK, Drops,
         UNCHANGED <<queues, slots, smmu, made, lost>>
  PROVE  EntriesOK' /\ QueuesOK' /\ SlotsOK'
<1>1. /\ commitq' = commitq /\ committing' = committing /\ doneq' = doneq
      /\ finishing' = finishing /\ slots' = slots /\ smmu' = smmu
      /\ made' = made /\ lost' = lost
  BY DEF queues
<1>2. EntriesOK'
  <2>1. IsFiniteSet(DOMAIN entry')
    BY FS_Subset DEF EntriesOK, Drops
  <2> QED
    BY <1>1, <2>1 DEF EntriesOK, Drops
<1>3. QueuesOK'
  <2>1. ASSUME NEW e, NEW stages, InStage(e, stages), "done" \notin stages
        PROVE  InStage(e, stages)'
    BY <2>1 DEF InStage, Drops
  <2>2. \A e \in Range(commitq) : InStage(e, {"queued"})'
    BY <2>1 DEF QueuesOK
  <2>3. committing # None => InStage(committing, {"queued", "failing"})'
    BY <1>1, <2>1 DEF QueuesOK
  <2>4. \A e \in Range(doneq) : InStage(e, {"active"})'
    BY <2>1 DEF QueuesOK
  <2>5. finishing # None => InStage(finishing, {"active"})'
    BY <1>1, <2>1 DEF QueuesOK
  <2> QED
    BY <1>1, <2>2, <2>3, <2>4, <2>5 DEF QueuesOK, Drops
<1>4. SlotsOK'
  BY <1>1, DropsSets DEF SlotsOK
<1> QED
  BY <1>2, <1>3, <1>4

\* A timeline that goes on or catches up, with as many entries in the core.
CaughtUp(c) ==
    /\ ctx'[c].next \in Nat /\ ctx'[c].next >= ctx[c].next
    /\ ctx'[c].curr \in {ctx[c].curr, ctx'[c].next}

LEMMA OutsideKeeps ==
  ASSUME RotInv, Drops, UNCHANGED <<target, queues, slots, smmu, made, lost>>,
         ContextsOK', PlacesOK', SessionsOK', \A c \in Ctxs : CaughtUp(c),
         \A c \in Ctxs : target[c] # None =>
             Cancelling(c)' /\ target[c].entry \in DOMAIN entry'
  PROVE  RotInv'
<1>1. EntriesOK' /\ QueuesOK' /\ SlotsOK'
  BY DropsCore DEF RotInv
<1>2. TargetsOK'
  <2>1. target' = target /\ commitq' = commitq /\ committing' = committing /\ doneq' = doneq
    BY DEF queues
  <2>2. TargetsOK
    BY DEF RotInv
  <2>3. ASSUME NEW c \in Ctxs, target[c] # None
        PROVE  LET e == target[c].entry
               IN  /\ Cancelling(c)' /\ e[1] = c /\ e \in DOMAIN entry' /\ e \notin Range(commitq)
                   /\ target[c].work = "done" => e # committing /\ e \notin Range(doneq)
    BY <2>2, <2>3 DEF TargetsOK
  <2> QED
    BY <2>1, <2>2, <2>3 DEF TargetsOK
<1>3. CountsOK'
  <2> SUFFICES ASSUME NEW c \in Ctxs
               PROVE  /\ Cardinality(InCore(c)') <= made'[c]
                      /\ ctx'[c].curr + Cardinality(InCore(c)') <= ctx'[c].next + made'[c]
    BY DEF CountsOK
  <2> DEFINE n == Cardinality(InCore(c))
  <2>1. InCore(c)' = InCore(c) /\ made' = made
    BY DropsSets
  <2>2. n \in Nat /\ made[c] \in Nat /\ ctx[c].curr \in Nat /\ ctx[c].next \in Nat
    <3>1. EntriesOK /\ ContextOf(c, ctx[c])
      BY DEF RotInv, ContextsOK
    <3>2. IsFiniteSet(InCore(c)) /\ made[c] \in Nat
      BY <3>1, CoreSets DEF EntriesOK
    <3> QED
      BY <3>1, <3>2, FS_CardinalityType, ContextFields
  <2>3. n <= made[c] /\ ctx[c].curr + n <= ctx[c].next + made[c]
    BY DEF RotInv, CountsOK
  <2>4. CaughtUp(c)
    OBVIOUS
  <2> HIDE DEF n
  <2>5. ctx'[c].curr + n <= ctx'[c].next + made[c]
    BY <2>2, <2>3, <2>4 DEF CaughtUp
  <2> QED
    BY <2>1, <2>3, <2>5 DEF n
<1> QED
  BY <1>1, <1>2, <1>3 DEF RotInv

LEMMA CoreUntouched ==
  ASSUME entry' = entry
  PROVE  Drops
  BY DEF Drops

ContextBecomes(c, x) ==
    DOMAIN ctx' = Ctxs /\ ctx'[c] = x /\ \A d \in Ctxs \ {c} : ctx'[d] = ctx[d]

\* A client or a worker moves on, and its own context at most changes.
LEMMA QuietKeeps ==
  ASSUME RotInv, UNCHANGED <<target, entry, queues, slots, smmu, session, made, lost>>,
         NEW c \in Ctxs, NEW x, ContextOf(c, x), x.next = ctx[c].next,
         x.curr \in {ctx[c].curr, ctx[c].next}, ContextBecomes(c, x),
         \A d \in Ctxs \ {c} : at'[d] = at[d], at'[c] # at[c] => ~Cancelling(c) \/ target[c] = None,
         PlacesOK',
         at'[c] \in {"close_cancel", "flush", "closed"} => session[c] # "open",
         at'[c] \in {"flush", "closed"} => session[c] = "closed"
  PROVE  RotInv'
<1>1. ContextsOK'
  BY DEF RotInv, ContextsOK, ContextBecomes
<1>2. \A d \in Ctxs : CaughtUp(d)
  <2>1. ASSUME NEW d \in Ctxs
        PROVE  ctx[d].next \in Nat /\ ctx'[d].next = ctx[d].next
               /\ ctx'[d].curr \in {ctx[d].curr, ctx[d].next}
    <3>1. ContextOf(d, ctx[d]) /\ DOMAIN ctx = Ctxs
      BY DEF RotInv, ContextsOK
    <3>2. ctx[d].next \in Nat
      BY <3>1, ContextFields
    <3> QED
      BY <3>1, <3>2 DEF ContextBecomes
  <2> QED
    BY <2>1 DEF CaughtUp
<1>3. Drops
  BY CoreUntouched
<1>4. SessionsOK'
  <2>1. \A d \in Ctxs : InCore(d)' = InCore(d)
    BY <1>3, DropsSets
  <2>2. SessionsOK /\ session' = session
    BY DEF RotInv
  <2> QED
    BY <2>1, <2>2 DEF SessionsOK
<1>5. \A d \in Ctxs : target[d] # None => Cancelling(d)' /\ target[d].entry \in DOMAIN entry'
  <2>1. TargetsOK
    BY DEF RotInv
  <2>2. \A d \in Ctxs : target[d] # None => at'[d] = at[d]
    BY <2>1 DEF TargetsOK
  <2> QED
    BY <2>1, <2>2 DEF TargetsOK, Cancelling
<1> QED
  BY <1>1, <1>2, <1>3, <1>4, <1>5, OutsideKeeps

\* A context is scheduled, by a call or by its worker, which may be through
\* with its submission.
LEMMA ScheduledKeeps ==
  ASSUME RotInv, locked = None, NEW c \in Ctxs, NEW x, ContextOf(c, x),
         x.next >= ctx[c].next, x.curr = ctx[c].curr,
         at[c] \in {"close_cancel", "flush", "closed"} => ~x.on, at[c] # "closed",
         Scheduled(c, x), busy' \in {busy, [busy EXCEPT ![c] = None]},
         UNCHANGED <<client, queues, slots, smmu, session, made, lost>>
  PROVE  RotInv'
<1> DEFINE y == Schedule(x)
<1>1. /\ ContextOf(c, y) /\ y.next = x.next /\ y.on = x.on /\ y.curr \in {x.curr, x.next}
      /\ ~x.on => Finished(x) = {}
      /\ \A e \in Finished(x) : e = None \/ (e \in {c} \X Nat /\ Completed(e))
  BY ScheduleFollows DEF Follows
<1>2. /\ ctx' = [ctx EXCEPT ![c] = y] /\ entry' = Without(Finished(x))
      /\ at' = at /\ target' = target /\ locked' = locked /\ session' = session
  BY DEF Scheduled, client
<1>3. DOMAIN ctx = Ctxs /\ \A d \in Ctxs : ContextOf(d, ctx[d])
  BY DEF RotInv, ContextsOK
<1> HIDE DEF y
<1>4. ctx'[c] = y /\ \A d \in Ctxs \ {c} : ctx'[d] = ctx[d]
  BY <1>2, <1>3
<1>5. Drops
  <2>1. /\ DOMAIN entry' = DOMAIN entry \ Finished(x)
        /\ \A e \in DOMAIN entry' : entry'[e] = entry[e]
    BY <1>2 DEF Without
  <2>2. ASSUME NEW e \in DOMAIN entry, e \in Finished(x) PROVE entry[e].stage = "done"
    <3>1. e # None
      BY NoneIsNoId DEF RotInv, EntriesOK
    <3> QED
      BY <1>1, <2>2, <3>1 DEF Completed
  <2> QED
    BY <2>1, <2>2 DEF Drops
<1>6. ContextsOK'
  BY <1>1, <1>2, <1>3, <1>4 DEF ContextsOK
<1>7. \A d \in Ctxs : CaughtUp(d)
  <2>1. \A d \in Ctxs : ctx[d].next \in Nat /\ ctx[d].curr \in Nat
    BY <1>3, ContextFields
  <2>2. x.next \in Nat
    BY ContextFields
  <2> QED
    BY <1>1, <1>4, <2>1, <2>2 DEF CaughtUp
<1>8. PlacesOK'
  <2>1. PlacesOK
    BY DEF RotInv
  <2>2. busy' \in [Ctxs -> {None} \cup [req : Request, frame : Nat]]
    BY <2>1 DEF PlacesOK
  <2>3. \A d \in Ctxs : at[d] \in {"close_cancel", "flush", "closed"} => ~ctx'[d].on
    BY <1>1, <1>4, <2>1 DEF PlacesOK
  <2>4. \A d \in Ctxs : at[d] = "closed" => busy'[d] = None /\ ctx'[d].work = <<>>
    BY <1>4, <2>1 DEF PlacesOK
  <2>5. DOMAIN entry' \subseteq DOMAIN entry
    BY <1>5 DEF Drops
  <2> QED
    BY <1>2, <2>1, <2>2, <2>3, <2>4, <2>5 DEF PlacesOK
<1>9. SessionsOK'
  <2>1. SessionsOK
    BY DEF RotInv
  <2> QED
    BY <1>2, <1>5, <2>1, DropsSets DEF SessionsOK
<1>10. \A d \in Ctxs : target[d] # None => Cancelling(d)' /\ target[d].entry \in DOMAIN entry'
  <2> SUFFICES ASSUME NEW d \in Ctxs, target[d] # None
               PROVE  target[d].entry \in DOMAIN entry' /\ Cancelling(d)
    BY <1>2 DEF Cancelling
  <2> DEFINE e == target[d].entry
  <2>1. Cancelling(d) /\ e[1] = d /\ e \in DOMAIN entry
    BY DEF RotInv, TargetsOK
  <2>2. at[d] = "close_cancel"
    BY <2>1, NoneIsNoId DEF Cancelling, RotInv, PlacesOK
  <2> HIDE DEF e
  <2>3. e \notin Finished(x)
    <3>1. CASE d = c
      BY <1>1, <2>2, <3>1
    <3>2. CASE d # c
      <4>1. e # None /\ e \notin {c} \X Nat
        BY <2>1, <3>2, NoneIsNoId DEF RotInv, EntriesOK
      <4> QED
        BY <1>1, <4>1
    <3> QED
      BY <3>1, <3>2
  <2>4. e \in DOMAIN entry'
    BY <1>2, <2>1, <2>3 DEF Without
  <2> QED
    BY <2>1, <2>4 DEF e
<1> QED
  BY <1>2, <1>5, <1>6, <1>7, <1>8, <1>9, <1>10, OutsideKeeps

\* A client moves to p, with its part of the invariant of places.
LEMMA PlaceKeeps ==
  ASSUME RotInv, NEW c \in Ctxs, NEW p \in RotPlaces, NEW x,
         at' = [at EXCEPT ![c] = p], entry' = entry, busy' = busy, ContextBecomes(c, x),
         locked' \in Ctxs \cup {None}, \A d \in Ctxs \ {c} : locked = d => locked' = d,
         p \in {"flush", "stop_cancel"} => locked' = c,
         p \in {"close_cancel", "flush", "closed"} => ~x.on,
         p \in {"flush", "closed"} => \A e \in DOMAIN entry : e[1] # c,
         p = "closed" => busy[c] = None /\ x.work = <<>>
  PROVE  PlacesOK'
<1>1. PlacesOK
  BY DEF RotInv
<1>2. at' \in [Ctxs -> RotPlaces] /\ at'[c] = p /\ \A d \in Ctxs \ {c} : at'[d] = at[d]
  BY <1>1 DEF PlacesOK
<1>3. ctx'[c] = x /\ \A d \in Ctxs \ {c} : ctx'[d] = ctx[d]
  BY DEF ContextBecomes
<1>4. ASSUME NEW d \in Ctxs
      PROVE  /\ at'[d] \in {"flush", "stop_cancel"} => locked' = d
             /\ at'[d] \in {"close_cancel", "flush", "closed"} => ~ctx'[d].on
             /\ at'[d] \in {"flush", "closed"} => \A e \in DOMAIN entry' : e[1] # d
             /\ at'[d] = "closed" => busy'[d] = None /\ ctx'[d].work = <<>>
  <2>1. CASE d = c
    BY <1>2, <1>3, <2>1
  <2>2. CASE d # c
    BY <1>1, <1>2, <1>3, <2>2 DEF PlacesOK
  <2> QED
    BY <2>1, <2>2
<1> QED
  BY <1>1, <1>2, <1>4 DEF PlacesOK

LEMMA ContextHere ==
  ASSUME RotInv, NEW c \in Ctxs
  PROVE  /\ ContextOf(c, ctx[c]) /\ DOMAIN ctx = Ctxs
         /\ \A x : ctx' = [ctx EXCEPT ![c] = x] => ContextBecomes(c, x)
         /\ ctx' = ctx => ContextBecomes(c, ctx[c])
  BY DEF RotInv, ContextsOK, ContextBecomes

\* sde_rotator_stop_streaming up to its wait.
LEMMA StreamOffKeeps ==
  ASSUME RotInv, NEW c \in Ctxs, StreamOff(c)
  PROVE  RotInv'
<1> DEFINE x == [ctx[c] EXCEPT !.abort = TRUE]
<1>1. ContextOf(c, ctx[c])
  BY ContextHere
<1>2. ContextOf(c, x) /\ x.next = ctx[c].next /\ x.curr = ctx[c].curr
  BY <1>1 DEF ContextOf, RotContext
<1>3. ctx' = [ctx EXCEPT ![c] = x]
  BY DEF StreamOff
<1> HIDE DEF x
<1>4. ContextBecomes(c, x)
  BY <1>3, ContextHere
<1>5. /\ at[c] = "idle" /\ at' = [at EXCEPT ![c] = "stopping"] /\ locked' = locked
      /\ UNCHANGED <<target, entry, queues, slots, smmu, session, made, lost, busy>>
  BY DEF StreamOff, resources, history
<1>6. at'[c] = "stopping" /\ \A d \in Ctxs \ {c} : at'[d] = at[d]
  BY <1>5 DEF RotInv, PlacesOK
<1>7. PlacesOK'
  <2>1. locked \in Ctxs \cup {None} /\ "stopping" \in RotPlaces
    BY DEF RotInv, PlacesOK, RotPlaces
  <2> QED
    BY <1>4, <1>5, <2>1, PlaceKeeps
<1> QED
  BY <1>2, <1>4, <1>5, <1>6, <1>7, QuietKeeps DEF Cancelling

\* Its end when the pending request is back.
LEMMA StoppedKeeps ==
  ASSUME RotInv, NEW c \in Ctxs, Stopped(c)
  PROVE  RotInv'
<1> DEFINE x == ReturnAll(ctx[c])
<1>1. ContextOf(c, ctx[c])
  BY ContextHere
<1>2. ContextOf(c, x) /\ x.next = ctx[c].next /\ x.curr \in {ctx[c].curr, ctx[c].next}
  BY <1>1, ReturnAllKeeps
<1>3. ctx' = [ctx EXCEPT ![c] = x]
  BY DEF Stopped
<1> HIDE DEF x
<1>4. ContextBecomes(c, x)
  BY <1>3, ContextHere
<1>5. /\ at[c] = "stopping" /\ at' = [at EXCEPT ![c] = "idle"] /\ locked' = locked
      /\ UNCHANGED <<target, entry, queues, slots, smmu, session, made, lost, busy>>
  BY DEF Stopped, resources, history
<1>6. at'[c] = "idle" /\ \A d \in Ctxs \ {c} : at'[d] = at[d]
  BY <1>5 DEF RotInv, PlacesOK
<1>7. PlacesOK'
  <2>1. locked \in Ctxs \cup {None} /\ "idle" \in RotPlaces
    BY DEF RotInv, PlacesOK, RotPlaces
  <2> QED
    BY <1>4, <1>5, <2>1, PlaceKeeps
<1> QED
  BY <1>2, <1>4, <1>5, <1>6, <1>7, QuietKeeps DEF Cancelling

\* The steps of its other end, after a timeout.
LEMMA StopTimeoutKeeps ==
  ASSUME RotInv, NEW c \in Ctxs, StopTimeout(c)
  PROVE  RotInv'
<1>1. ContextOf(c, ctx[c]) /\ ContextBecomes(c, ctx[c])
  BY ContextHere DEF StopTimeout
<1>2. /\ at[c] = "stopping" /\ locked = None /\ at' = [at EXCEPT ![c] = "stop_cancel"]
      /\ locked' = c
      /\ UNCHANGED <<target, entry, queues, slots, smmu, session, made, lost, busy>>
  BY DEF StopTimeout, resources, history
<1>3. at'[c] = "stop_cancel" /\ \A d \in Ctxs \ {c} : at'[d] = at[d]
  BY <1>2 DEF RotInv, PlacesOK
<1>4. PlacesOK'
  <2>1. "stop_cancel" \in RotPlaces /\ None \notin Ctxs
    BY NoneIsNoId DEF RotPlaces
  <2> QED
    BY <1>1, <1>2, <2>1, PlaceKeeps
<1> QED
  BY <1>1, <1>2, <1>3, <1>4, QuietKeeps DEF Cancelling

LEMMA StopCancelledKeeps ==
  ASSUME RotInv, NEW c \in Ctxs, StopCancelled(c)
  PROVE  RotInv'
<1>1. ContextOf(c, ctx[c]) /\ ContextBecomes(c, ctx[c])
  BY ContextHere DEF StopCancelled
<1>2. /\ at[c] = "stop_cancel" /\ target[c] = None /\ at' = [at EXCEPT ![c] = "stop_submit"]
      /\ locked' = None
      /\ UNCHANGED <<target, entry, queues, slots, smmu, session, made, lost, busy>>
  BY DEF StopCancelled, resources, history
<1>3. at'[c] = "stop_submit" /\ \A d \in Ctxs \ {c} : at'[d] = at[d]
  BY <1>2 DEF RotInv, PlacesOK
<1>4. PlacesOK'
  <2>1. "stop_submit" \in RotPlaces
    BY DEF RotPlaces
  <2>2. locked = c
    BY <1>2 DEF RotInv, PlacesOK
  <2> QED
    BY <1>1, <1>2, <2>1, <2>2, PlaceKeeps
<1> QED
  BY <1>1, <1>2, <1>3, <1>4, QuietKeeps

LEMMA DequeueContext ==
  ASSUME RotInv, NEW c \in Ctxs, NEW kind, ctx' = Dequeue(c, kind)
  PROVE  \E x : /\ ContextOf(c, x) /\ ContextBecomes(c, x)
                /\ x.next = ctx[c].next /\ x.curr = ctx[c].curr
<1>1. ContextOf(c, ctx[c])
  BY ContextHere
<1>2. CASE ctx[c].pending = <<>>
  <2>1. ctx' = ctx
    BY <1>2 DEF Dequeue
  <2> QED
    BY <1>1, <2>1, ContextHere
<1>3. CASE ctx[c].pending # <<>>
  <2> DEFINE l == RemoveFirst(ctx[c].work, <<kind, Head(ctx[c].pending)>>)
             x == [ctx[c] EXCEPT !.work = l]
  <2>1. l \in Seq(WorkItems)
    BY <1>1, ContextFields, RangeRemove
  <2>2. ctx' = [ctx EXCEPT ![c] = x]
    BY <1>3 DEF Dequeue
  <2> HIDE DEF l
  <2>3. ContextOf(c, x) /\ x.next = ctx[c].next /\ x.curr = ctx[c].curr
    BY <1>1, <2>1 DEF ContextOf, RotContext
  <2> HIDE DEF x
  <2> QED
    BY <2>2, <2>3, ContextHere
<1> QED
  BY <1>2, <1>3

LEMMA StopCancelWorkKeeps ==
  ASSUME RotInv, NEW c \in Ctxs, StopCancelSubmit(c) \/ StopCancelRetire(c)
  PROVE  RotInv'
<1>1. PICK x : /\ ContextOf(c, x) /\ ContextBecomes(c, x)
               /\ x.next = ctx[c].next /\ x.curr = ctx[c].curr
  BY DequeueContext DEF StopCancelSubmit, StopCancelRetire
<1>2. PICK p \in {"stop_retire", "stop_end"} : at' = [at EXCEPT ![c] = p]
  BY DEF StopCancelSubmit, StopCancelRetire
<1>3. /\ at[c] \in {"stop_submit", "stop_retire"} /\ locked' = locked
      /\ UNCHANGED <<target, entry, queues, slots, smmu, session, made, lost, busy>>
  BY DEF StopCancelSubmit, StopCancelRetire, resources, history
<1>4. at'[c] = p /\ \A d \in Ctxs \ {c} : at'[d] = at[d]
  BY <1>2 DEF RotInv, PlacesOK
<1>5. PlacesOK'
  <2>1. locked \in Ctxs \cup {None} /\ p \in RotPlaces
    BY DEF RotInv, PlacesOK, RotPlaces
  <2> QED
    BY <1>1, <1>2, <1>3, <2>1, PlaceKeeps
<1> QED
  BY <1>1, <1>3, <1>4, <1>5, QuietKeeps DEF Cancelling

LEMMA StopEndKeeps ==
  ASSUME RotInv, NEW c \in Ctxs, StopEnd(c)
  PROVE  RotInv'
<1> DEFINE l == ctx[c].retired \o ctx[c].pending
           y == [ctx[c] EXCEPT !.pending = <<>>, !.retired = l]
           x == ReturnAll(y)
<1>1. ContextOf(c, ctx[c])
  BY ContextHere
<1>2. l \in Seq(Request) /\ Range(l) = Request
  <2>1. /\ ctx[c].retired \in Seq(Request) /\ ctx[c].pending \in Seq(Request)
        /\ Range(ctx[c].pending) \cup Range(ctx[c].retired) = Request
    BY <1>1, ContextFields
  <2>2. l \in Seq(Request) /\ Range(l) = Range(ctx[c].retired) \cup Range(ctx[c].pending)
    BY <2>1, RangeConcat
  <2> QED
    BY <2>1, <2>2
<1>3. ctx' = [ctx EXCEPT ![c] = x]
  <2> DEFINE z == [ctx[c] EXCEPT !.pending = <<>>, !.retired = @ \o ctx[c].pending]
  <2>1. ctx' = [ctx EXCEPT ![c] = ReturnAll(z)]
    BY DEF StopEnd
  <2>2. z = y
    BY <1>1 DEF ContextOf, RotContext
  <2> QED
    BY <2>1, <2>2
<1> HIDE DEF l
<1>4. ContextOf(c, y) /\ y.next = ctx[c].next /\ y.curr = ctx[c].curr
  <2>1. <<>> \in Seq(Request) /\ Range(<<>>) = {}
    <3>1. <<>> \in Seq(Request)
      OBVIOUS
    <3> QED
      BY <3>1, RangeSeq
  <2> QED
    BY <1>1, <1>2, <2>1 DEF ContextOf, RotContext
<1> HIDE DEF y
<1>5. ContextOf(c, x) /\ x.next = ctx[c].next /\ x.curr \in {ctx[c].curr, ctx[c].next}
  BY <1>4, ReturnAllKeeps
<1> HIDE DEF x
<1>6. ContextBecomes(c, x)
  BY <1>3, ContextHere
<1>7. /\ at[c] = "stop_end" /\ at' = [at EXCEPT ![c] = "idle"] /\ locked' = locked
      /\ UNCHANGED <<target, entry, queues, slots, smmu, session, made, lost, busy>>
  BY DEF StopEnd, resources, history
<1>8. at'[c] = "idle" /\ \A d \in Ctxs \ {c} : at'[d] = at[d]
  BY <1>7 DEF RotInv, PlacesOK
<1>9. PlacesOK'
  <2>1. locked \in Ctxs \cup {None} /\ "idle" \in RotPlaces
    BY DEF RotInv, PlacesOK, RotPlaces
  <2> QED
    BY <1>6, <1>7, <2>1, PlaceKeeps
<1> QED
  BY <1>5, <1>6, <1>7, <1>8, <1>9, QuietKeeps DEF Cancelling

\* sde_rotator_ctx_release.
LEMMA CloseKeeps ==
  ASSUME RotInv, NEW c \in Ctxs, Close(c)
  PROVE  RotInv'
<1>1. ContextsOK /\ DOMAIN ctx = Ctxs /\ ContextBecomes(c, ctx[c])
  BY ContextHere DEF Close, RotInv
<1>2. /\ at[c] = "idle" /\ ~ctx[c].on /\ at' = [at EXCEPT ![c] = "close_cancel"]
      /\ session' = [session EXCEPT ![c] = IF InCore(c) # {} THEN "closing" ELSE "closed"]
      /\ UNCHANGED <<ctx, locked, target, entry, queues, slots, smmu, made, lost, busy>>
  BY DEF Close, resources, history
<1>3. at'[c] = "close_cancel" /\ \A d \in Ctxs \ {c} : at'[d] = at[d]
  BY <1>2 DEF RotInv, PlacesOK
<1>4. PlacesOK'
  <2>1. locked \in Ctxs \cup {None} /\ "close_cancel" \in RotPlaces
    BY DEF RotInv, PlacesOK, RotPlaces
  <2> QED
    BY <1>1, <1>2, <2>1, PlaceKeeps
<1>5. Drops
  BY <1>2, CoreUntouched
<1>6. SessionsOK'
  <2>1. SessionsOK /\ \A d \in Ctxs : InCore(d)' = InCore(d)
    BY <1>5, DropsSets DEF RotInv
  <2>2. session' \in [Ctxs -> {"open", "closing", "closed"}]
    BY <1>2, <2>1 DEF SessionsOK
  <2>3. /\ session'[c] \in {"closing", "closed"}
        /\ session'[c] = "closing" => InCore(c) # {}
        /\ \A d \in Ctxs \ {c} : session'[d] = session[d]
    BY <1>2, <2>1 DEF SessionsOK
  <2> QED
    BY <1>3, <2>1, <2>2, <2>3 DEF SessionsOK
<1>7. ContextsOK' /\ \A d \in Ctxs : CaughtUp(d)
  <2>1. \A d \in Ctxs : ctx[d].next \in Nat
    BY <1>1, ContextFields DEF ContextsOK
  <2> QED
    BY <1>1, <1>2, <2>1 DEF ContextsOK, CaughtUp
<1>8. \A d \in Ctxs : target[d] # None => Cancelling(d)' /\ target[d].entry \in DOMAIN entry'
  BY <1>2, <1>3 DEF RotInv, TargetsOK, Cancelling
<1> QED
  BY <1>2, <1>4, <1>5, <1>6, <1>7, <1>8, OutsideKeeps

\* A session that was closed with entries in the core has been freed when
\* they are all gone.
LEMMA CloseCancelledKeeps ==
  ASSUME RotInv, NEW c \in Ctxs, CloseCancelled(c)
  PROVE  RotInv'
<1>1. ContextOf(c, ctx[c]) /\ ContextBecomes(c, ctx[c])
  BY ContextHere DEF CloseCancelled
<1>2. /\ at[c] = "close_cancel" /\ target[c] = None /\ \A e \in DOMAIN entry : e[1] # c
      /\ locked = None /\ locked' = c /\ at' = [at EXCEPT ![c] = "flush"]
      /\ UNCHANGED <<target, entry, queues, slots, smmu, session, made, lost, busy>>
  BY DEF CloseCancelled, resources, history
<1>3. at'[c] = "flush" /\ \A d \in Ctxs \ {c} : at'[d] = at[d]
  BY <1>2 DEF RotInv, PlacesOK
<1>4. PlacesOK'
  <2>1. "flush" \in RotPlaces /\ None \notin Ctxs
    BY NoneIsNoId DEF RotPlaces
  <2>2. ~ctx[c].on
    BY <1>2 DEF RotInv, PlacesOK
  <2> QED
    BY <1>1, <1>2, <2>1, <2>2, PlaceKeeps
<1>5. session[c] = "closed"
  <2>1. InCore(c) = {}
    BY <1>2 DEF InCore
  <2> QED
    BY <1>2, <2>1 DEF RotInv, SessionsOK
<1> QED
  BY <1>1, <1>2, <1>3, <1>4, <1>5, QuietKeeps

LEMMA ClosedKeeps ==
  ASSUME RotInv, NEW c \in Ctxs, Closed(c)
  PROVE  RotInv'
<1>1. ContextOf(c, ctx[c]) /\ ContextBecomes(c, ctx[c])
  BY ContextHere DEF Closed
<1>2. /\ at[c] = "flush" /\ busy[c] = None /\ ctx[c].work = <<>>
      /\ at' = [at EXCEPT ![c] = "closed"] /\ locked' = None
      /\ UNCHANGED <<target, entry, queues, slots, smmu, session, made, lost, busy>>
  BY DEF Closed, resources, history
<1>3. at'[c] = "closed" /\ \A d \in Ctxs \ {c} : at'[d] = at[d]
  BY <1>2 DEF RotInv, PlacesOK
<1>4. /\ locked = c /\ ~ctx[c].on /\ \A e \in DOMAIN entry : e[1] # c
      /\ session[c] = "closed"
  BY <1>2 DEF RotInv, PlacesOK, SessionsOK
<1>5. PlacesOK'
  <2>1. "closed" \in RotPlaces
    BY DEF RotPlaces
  <2> QED
    BY <1>1, <1>2, <1>4, <2>1, PlaceKeeps
<1> QED
  BY <1>1, <1>2, <1>3, <1>4, <1>5, QuietKeeps DEF Cancelling

\* The worker of c, with what it waits for.
LEMMA PlaceStays ==
  ASSUME RotInv, NEW c \in Ctxs, NEW x, at[c] # "closed", x.on = ctx[c].on,
         UNCHANGED <<at, locked, entry>>, ContextBecomes(c, x),
         NEW b \in {None} \cup [req : Request, frame : Nat],
         busy' \in {busy, [busy EXCEPT ![c] = b]}
  PROVE  PlacesOK'
<1>1. PlacesOK
  BY DEF RotInv
<1>2. /\ busy' \in [Ctxs -> {None} \cup [req : Request, frame : Nat]]
      /\ \A d \in Ctxs \ {c} : busy'[d] = busy[d]
  BY <1>1 DEF PlacesOK
<1>3. ctx'[c] = x /\ \A d \in Ctxs \ {c} : ctx'[d] = ctx[d]
  BY DEF ContextBecomes
<1>4. ASSUME NEW d \in Ctxs
      PROVE  /\ at[d] \in {"close_cancel", "flush", "closed"} => ~ctx'[d].on
             /\ at[d] = "closed" => busy'[d] = None /\ ctx'[d].work = <<>>
  <2>1. CASE d = c
    BY <1>1, <1>3, <2>1 DEF PlacesOK
  <2>2. CASE d # c
    BY <1>1, <1>2, <1>3, <2>2 DEF PlacesOK
  <2> QED
    BY <2>1, <2>2
<1> QED
  BY <1>1, <1>2, <1>4 DEF PlacesOK

LEMMA TakenFollows ==
  ASSUME RotInv, NEW c \in Ctxs, ctx[c].work # <<>>
  PROVE  /\ Follows(c, ctx[c], Taken(c)) /\ Taken(c).ready = ctx[c].ready
         /\ Head(ctx[c].work)[2] \in Request /\ at[c] # "closed"
<1> DEFINE l == Tail(ctx[c].work)
<1>1. ContextOf(c, ctx[c])
  BY ContextHere
<1>2. l \in Seq(WorkItems) /\ Head(ctx[c].work) \in WorkItems
  BY <1>1, ContextFields, RangeTail
<1>3. Taken(c) = [ctx[c] EXCEPT !.work = l]
  BY DEF Taken
<1> HIDE DEF l
<1>4. Follows(c, ctx[c], Taken(c)) /\ Taken(c).ready = ctx[c].ready
  BY <1>1, <1>2, <1>3 DEF Follows, ContextOf, RotContext
<1>5. Head(ctx[c].work)[2] \in Request
  BY <1>2 DEF WorkItems
<1>6. at[c] # "closed"
  BY DEF RotInv, PlacesOK
<1> QED
  BY <1>4, <1>5, <1>6

\* Both handlers when the stream is stopping.
LEMMA WorkAbortedKeeps ==
  ASSUME RotInv, NEW c \in Ctxs, WorkAborted(c)
  PROVE  RotInv'
<1> DEFINE x == Retire(Taken(c), Head(ctx[c].work)[2])
<1>1. ctx[c].work # <<>> /\ ctx' = [ctx EXCEPT ![c] = x]
  BY DEF WorkAborted, Works
<1>2. Follows(c, ctx[c], Taken(c)) /\ Head(ctx[c].work)[2] \in Request /\ at[c] # "closed"
  BY <1>1, TakenFollows
<1>3. Follows(c, ctx[c], x)
  BY <1>2, RetireFollows, FollowsTwice DEF Follows
<1> HIDE DEF x
<1>4. ContextBecomes(c, x)
  BY <1>1, ContextHere
<1>5. UNCHANGED <<at, locked, target, entry, queues, slots, smmu, session, made, lost, busy>>
  BY DEF WorkAborted, client, resources, history
<1>6. PlacesOK'
  BY <1>2, <1>3, <1>4, <1>5, PlaceStays DEF Follows
<1>7. at[c] \in {"close_cancel", "flush", "closed"} => session[c] # "open"
  BY DEF RotInv, SessionsOK
<1>8. at[c] \in {"flush", "closed"} => session[c] = "closed"
  BY DEF RotInv, SessionsOK
<1> QED
  BY <1>3, <1>4, <1>5, <1>6, <1>7, <1>8, QuietKeeps DEF Follows

\* sde_rotator_submit_handler begins to wait for the input fence.
LEMMA FenceWaitKeeps ==
  ASSUME RotInv, NEW c \in Ctxs, FenceWait(c)
  PROVE  RotInv'
<1> DEFINE x == Taken(c)
           b == [req |-> Head(ctx[c].work)[2], frame |-> Head(ctx[c].ready)]
<1>1. /\ ctx[c].work # <<>> /\ ctx[c].ready # <<>>
      /\ ctx' = [ctx EXCEPT ![c] = x] /\ busy' = [busy EXCEPT ![c] = b]
  BY DEF FenceWait, Works
<1>2. Follows(c, ctx[c], x) /\ Head(ctx[c].work)[2] \in Request /\ at[c] # "closed"
  BY <1>1, TakenFollows
<1>3. b \in [req : Request, frame : Nat]
  <2>1. Head(ctx[c].ready) \in Nat
    BY <1>1, ContextHere, ContextFields, RangeTail
  <2> QED
    BY <1>2, <2>1
<1> HIDE DEF x, b
<1>4. ContextBecomes(c, x)
  BY <1>1, ContextHere
<1>5. UNCHANGED <<at, locked, target, entry, queues, slots, smmu, session, made, lost>>
  BY DEF FenceWait, client, resources, history
<1>6. PlacesOK'
  BY <1>1, <1>2, <1>3, <1>4, <1>5, PlaceStays DEF Follows
<1>7. at[c] \in {"close_cancel", "flush", "closed"} => session[c] # "open"
  BY DEF RotInv, SessionsOK
<1>8. at[c] \in {"flush", "closed"} => session[c] = "closed"
  BY DEF RotInv, SessionsOK
<1> QED
  BY <1>2, <1>4, <1>5, <1>6, <1>7, <1>8, QuietKeeps DEF Follows

\* The calls and handlers that schedule the context.
LEMMA QBufKeeps ==
  ASSUME RotInv, NEW c \in Ctxs, QBuf(c)
  PROVE  RotInv'
<1> DEFINE n == ctx[c].next + 1
           l == Append(ctx[c].ready, n)
           v == Append(ctx[c].status, "queued")
           x == [ctx[c] EXCEPT !.next = n, !.ready = l, !.status = v]
           y == [ctx[c] EXCEPT !.next = n, !.ready = Append(@, n),
                               !.status = Append(@, "queued")]
<1>1. ContextOf(c, ctx[c])
  BY ContextHere
<1>2. n \in Nat /\ l \in Seq(Nat) /\ v \in Seq(Statuses)
  <2>1. /\ ctx[c].next \in Nat /\ ctx[c].ready \in Seq(Nat)
        /\ ctx[c].status \in Seq(Statuses) /\ "queued" \in Statuses
    BY <1>1, ContextFields DEF Statuses
  <2>2. n \in Nat
    BY <2>1
  <2> HIDE DEF n
  <2> QED
    BY <2>1, <2>2, RangeAppend
<1>3. locked = None /\ at[c] = "idle" /\ Scheduled(c, y)
  BY DEF QBuf
<1>4. x = y
  BY <1>1 DEF ContextOf, RotContext
<1> HIDE DEF l, v, y
<1>5. ContextOf(c, x) /\ x.next = n /\ x.curr = ctx[c].curr
  <2> HIDE DEF n
  <2> QED
    BY <1>1, <1>2 DEF ContextOf, RotContext
<1>6. n >= ctx[c].next
  BY <1>1, ContextFields
<1> HIDE DEF x, n
<1>7. UNCHANGED <<client, queues, slots, smmu, session, made, lost, busy>>
  BY DEF QBuf, resources, history
<1>8. Scheduled(c, x)
  BY <1>3, <1>4
<1> QED
  BY <1>3, <1>5, <1>6, <1>7, <1>8, ScheduledKeeps

LEMMA StreamOnKeeps ==
  ASSUME RotInv, NEW c \in Ctxs, StreamOn(c)
  PROVE  RotInv'
<1> DEFINE x == [ctx[c] EXCEPT !.abort = FALSE, !.on = TRUE]
<1>1. ContextOf(c, ctx[c])
  BY ContextHere
<1>2. ContextOf(c, x) /\ x.next = ctx[c].next /\ x.curr = ctx[c].curr
  BY <1>1 DEF ContextOf, RotContext
<1>3. locked = None /\ at[c] = "idle" /\ Scheduled(c, x)
  BY DEF StreamOn
<1> HIDE DEF x
<1>4. x.next >= ctx[c].next
  BY <1>1, <1>2, ContextFields
<1>5. UNCHANGED <<client, queues, slots, smmu, session, made, lost, busy>>
  BY DEF StreamOn, resources, history
<1> QED
  BY <1>2, <1>3, <1>4, <1>5, ScheduledKeeps

LEMMA WorkerMay ==
  ASSUME RotInv, NEW c \in Ctxs, NEW x, Follows(c, ctx[c], x)
  PROVE  /\ at[c] \in {"close_cancel", "flush", "closed"} => ~x.on
         /\ x.next >= ctx[c].next
<1>1. ctx[c].next \in Nat
  BY ContextHere, ContextFields
<1>2. at[c] \in {"close_cancel", "flush", "closed"} => ~ctx[c].on
  BY DEF RotInv, PlacesOK
<1> QED
  BY <1>1, <1>2 DEF Follows

LEMMA RetireHandlerKeeps ==
  ASSUME RotInv, NEW c \in Ctxs, RetireHandler(c)
  PROVE  RotInv'
<1>1. ctx[c].work # <<>> /\ locked = None /\ Scheduled(c, Taken(c))
  BY DEF RetireHandler, Works
<1>2. /\ Follows(c, ctx[c], Taken(c)) /\ ContextOf(c, Taken(c))
      /\ Taken(c).curr = ctx[c].curr /\ at[c] # "closed"
  <2>1. Taken(c).curr = ctx[c].curr
    BY ContextHere DEF Taken, ContextOf, RotContext
  <2> QED
    BY <1>1, <2>1, TakenFollows DEF Follows
<1>3. UNCHANGED <<client, queues, slots, smmu, session, made, lost, busy>>
  BY DEF RetireHandler, resources, history
<1> QED
  BY <1>1, <1>2, <1>3, WorkerMay, ScheduledKeeps

\* What the submit handler has when it goes on.
LEMMA GoingIs ==
  ASSUME RotInv, NEW c \in Ctxs, NEW g \in Going(c)
  PROVE  /\ Follows(c, ctx[c], g.x) /\ g.x.curr = ctx[c].curr
         /\ g.req \in Request /\ g.frame \in Nat \cup {None} /\ at[c] # "closed"
<1>1. ContextOf(c, ctx[c])
  BY ContextHere
<1>2. CASE busy[c] # None
  <2>1. g = [x |-> ctx[c], req |-> busy[c].req, frame |-> busy[c].frame]
    BY <1>2 DEF Going
  <2>2. busy[c] \in [req : Request, frame : Nat] /\ at[c] # "closed"
    BY <1>2 DEF RotInv, PlacesOK
  <2>3. g.x = ctx[c] /\ g.req = busy[c].req /\ g.frame = busy[c].frame
    BY <2>1
  <2> QED
    BY <1>1, <2>2, <2>3 DEF Follows
<1>3. CASE busy[c] = None
  <2> DEFINE f == IF ctx[c].ready = <<>> THEN None ELSE Head(ctx[c].ready)
  <2>1. /\ ctx[c].work # <<>>
        /\ g = [x |-> Taken(c), req |-> Head(ctx[c].work)[2], frame |-> f]
    BY <1>3 DEF Going, Works
  <2>2. f \in Nat \cup {None}
    BY <1>1, ContextFields, RangeTail
  <2> HIDE DEF f
  <2>3. g.x = Taken(c) /\ g.req = Head(ctx[c].work)[2] /\ g.frame = f
    BY <2>1
  <2>4. Taken(c).curr = ctx[c].curr
    BY <1>1 DEF Taken, ContextOf, RotContext
  <2> QED
    BY <2>1, <2>2, <2>3, <2>4, TakenFollows
<1> QED
  BY <1>2, <1>3

WithReq(x, r, id) == [x EXCEPT !.req[r] = id]

LEMMA ReqAssigned ==
  ASSUME NEW c, NEW x, ContextOf(c, x), NEW r, NEW id \in {None} \cup ({c} \X Nat)
  PROVE  Follows(c, x, WithReq(x, r, id)) /\ WithReq(x, r, id).curr = x.curr
<1> DEFINE m == [x.req EXCEPT ![r] = id]
           y == [x EXCEPT !.req = m]
<1>1. m \in [Request -> {None} \cup ({c} \X Nat)]
  BY ContextFields
<1>2. WithReq(x, r, id) = y
  BY DEF WithReq
<1> HIDE DEF m
<1>3. Follows(c, x, y) /\ y.curr = x.curr
  BY <1>1 DEF Follows, ContextOf, RotContext
<1> HIDE DEF y
<1> QED
  BY <1>2, <1>3

LEMMA SubmitFailsKeeps ==
  ASSUME RotInv, NEW c \in Ctxs, SubmitFails(c)
  PROVE  RotInv'
<1>1. PICK g \in Going(c) : Scheduled(c, [g.x EXCEPT !.req[g.req] = None])
  BY DEF SubmitFails
<1> DEFINE x == WithReq(g.x, g.req, None)
<1>2. Follows(c, ctx[c], g.x) /\ g.x.curr = ctx[c].curr /\ at[c] # "closed"
  BY GoingIs
<1>3. Follows(c, g.x, x) /\ x.curr = g.x.curr
  BY <1>2, ReqAssigned DEF Follows
<1> HIDE DEF x
<1>4. Follows(c, ctx[c], x) /\ ContextOf(c, x) /\ x.curr = ctx[c].curr
  BY <1>2, <1>3, FollowsTwice DEF Follows
<1>5. /\ locked = None /\ busy' = [busy EXCEPT ![c] = None]
      /\ UNCHANGED <<client, queues, slots, smmu, session, made, lost>>
  BY DEF SubmitFails, resources, history
<1>6. Scheduled(c, x)
  BY <1>1 DEF x, WithReq
<1> QED
  BY <1>2, <1>4, <1>5, <1>6, WorkerMay, ScheduledKeeps

\* The hardware.
LEMMA HwDoneKeeps ==
  ASSUME RotInv, HwDone
  PROVE  RotInv'
<1>1. UNCHANGED <<ctx, at, locked, target, entry, queues, slots, smmu, session, made, lost, busy>>
  BY DEF HwDone, client, resources
<1>2. ContextsOK' /\ PlacesOK'
  BY <1>1 DEF RotInv, ContextsOK, PlacesOK
<1>3. Drops
  BY <1>1, CoreUntouched
<1>4. SessionsOK'
  BY <1>1, <1>3, DropsSets DEF RotInv, SessionsOK
<1>5. \A c \in Ctxs : CaughtUp(c)
  <2>1. \A c \in Ctxs : ctx[c].next \in Nat
    BY ContextHere, ContextFields
  <2> QED
    BY <1>1, <2>1 DEF CaughtUp
<1>6. \A c \in Ctxs : target[c] # None => Cancelling(c)' /\ target[c].entry \in DOMAIN entry'
  BY <1>1 DEF RotInv, TargetsOK, Cancelling
<1> QED
  BY <1>1, <1>2, <1>3, <1>4, <1>5, <1>6, OutsideKeeps

-----------------------------------------------------------------------------
(* The rotator: a new entry.                                               *)

Adds(e, x) ==
    /\ e \in Ids /\ e \notin DOMAIN entry /\ x \in RotEntry /\ x.stage = "queued"
    /\ DOMAIN entry' = DOMAIN entry \cup {e}
    /\ entry'[e] = x /\ \A d \in DOMAIN entry : entry'[d] = entry[d]

LEMMA AddsSets ==
  ASSUME EntriesOK, EntriesOK', NEW e, NEW x, Adds(e, x)
  PROVE  /\ Unreleased' = Unreleased \cup {e} /\ e \notin Unreleased
         /\ Holding' = Holding
         /\ \A c \in Ctxs : InCore(c)' = IF c = e[1] THEN InCore(c) \cup {e} ELSE InCore(c)
         /\ e \notin InCore(e[1])
<1>1. /\ Unreleased = {d \in DOMAIN entry : entry[d].stage # "done"}
      /\ Holding = {d \in DOMAIN entry : entry[d].stage \in {"active", "failing"}}
  BY CoreSets
<1>2. /\ Unreleased' = {d \in DOMAIN entry' : entry'[d].stage # "done"}
      /\ Holding' = {d \in DOMAIN entry' : entry'[d].stage \in {"active", "failing"}}
  BY CoreSetsNext
<1>3. Unreleased' = Unreleased \cup {e} /\ e \notin Unreleased
  BY <1>1, <1>2 DEF Adds
<1>4. Holding' = Holding
  BY <1>1, <1>2 DEF Adds
<1>5. ASSUME NEW c \in Ctxs
      PROVE  InCore(c)' = IF c = e[1] THEN InCore(c) \cup {e} ELSE InCore(c)
  BY DEF Adds, InCore
<1>6. e \notin InCore(e[1])
  BY DEF Adds, InCore
<1> QED
  BY <1>3, <1>4, <1>5, <1>6

\* sde_rotator_submit_handler hands a frame to the core.
LEMMA SubmitHandlerKeeps ==
  ASSUME RotInv, NEW c \in Ctxs, SubmitHandler(c)
  PROVE  RotInv'
<1>0. PICK e : e = <<c, made[c] + 1>>
  OBVIOUS
<1>1. PICK g \in Going(c) :
        /\ g.frame # None
        /\ ctx' = [ctx EXCEPT ![c] = [g.x EXCEPT !.req[g.req] = e]]
        /\ entry' = [d \in DOMAIN entry \cup {e} |->
                        IF d = e THEN NewEntry(g.req, g.frame) ELSE entry[d]]
        /\ commitq' = Append(commitq, e)
  BY <1>0 DEF SubmitHandler
<1>2. /\ locked = None /\ slots' = [slots EXCEPT !.pending = @ + 1]
      /\ made' = [made EXCEPT ![c] = @ + 1] /\ busy' = [busy EXCEPT ![c] = None]
      /\ UNCHANGED <<at, locked, target, committing, doneq, finishing, smmu, session, lost>>
  BY DEF SubmitHandler, client
<1>3. /\ Follows(c, ctx[c], g.x) /\ g.x.curr = ctx[c].curr
      /\ g.req \in Request /\ g.frame \in Nat /\ at[c] # "closed"
  BY <1>1, GoingIs
<1> DEFINE x == NewEntry(g.req, g.frame)
           y == WithReq(g.x, g.req, e)
<1>4. x \in RotEntry /\ x.stage = "queued"
  BY <1>3 DEF RotEntry, RotStages, NewEntry
<1>5. made \in [Ctxs -> Nat] /\ made'[c] = made[c] + 1 /\ made' \in [Ctxs -> Nat]
      /\ \A d \in Ctxs \ {c} : made'[d] = made[d]
  BY <1>2 DEF RotInv, EntriesOK
<1>6. e \in Ids /\ e[1] = c /\ e[2] = made[c] + 1 /\ e \in {c} \X Nat
  BY <1>0, <1>5 DEF Ids
<1>7. e \notin DOMAIN entry /\ e \notin lost
  BY <1>5, <1>6 DEF RotInv, EntriesOK
<1>8. Adds(e, x)
  <2> HIDE DEF x
  <2>1. entry' = [d \in DOMAIN entry \cup {e} |-> IF d = e THEN x ELSE entry[d]]
    BY <1>1 DEF x
  <2> QED
    BY <1>4, <1>6, <1>7, <2>1 DEF Adds
<1>9. Follows(c, ctx[c], y) /\ y.curr = ctx[c].curr
  <2>1. e \in {None} \cup ({c} \X Nat) /\ ContextOf(c, g.x)
    BY <1>3, <1>6 DEF Follows
  <2>2. Follows(c, g.x, y) /\ y.curr = g.x.curr
    BY <2>1, ReqAssigned
  <2> HIDE DEF y
  <2> QED
    BY <1>3, <2>2, FollowsTwice
<1>10. ctx' = [ctx EXCEPT ![c] = y] /\ commitq' = Append(commitq, e)
  BY <1>1 DEF WithReq
<1> HIDE DEF x, y
<1>11. ContextBecomes(c, y) /\ ContextsOK /\ ContextOf(c, y)
  BY <1>9, <1>10, ContextHere DEF RotInv, Follows
<1>12. ContextsOK'
  BY <1>11 DEF ContextsOK, ContextBecomes
<1>13. EntriesOK /\ EntriesOK'
  <2>1. EntriesOK
    BY DEF RotInv
  <2>2. IsFiniteSet(DOMAIN entry')
    BY <1>8, <2>1, FS_AddElement DEF Adds, EntriesOK
  <2>3. \A d \in Ids : d[2] <= made[d[1]] => d[2] <= made'[d[1]]
    BY <1>5 DEF Ids
  <2>4. e[2] <= made'[e[1]]
    BY <1>5, <1>6
  <2> QED
    BY <1>2, <1>5, <1>6, <1>8, <2>1, <2>2, <2>3, <2>4 DEF EntriesOK, Adds
<1>14. QueuesOK'
  <2>1. QueuesOK
    BY DEF RotInv
  <2>2. e \notin Range(commitq) /\ e # committing /\ e \notin Range(doneq) /\ e # finishing
    BY <1>6, <1>7, <2>1, NoneIsNoId DEF QueuesOK, InStage
  <2>3. /\ commitq' \in Seq(Ids) /\ IsInjective(commitq')
        /\ Range(commitq') = Range(commitq) \cup {e}
    BY <1>6, <1>10, <2>1, <2>2, RangeAppend DEF QueuesOK
  <2>4. ASSUME NEW d, NEW stages, InStage(d, stages) PROVE InStage(d, stages)'
    BY <1>8, <2>4 DEF InStage, Adds
  <2>5. \A d \in Range(commitq') : InStage(d, {"queued"})' /\ d # committing'
    <3>1. InStage(e, {"queued"})'
      BY <1>4, <1>8 DEF InStage, Adds
    <3> QED
      BY <1>2, <2>1, <2>2, <2>3, <2>4, <3>1 DEF QueuesOK
  <2>6. committing # None => InStage(committing, {"queued", "failing"})'
    BY <1>2, <2>1, <2>4 DEF QueuesOK
  <2>7. \A d \in Range(doneq') : InStage(d, {"active"})' /\ d # finishing' /\ d \notin lost'
    BY <1>2, <2>1, <2>4 DEF QueuesOK
  <2>8. finishing # None => InStage(finishing, {"active"})' /\ finishing \notin lost
    BY <1>2, <2>1, <2>4 DEF QueuesOK
  <2>9. \A d \in DOMAIN entry' :
          /\ entry'[d].stage = "failing" => d = committing'
          /\ entry'[d].stage = "active" => d \in Range(doneq') \cup {finishing'} \cup lost'
          /\ d \in lost' => entry'[d].stage = "active"
    BY <1>2, <1>4, <1>7, <1>8, <2>1 DEF QueuesOK, Adds
  <2> QED
    BY <1>2, <2>1, <2>3, <2>5, <2>6, <2>7, <2>8, <2>9 DEF QueuesOK
<1>15. SlotsOK'
  <2>1. SlotsOK
    BY DEF RotInv
  <2>2. /\ Unreleased' = Unreleased \cup {e} /\ e \notin Unreleased /\ Holding' = Holding
        /\ IsFiniteSet(Unreleased)
    BY <1>8, <1>13, AddsSets, CoreSets
  <2>3. Cardinality(Unreleased') = Cardinality(Unreleased) + 1
    BY <2>2, FS_AddElement
  <2>4. slots' \in [active : 0 .. MaxActive, pending : Nat]
        /\ slots'.active = slots.active /\ slots'.pending = slots.pending + 1
    BY <1>2, <2>1 DEF SlotsOK
  <2> QED
    BY <1>2, <2>1, <2>2, <2>3, <2>4 DEF SlotsOK
<1>16. TargetsOK'
  <2>1. TargetsOK /\ QueuesOK
    BY DEF RotInv
  <2>2. Range(commitq') = Range(commitq) \cup {e}
    BY <1>6, <1>10, <2>1, RangeAppend DEF QueuesOK
  <2>3. ASSUME NEW d \in Ctxs, target[d] # None
        PROVE  LET t == target[d].entry
               IN  /\ Cancelling(d)' /\ t[1] = d /\ t \in DOMAIN entry' /\ t \notin Range(commitq')
                   /\ target[d].work = "done" => t # committing' /\ t \notin Range(doneq')
    <3>1. target[d].entry \in DOMAIN entry /\ Cancelling(d)
      BY <2>1, <2>3 DEF TargetsOK
    <3>2. Cancelling(d)'
      BY <1>2, <3>1 DEF Cancelling
    <3> QED
      BY <1>2, <1>7, <1>8, <2>1, <2>2, <2>3, <3>1, <3>2 DEF TargetsOK, Adds
  <2> QED
    BY <1>2, <2>1, <2>3 DEF TargetsOK
<1>17. PlacesOK'
  <2>1. PlacesOK
    BY DEF RotInv
  <2>2. busy' \in [Ctxs -> {None} \cup [req : Request, frame : Nat]]
        /\ \A d \in Ctxs \ {c} : busy'[d] = busy[d]
    BY <1>2, <2>1 DEF PlacesOK
  <2>3. ctx'[c].on = ctx[c].on /\ \A d \in Ctxs \ {c} : ctx'[d] = ctx[d]
    BY <1>9, <1>11 DEF ContextBecomes, Follows
  <2>4. at[c] # "flush"
    BY <1>2, <2>1, NoneIsNoId DEF PlacesOK
  <2>5. \A d \in Ctxs : at[d] \in {"flush", "closed"} => \A f \in DOMAIN entry' : f[1] # d
    BY <1>3, <1>6, <1>8, <2>1, <2>4 DEF PlacesOK, Adds
  <2>6. \A d \in Ctxs :
          /\ at[d] \in {"close_cancel", "flush", "closed"} => ~ctx'[d].on
          /\ at[d] = "closed" => busy'[d] = None /\ ctx'[d].work = <<>>
    BY <1>3, <2>1, <2>2, <2>3 DEF PlacesOK
  <2> QED
    BY <1>2, <2>1, <2>2, <2>5, <2>6 DEF PlacesOK
<1>18. SessionsOK'
  <2>1. SessionsOK
    BY DEF RotInv
  <2>2. \A d \in Ctxs : InCore(d) \subseteq InCore(d)'
    BY <1>8, <1>13, AddsSets
  <2> QED
    BY <1>2, <2>1, <2>2 DEF SessionsOK
<1>19. CountsOK'
  <2> SUFFICES ASSUME NEW d \in Ctxs
               PROVE  /\ Cardinality(InCore(d)') <= made'[d]
                      /\ ctx'[d].curr + Cardinality(InCore(d)') <= ctx'[d].next + made'[d]
    BY DEF CountsOK
  <2>1. /\ Cardinality(InCore(d)) <= made[d]
        /\ ctx[d].curr + Cardinality(InCore(d)) <= ctx[d].next + made[d]
    BY DEF RotInv, CountsOK
  <2>2. /\ ctx[d].curr \in Nat /\ ctx[d].next \in Nat /\ made[d] \in Nat
        /\ Cardinality(InCore(d)) \in Nat /\ IsFiniteSet(InCore(d))
    BY <1>5, <1>13, ContextHere, ContextFields, CoreSets, FS_CardinalityType
  <2>3. ctx'[d].curr = ctx[d].curr /\ ctx'[d].next = ctx[d].next
    BY <1>9, <1>11 DEF ContextBecomes, Follows
  <2>4. InCore(d)' = IF d = c THEN InCore(d) \cup {e} ELSE InCore(d)
    BY <1>6, <1>8, <1>13, AddsSets
  <2>5. CASE d = c
    <3>1. Cardinality(InCore(d)') = Cardinality(InCore(d)) + 1
      <4>1. e \notin InCore(d) /\ InCore(d)' = InCore(d) \cup {e}
        BY <1>6, <1>8, <2>4, <2>5 DEF Adds, InCore
      <4> QED
        BY <2>2, <4>1, FS_AddElement
    <3> QED
      BY <1>5, <2>1, <2>2, <2>3, <2>5, <3>1
  <2>6. CASE d # c
    BY <1>5, <2>1, <2>3, <2>4, <2>6
  <2> QED
    BY <2>5, <2>6
<1> QED
  BY <1>12, <1>13, <1>14, <1>15, <1>16, <1>17, <1>18, <1>19 DEF RotInv

-----------------------------------------------------------------------------
(* The rotator: an entry that the core is through with.                    *)

\* e is released; it is kept as done or freed.
Leaves(e) ==
    /\ e \in DOMAIN entry /\ entry[e].stage # "done"
    /\ DOMAIN entry' \subseteq DOMAIN entry /\ DOMAIN entry \ {e} \subseteq DOMAIN entry'
    /\ \A d \in DOMAIN entry' \ {e} : entry'[d] = entry[d]
    /\ e \in DOMAIN entry' => entry'[e] \in RotEntry /\ entry'[e].stage = "done"

\* It is taken out of where it was in the two queues, if it was.
QueuesLeave(e) ==
    /\ commitq' \in Seq(Ids) /\ IsInjective(commitq')
    /\ Range(commitq') \subseteq Range(commitq) \ {e}
    /\ doneq' = doneq /\ e \notin Range(doneq)
    /\ \/ committing' = committing /\ committing # e
       \/ committing' = None /\ committing \in {e, None}
    /\ \/ finishing' = finishing /\ finishing # e
       \/ finishing' = None /\ finishing = e

LEMMA LeavesEntries ==
  ASSUME EntriesOK, NEW e, Leaves(e), UNCHANGED <<made, lost>>
  PROVE  EntriesOK'
<1>1. IsFiniteSet(DOMAIN entry')
  BY FS_Subset DEF EntriesOK, Leaves
<1>2. \A d \in DOMAIN entry' : entry'[d] \in RotEntry
  BY DEF EntriesOK, Leaves
<1> QED
  BY <1>1, <1>2 DEF EntriesOK, Leaves

LEMMA LeavesSets ==
  ASSUME EntriesOK, EntriesOK', NEW e, Leaves(e)
  PROVE  /\ Unreleased' = Unreleased \ {e} /\ e \in Unreleased
         /\ Holding' = Holding \ {e}
         /\ \A c \in Ctxs : InCore(c)' = InCore(c) \ {e}
         /\ \A c \in Ctxs : e \in InCore(c) <=> e[1] = c
<1>1. /\ Unreleased = {d \in DOMAIN entry : entry[d].stage # "done"}
      /\ Holding = {d \in DOMAIN entry : entry[d].stage \in {"active", "failing"}}
  BY CoreSets
<1>2. /\ Unreleased' = {d \in DOMAIN entry' : entry'[d].stage # "done"}
      /\ Holding' = {d \in DOMAIN entry' : entry'[d].stage \in {"active", "failing"}}
  BY CoreSetsNext
<1>3. Unreleased' = Unreleased \ {e} /\ e \in Unreleased
  BY <1>1, <1>2 DEF Leaves
<1>4. Holding' = Holding \ {e}
  BY <1>1, <1>2 DEF Leaves
<1>5. ASSUME NEW c \in Ctxs
      PROVE  InCore(c)' = InCore(c) \ {e} /\ (e \in InCore(c) <=> e[1] = c)
  BY DEF Leaves, InCore
<1> QED
  BY <1>3, <1>4, <1>5

LEMMA LeavesQueues ==
  ASSUME EntriesOK, QueuesOK, NEW e, Leaves(e), QueuesLeave(e), lost' = lost,
         e \in DOMAIN entry' => e \notin lost
  PROVE  QueuesOK'
<1>1. ASSUME NEW d, NEW stages, InStage(d, stages), d # e PROVE InStage(d, stages)'
  BY <1>1 DEF InStage, Leaves
<1>2. \A d \in Range(commitq') : InStage(d, {"queued"})' /\ d # committing'
  <2>1. ASSUME NEW d \in Range(commitq')
        PROVE  d # e /\ InStage(d, {"queued"}) /\ d # committing /\ d # None
    <3>1. d \in Range(commitq) /\ d # e
      BY DEF QueuesLeave
    <3>2. InStage(d, {"queued"}) /\ d # committing
      BY <3>1 DEF QueuesOK
    <3> QED
      BY <3>1, <3>2, NoneIsNoId DEF InStage, EntriesOK
  <2> QED
    BY <1>1, <2>1 DEF QueuesLeave
<1>3. ASSUME NEW d, d = committing', d # None PROVE InStage(d, {"queued", "failing"})'
  <2>1. d = committing /\ d # e
    BY <1>3 DEF QueuesLeave
  <2> QED
    BY <1>1, <1>3, <2>1 DEF QueuesOK
<1>4. \A d \in Range(doneq') : InStage(d, {"active"})' /\ d # finishing' /\ d \notin lost'
  <2>1. ASSUME NEW d \in Range(doneq)
        PROVE  d # e /\ InStage(d, {"active"}) /\ d # finishing /\ d \notin lost /\ d # None
    <3>1. InStage(d, {"active"}) /\ d # finishing /\ d \notin lost
      BY DEF QueuesOK
    <3> QED
      BY <3>1, NoneIsNoId DEF InStage, EntriesOK, QueuesLeave
  <2> QED
    BY <1>1, <2>1 DEF QueuesLeave
<1>5. ASSUME NEW d, d = finishing', d # None PROVE InStage(d, {"active"})' /\ d \notin lost'
  <2>1. d = finishing /\ d # e
    BY <1>5 DEF QueuesLeave
  <2> QED
    BY <1>1, <1>5, <2>1 DEF QueuesOK
<1>6. ASSUME NEW d \in DOMAIN entry'
      PROVE  /\ entry'[d].stage = "failing" => d = committing'
             /\ entry'[d].stage = "active" => d \in Range(doneq') \cup {finishing'} \cup lost'
             /\ d \in lost' => entry'[d].stage = "active"
  <2>1. CASE d = e
    BY <2>1 DEF Leaves
  <2>2. CASE d # e
    <3>1. d \in DOMAIN entry /\ entry'[d] = entry[d]
      BY <2>2 DEF Leaves
    <3>2. d # None
      BY <3>1, NoneIsNoId DEF EntriesOK
    <3>3. /\ entry[d].stage = "failing" => d = committing
          /\ entry[d].stage = "active" => d \in Range(doneq) \cup {finishing} \cup lost
          /\ d \in lost => entry[d].stage = "active"
      BY <3>1 DEF QueuesOK
    <3>4. d = committing => d = committing'
      BY <2>2, <3>2 DEF QueuesLeave
    <3>5. d = finishing => d = finishing'
      BY <2>2, <3>2 DEF QueuesLeave
    <3>6. doneq' = doneq
      BY DEF QueuesLeave
    <3> QED
      BY <3>1, <3>3, <3>4, <3>5, <3>6
  <2> QED
    BY <2>1, <2>2
<1>7. /\ commitq' \in Seq(Ids) /\ IsInjective(commitq')
      /\ doneq' \in Seq(Ids) /\ IsInjective(doneq')
  BY DEF QueuesLeave, QueuesOK
<1> QED
  BY <1>2, <1>3, <1>4, <1>5, <1>6, <1>7 DEF QueuesOK

LEMMA LeavesSlots ==
  ASSUME EntriesOK, EntriesOK', SlotsOK, NEW e, Leaves(e), lost' = lost,
         NEW s \in [active : 0 .. MaxActive, pending : Nat],
         s.pending = slots.pending, slots' = Unassign(s),
         Cardinality(Holding \ {e}) <= s.active,
         s.active <= Cardinality((Holding \ {e}) \cup lost),
         smmu' = Cardinality((Holding \ {e}) \cup lost)
  PROVE  SlotsOK'
<1>1. /\ Unreleased' = Unreleased \ {e} /\ e \in Unreleased /\ Holding' = Holding \ {e}
      /\ IsFiniteSet(Unreleased) /\ IsFiniteSet(Holding) /\ IsFiniteSet(Holding \cup lost)
  BY LeavesSets, CoreSets
<1> DEFINE n == Cardinality(Unreleased)
           h == Cardinality(Holding')
           l == Cardinality(Holding' \cup lost)
<1>2. n \in Nat /\ n # 0 /\ Cardinality(Unreleased') = n - 1
  BY <1>1, FS_CardinalityType, FS_RemoveElement, FS_EmptySet
<1>3. h \in Nat /\ l \in Nat
  <2>1. IsFiniteSet(Holding')
    BY <1>1, FS_RemoveElement
  <2>2. IsFiniteSet(Holding' \cup lost)
    BY <2>1, FS_Union DEF EntriesOK
  <2> QED
    BY <2>1, <2>2, FS_CardinalityType
<1>4. n = 1 => h = 0
  <2> SUFFICES ASSUME n = 1 PROVE h = 0
    OBVIOUS
  <2>1. Unreleased' = {}
    <3>1. IsFiniteSet(Unreleased') /\ Cardinality(Unreleased') = 0
      BY <1>1, <1>2, FS_RemoveElement
    <3> QED
      BY <3>1, FS_EmptySet
  <2>2. Holding' = {}
    BY <2>1 DEF Holding
  <2> QED
    BY <2>2, FS_EmptySet
<1>5. slots.pending = n
  BY DEF SlotsOK
<1>6. h <= s.active /\ s.active <= l /\ smmu' = l
  BY <1>1
<1> HIDE DEF n, h, l
<1>7. s.active \in 0 .. MaxActive /\ s.pending = n /\ MaxActive \in Nat
  BY <1>5, RotAssumption
<1>8. slots' = [pending |-> n - 1, active |-> IF n = 1 THEN 0 ELSE s.active]
  BY <1>7 DEF Unassign
<1>9. /\ slots'.pending = n - 1 /\ slots'.active = IF n = 1 THEN 0 ELSE s.active
      /\ slots' \in [active : 0 .. MaxActive, pending : Nat]
  BY <1>2, <1>7, <1>8
<1>10. h <= slots'.active /\ slots'.active <= l
  BY <1>3, <1>4, <1>6, <1>7, <1>9
<1> QED
  BY <1>2, <1>6, <1>9, <1>10 DEF SlotsOK, n, h, l

LEMMA LeavesSessions ==
  ASSUME SessionsOK, EntriesOK, EntriesOK', NEW e, Leaves(e), Released(e), at' = at
  PROVE  SessionsOK'
<1>1. /\ \A c \in Ctxs : InCore(c)' = InCore(c) \ {e}
      /\ \A c \in Ctxs : e \in InCore(c) <=> e[1] = c
  BY LeavesSets
<1>2. e[1] \in Ctxs
  BY DEF Leaves, EntriesOK, Ids
<1>3. /\ session' \in [Ctxs -> {"open", "closing", "closed"}]
      /\ \A c \in Ctxs : c # e[1] => session'[c] = session[c]
      /\ session'[e[1]] = IF session[e[1]] = "closing" /\ InCore(e[1]) = {e}
                          THEN "closed" ELSE session[e[1]]
  BY <1>2 DEF Released, SessionsOK
<1>4. ASSUME NEW c \in Ctxs
      PROVE  /\ session'[c] = "closing" => InCore(c)' # {}
             /\ at[c] \in {"close_cancel", "flush", "closed"} => session'[c] # "open"
             /\ at[c] \in {"flush", "closed"} => session'[c] = "closed"
  <2>1. /\ session[c] = "closing" => InCore(c) # {}
        /\ at[c] \in {"close_cancel", "flush", "closed"} => session[c] # "open"
        /\ at[c] \in {"flush", "closed"} => session[c] = "closed"
    BY DEF SessionsOK
  <2>2. CASE c = e[1]
    <3>1. e \in InCore(c)
      BY <1>1, <2>2
    <3>2. InCore(c) # {e} => InCore(c) \ {e} # {}
      BY <3>1
    <3> QED
      BY <1>1, <1>3, <2>1, <2>2, <3>2
  <2>3. CASE c # e[1]
    <3>1. InCore(c)' = InCore(c)
      BY <1>1, <2>3
    <3> QED
      BY <1>3, <2>1, <2>3, <3>1
  <2> QED
    BY <2>2, <2>3
<1> QED
  BY <1>3, <1>4 DEF SessionsOK

LEMMA LeavesCounts ==
  ASSUME CountsOK, ContextsOK, EntriesOK, EntriesOK', NEW e, Leaves(e), made' = made,
         \A c \in Ctxs :
             /\ ctx'[c].next = ctx[c].next
             /\ ctx'[c].curr = ctx[c].curr + IF c = e[1] THEN 1 ELSE 0
  PROVE  CountsOK'
<1> SUFFICES ASSUME NEW c \in Ctxs
             PROVE  /\ Cardinality(InCore(c)') <= made[c]
                    /\ ctx'[c].curr + Cardinality(InCore(c)') <= ctx'[c].next + made[c]
  BY DEF CountsOK
<1>1. InCore(c)' = InCore(c) \ {e} /\ (e \in InCore(c) <=> e[1] = c) /\ IsFiniteSet(InCore(c))
  BY LeavesSets, CoreSets
<1> DEFINE n == Cardinality(InCore(c))
           m == Cardinality(InCore(c)')
<1>2. n \in Nat /\ m = n - IF c = e[1] THEN 1 ELSE 0
  BY <1>1, FS_CardinalityType, FS_RemoveElement
<1>3. /\ n <= made[c] /\ ctx[c].curr + n <= ctx[c].next + made[c]
      /\ ctx[c].curr \in Nat /\ ctx[c].next \in Nat /\ made[c] \in Nat
  BY ContextFields DEF CountsOK, ContextsOK, EntriesOK
<1> HIDE DEF n, m
<1>4. m <= made[c] /\ ctx'[c].curr + m <= ctx'[c].next + made[c]
  BY <1>2, <1>3
<1> QED
  BY <1>4 DEF m

LEMMA LeavesTargets ==
  ASSUME TargetsOK, EntriesOK, NEW e, QueuesLeave(e), at' = at,
         target' \in [Ctxs -> {None} \cup [entry : Ids, work : {"commit", "done"}]],
         \A c \in Ctxs : target'[c] # None =>
             target'[c] = target[c] /\ target[c].entry \in DOMAIN entry'
  PROVE  TargetsOK'
<1>1. ASSUME NEW c \in Ctxs, target'[c] # None
      PROVE  LET t == target'[c].entry
             IN  /\ Cancelling(c)' /\ t[1] = c /\ t \in DOMAIN entry' /\ t \notin Range(commitq')
                 /\ target'[c].work = "done" => t # committing' /\ t \notin Range(doneq')
  <2> DEFINE t == target[c].entry
  <2>1. target'[c] = target[c] /\ target[c] # None /\ t \in DOMAIN entry'
    BY <1>1
  <2>2. /\ Cancelling(c) /\ t[1] = c /\ t \in DOMAIN entry /\ t \notin Range(commitq)
        /\ target[c].work = "done" => t # committing /\ t \notin Range(doneq)
    BY <2>1 DEF TargetsOK
  <2>3. Cancelling(c)' /\ t # None
    BY <2>2, NoneIsNoId DEF Cancelling, EntriesOK
  <2>4. t \notin Range(commitq') /\ doneq' = doneq /\ committing' \in {committing, None}
    BY <2>2 DEF QueuesLeave
  <2> QED
    BY <2>1, <2>2, <2>3, <2>4
<1> QED
  BY <1>1 DEF TargetsOK

LEMMA SignalIs ==
  ASSUME NEW c, NEW x, ContextOf(c, x)
  PROVE  LET y == SignalOutput(x)
         IN  /\ ContextOf(c, y) /\ y.next = x.next /\ y.curr = x.curr + 1
             /\ y.on = x.on /\ y.work = x.work
<1> DEFINE n == x.curr + 1
           y == [x EXCEPT !.curr = n]
<1>1. n \in Nat
  BY ContextFields
<1>2. SignalOutput(x) = y
  BY DEF SignalOutput, ContextOf, RotContext
<1> HIDE DEF n
<1>3. /\ ContextOf(c, y) /\ y.next = x.next /\ y.curr = n
      /\ y.on = x.on /\ y.work = x.work
  BY <1>1 DEF ContextOf, RotContext
<1> HIDE DEF y
<1> QED
  BY <1>2, <1>3 DEF n

\* The end of both handlers: the slot is in s, and the queues have let go of e.
LEMMA EndKeeps ==
  ASSUME RotInv, NEW e \in DOMAIN entry, entry[e].stage # "done", e \notin lost,
         NEW failed \in BOOLEAN, NEW s \in [active : 0 .. MaxActive, pending : Nat],
         End(e, failed, s), QueuesLeave(e), s.pending = slots.pending,
         Cardinality(Holding \ {e}) <= s.active,
         s.active <= Cardinality((Holding \ {e}) \cup lost),
         smmu' = Cardinality((Holding \ {e}) \cup lost),
         UNCHANGED <<busy, at, locked, target, made, lost>>
  PROVE  RotInv'
<1> DEFINE c == e[1]
<1>1. /\ ContextsOK /\ EntriesOK /\ QueuesOK /\ SlotsOK
      /\ TargetsOK /\ PlacesOK /\ SessionsOK /\ CountsOK
  BY DEF RotInv
<1>2. c \in Ctxs /\ entry[e] \in RotEntry /\ entry[e].req \in Request
  BY <1>1 DEF EntriesOK, Ids, RotEntry
<1>3. Leaves(e) /\ DOMAIN entry' = DOMAIN entry
  <2> DEFINE y == [entry EXCEPT ![e].stage = "done"]
  <2>1. entry' = [entry EXCEPT ![e].stage = "done", ![e].failed = @ \/ failed]
    BY DEF End
  <2>2. /\ DOMAIN entry' = DOMAIN entry
        /\ \A d \in DOMAIN entry \ {e} : entry'[d] = entry[d]
    BY <2>1
  <2>3. entry'[e] = [entry[e] EXCEPT !.stage = "done", !.failed = entry[e].failed \/ failed]
    BY <1>2, <2>1 DEF RotEntry
  <2>4. entry'[e] \in RotEntry /\ entry'[e].stage = "done"
    <3>1. (entry[e].failed \/ failed) \in BOOLEAN /\ "done" \in RotStages
      BY <1>2 DEF RotEntry, RotStages
    <3> QED
      BY <1>2, <2>3, <3>1 DEF RotEntry
  <2> QED
    BY <2>2, <2>4 DEF Leaves
<1> DEFINE y == SignalOutput(ctx[c])
           w == <<"retire", entry[e].req>>
           x == Enqueue(y, w)
<1>4. ContextOf(c, x) /\ x.next = ctx[c].next /\ x.curr = ctx[c].curr + 1 /\ x.on = ctx[c].on
  <2>1. ContextOf(c, ctx[c]) /\ ctx[c].curr \in Nat
    BY <1>1, <1>2, ContextFields DEF ContextsOK
  <2>2. ContextOf(c, y) /\ y.next = ctx[c].next /\ y.curr = ctx[c].curr + 1 /\ y.on = ctx[c].on
    BY <2>1, SignalIs
  <2>3. w \in WorkItems
    BY <1>2 DEF WorkItems
  <2> HIDE DEF y, w
  <2>4. Follows(c, y, x) /\ x.curr = y.curr
    BY <2>2, <2>3, EnqueueFollows
  <2> HIDE DEF x
  <2> QED
    BY <2>2, <2>4 DEF Follows
<1>5. ctx' = [ctx EXCEPT ![c] = x]
  BY DEF End
<1> HIDE DEF x
<1>6. ContextBecomes(c, x)
  BY <1>2, <1>5, ContextHere
<1>7. ContextsOK'
  BY <1>1, <1>4, <1>6 DEF ContextsOK, ContextBecomes
<1>8. EntriesOK'
  BY <1>1, <1>3, LeavesEntries
<1>9. QueuesOK'
  BY <1>1, <1>3, LeavesQueues
<1>10. SlotsOK'
  <2>1. slots' = Unassign(s)
    BY DEF End
  <2> QED
    BY <1>1, <1>3, <1>8, <2>1, LeavesSlots
<1>11. TargetsOK'
  <2>1. target' \in [Ctxs -> {None} \cup [entry : Ids, work : {"commit", "done"}]]
    BY <1>1 DEF TargetsOK
  <2>2. \A d \in Ctxs : target'[d] # None =>
          target'[d] = target[d] /\ target[d].entry \in DOMAIN entry'
    BY <1>1, <1>3 DEF TargetsOK
  <2> QED
    BY <1>1, <2>1, <2>2, LeavesTargets
<1>12. PlacesOK'
  <2>1. \A d \in Ctxs : at[d] \in {"close_cancel", "flush", "closed"} => ~ctx'[d].on
    BY <1>1, <1>4, <1>6 DEF PlacesOK, ContextBecomes
  <2>2. at[c] # "closed"
    BY <1>1, <1>2 DEF PlacesOK
  <2>3. \A d \in Ctxs : at[d] = "closed" => busy[d] = None /\ ctx'[d].work = <<>>
    BY <1>1, <1>6, <2>2 DEF PlacesOK, ContextBecomes
  <2> QED
    BY <1>1, <1>3, <2>1, <2>3 DEF PlacesOK
<1>13. SessionsOK'
  <2>1. Released(e)
    BY DEF End
  <2> QED
    BY <1>1, <1>3, <1>8, <2>1, LeavesSessions
<1>14. CountsOK'
  <2>1. \A d \in Ctxs :
          /\ ctx'[d].next = ctx[d].next
          /\ ctx'[d].curr = ctx[d].curr + IF d = c THEN 1 ELSE 0
    <3>1. \A d \in Ctxs : ctx[d].curr \in Nat
      BY <1>1, ContextFields DEF ContextsOK
    <3> HIDE DEF c
    <3> QED
      BY <1>4, <1>6, <3>1 DEF ContextBecomes
  <2> QED
    BY <1>1, <1>3, <1>8, <2>1, LeavesCounts
<1> QED
  BY <1>7, <1>8, <1>9, <1>10, <1>11, <1>12, <1>13, <1>14 DEF RotInv

-----------------------------------------------------------------------------
(* The rotator: the two workers of the core.                               *)

\* The entry the commit handler is at is in none of the other places.
LEMMA CommittableIs ==
  ASSUME RotInv, NEW e \in Committable
  PROVE  /\ e \in DOMAIN entry /\ entry[e].stage \in {"queued", "failing"}
         /\ e \in Ids /\ e \notin lost /\ e \notin Range(doneq) /\ e # finishing
         /\ committing \in {e, None}
         /\ committing = None => commitq # <<>> /\ e = Head(commitq)
<1>1. EntriesOK /\ QueuesOK
  BY DEF RotInv
<1>2. /\ InStage(e, {"queued", "failing"}) /\ committing \in {e, None}
      /\ committing = None => commitq # <<>> /\ e = Head(commitq)
  <2>1. CASE committing # None
    <3>1. e = committing
      BY <2>1 DEF Committable
    <3> QED
      BY <1>1, <2>1, <3>1 DEF QueuesOK
  <2>2. CASE committing = None
    <3>1. PICK i \in DOMAIN commitq \cap {1} : e = commitq[i]
      BY <2>2 DEF Committable
    <3>2. commitq \in Seq(Ids) /\ 1 \in DOMAIN commitq /\ e = commitq[1]
      BY <1>1, <3>1 DEF QueuesOK
    <3>3. commitq # <<>> /\ e = Head(commitq)
      BY <3>2
    <3>4. e \in Range(commitq)
      BY <3>2 DEF Range
    <3>5. InStage(e, {"queued"})
      BY <1>1, <3>4 DEF QueuesOK
    <3> QED
      BY <2>2, <3>3, <3>5 DEF InStage
  <2> QED
    BY <2>1, <2>2
<1>3. e \in DOMAIN entry /\ entry[e].stage \in {"queued", "failing"} /\ e \in Ids
  BY <1>1, <1>2 DEF InStage, EntriesOK
<1>4. e # None
  BY <1>3, NoneIsNoId
<1>5. e \notin lost /\ e \notin Range(doneq) /\ e # finishing
  BY <1>1, <1>3, <1>4 DEF QueuesOK, InStage
<1> QED
  BY <1>2, <1>3, <1>5

LEMMA UncommitIs ==
  ASSUME RotInv, NEW e \in Committable, Uncommit
  PROVE  /\ committing' = None /\ commitq' \in Seq(Ids) /\ IsInjective(commitq')
         /\ Range(commitq') \subseteq Range(commitq) \ {e}
<1>1. /\ commitq \in Seq(Ids) /\ IsInjective(commitq)
      /\ \A d \in Range(commitq) : d # committing
  BY DEF RotInv, QueuesOK
<1>2. /\ committing \in {e, None} /\ e \in Ids
      /\ committing = None => commitq # <<>> /\ e = Head(commitq)
  BY CommittableIs
<1>3. CASE committing # None
  BY <1>1, <1>2, <1>3 DEF Uncommit
<1>4. CASE committing = None
  <2>1. commitq # <<>> /\ e = Head(commitq) /\ commitq' = Tail(commitq) /\ committing' = None
    BY <1>2, <1>4 DEF Uncommit
  <2>2. /\ Tail(commitq) \in Seq(Ids) /\ Range(commitq) = {e} \cup Range(Tail(commitq))
        /\ IsInjective(Tail(commitq)) /\ e \notin Range(Tail(commitq))
    BY <1>1, <2>1, RangeTail
  <2> QED
    BY <2>1, <2>2
<1> QED
  BY <1>3, <1>4

LEMMA UncommitLeaves ==
  ASSUME RotInv, NEW e \in Committable, Uncommit, UNCHANGED <<doneq, finishing>>
  PROVE  QueuesLeave(e)
  BY CommittableIs, UncommitIs DEF QueuesLeave

\* An entry that has no slot leaves the slots as they are.
LEMMA QueuedHoldsNothing ==
  ASSUME RotInv, NEW e \in DOMAIN entry, entry[e].stage = "queued"
  PROVE  /\ slots \in [active : 0 .. MaxActive, pending : Nat]
         /\ Cardinality(Holding \ {e}) <= slots.active
         /\ slots.active <= Cardinality((Holding \ {e}) \cup lost)
         /\ smmu = Cardinality((Holding \ {e}) \cup lost)
<1>1. EntriesOK /\ SlotsOK
  BY DEF RotInv
<1>2. e \notin Holding
  BY <1>1, CoreSets
<1>3. Holding \ {e} = Holding
  BY <1>2
<1> QED
  BY <1>1, <1>3 DEF SlotsOK

\* One that has a slot gives it back.
LEMMA HolderLeaves ==
  ASSUME RotInv, NEW e \in DOMAIN entry, entry[e].stage \in {"active", "failing"}, e \notin lost
  PROVE  /\ PutSlot(slots) \in [active : 0 .. MaxActive, pending : Nat]
         /\ PutSlot(slots).pending = slots.pending
         /\ Cardinality(Holding \ {e}) <= PutSlot(slots).active
         /\ PutSlot(slots).active <= Cardinality((Holding \ {e}) \cup lost)
         /\ smmu - 1 = Cardinality((Holding \ {e}) \cup lost)
<1>1. EntriesOK /\ SlotsOK
  BY DEF RotInv
<1>2. e \in Holding /\ IsFiniteSet(Holding) /\ IsFiniteSet(Holding \cup lost)
  BY <1>1, CoreSets
<1> DEFINE h == Cardinality(Holding)
           l == Cardinality(Holding \cup lost)
<1>3. /\ h \in Nat /\ h # 0 /\ l \in Nat
      /\ Cardinality(Holding \ {e}) = h - 1
  BY <1>2, FS_CardinalityType, FS_RemoveElement, FS_EmptySet
<1>4. Cardinality((Holding \ {e}) \cup lost) = l - 1
  <2>1. (Holding \ {e}) \cup lost = (Holding \cup lost) \ {e} /\ e \in Holding \cup lost
    BY <1>2
  <2> QED
    BY <1>2, <2>1, FS_RemoveElement
<1>5. /\ slots \in [active : 0 .. MaxActive, pending : Nat] /\ h <= slots.active
      /\ slots.active <= l /\ smmu = l
  BY <1>1 DEF SlotsOK
<1> HIDE DEF h, l
<1>6. Dec(slots.active) = slots.active - 1 /\ slots.active - 1 \in 0 .. MaxActive
  BY <1>3, <1>5, RotAssumption DEF Dec
<1>7. /\ PutSlot(slots).active = slots.active - 1 /\ PutSlot(slots).pending = slots.pending
      /\ PutSlot(slots) \in [active : 0 .. MaxActive, pending : Nat]
  BY <1>5, <1>6 DEF PutSlot
<1> QED
  BY <1>3, <1>4, <1>5, <1>7, RotAssumption

LEMMA CommitFailsKeeps ==
  ASSUME RotInv, CommitFails
  PROVE  RotInv'
<1>1. PICK e \in Committable : entry[e].stage = "queued" /\ End(e, TRUE, slots)
  BY DEF CommitFails
<1>2. /\ Uncommit
      /\ UNCHANGED <<busy, at, locked, target, doneq, finishing, smmu, made, lost>>
  BY DEF CommitFails, client, history
<1>3. e \in DOMAIN entry /\ e \notin lost
  BY CommittableIs
<1>4. QueuesLeave(e)
  BY <1>2, UncommitLeaves
<1> QED
  BY <1>1, <1>2, <1>3, <1>4, QueuedHoldsNothing, EndKeeps

LEMMA NoSlotKeeps ==
  ASSUME RotInv, NoSlot
  PROVE  RotInv'
<1>1. PICK e \in Committable : entry[e].stage = "queued" /\ End(e, TRUE, slots)
  BY DEF NoSlot, Committable
<1>2. /\ Uncommit
      /\ UNCHANGED <<busy, at, locked, target, doneq, finishing, smmu, made, lost>>
  BY DEF NoSlot, client, history
<1>3. e \in DOMAIN entry /\ e \notin lost
  BY CommittableIs
<1>4. QueuesLeave(e)
  BY <1>2, UncommitLeaves
<1> QED
  BY <1>1, <1>2, <1>3, <1>4, QueuedHoldsNothing, EndKeeps

LEMMA KickoffCancelledKeeps ==
  ASSUME RotInv, KickoffCancelled
  PROVE  RotInv'
<1>1. PICK e \in Committable : entry[e].stage = "failing" /\ End(e, TRUE, PutSlot(slots))
  BY DEF KickoffCancelled, Committable
<1>2. /\ Uncommit /\ smmu' = smmu - 1
      /\ UNCHANGED <<busy, at, locked, target, doneq, finishing, made, lost>>
  BY DEF KickoffCancelled, client, history
<1>3. e \in DOMAIN entry /\ e \notin lost
  BY CommittableIs
<1>4. QueuesLeave(e)
  BY <1>2, UncommitLeaves
<1> QED
  BY <1>1, <1>2, <1>3, <1>4, HolderLeaves, EndKeeps

LEMMA DoneHandlerKeeps ==
  ASSUME RotInv, DoneHandler
  PROVE  RotInv'
<1>1. PICK e : e = finishing
  OBVIOUS
<1>2. /\ finishing # None /\ End(e, e \in Range(hw), PutSlot(slots))
      /\ finishing' = None /\ smmu' = smmu - 1
      /\ UNCHANGED <<busy, at, locked, target, commitq, committing, doneq, made, lost>>
  BY <1>1 DEF DoneHandler, client, history
<1>3. QueuesOK
  BY DEF RotInv
<1>4. e \in DOMAIN entry /\ entry[e].stage = "active" /\ e \notin lost
  BY <1>1, <1>2, <1>3 DEF QueuesOK, InStage
<1>5. e # committing /\ e \notin Range(commitq) /\ e \notin Range(doneq)
  <2>1. e # None
    BY <1>1, <1>2
  <2> QED
    BY <1>1, <1>3, <1>4, <2>1 DEF QueuesOK, InStage
<1>6. QueuesLeave(e)
  BY <1>1, <1>2, <1>3, <1>5 DEF QueuesLeave, QueuesOK
<1>7. (e \in Range(hw)) \in BOOLEAN
  OBVIOUS
<1> QED
  BY <1>2, <1>4, <1>6, <1>7, HolderLeaves, EndKeeps

\* Steps inside the core that release nothing.
LEMMA InsideKeeps ==
  ASSUME RotInv, UNCHANGED <<ctx, busy, at, locked, session, made>>,
         EntriesOK', QueuesOK', SlotsOK', TargetsOK',
         DOMAIN entry' \subseteq DOMAIN entry,
         \A c \in Ctxs : InCore(c)' = InCore(c)
  PROVE  RotInv'
<1>1. ContextsOK'
  BY DEF RotInv, ContextsOK
<1>2. PlacesOK'
  BY DEF RotInv, PlacesOK
<1>3. SessionsOK'
  BY DEF RotInv, SessionsOK
<1>4. CountsOK'
  BY DEF RotInv, CountsOK
<1> QED
  BY <1>1, <1>2, <1>3, <1>4 DEF RotInv

LEMMA CommitWaitKeeps ==
  ASSUME RotInv, CommitWait
  PROVE  RotInv'
<1>1. PICK e : e = Head(commitq)
  OBVIOUS
<1>2. /\ committing = None /\ commitq # <<>> /\ committing' = e /\ commitq' = Tail(commitq)
      /\ UNCHANGED <<ctx, busy, at, locked, target, session, made, entry, doneq, finishing,
                     lost, slots, smmu>>
  BY <1>1 DEF CommitWait, client, history, resources
<1>3. EntriesOK /\ QueuesOK /\ SlotsOK /\ TargetsOK
  BY DEF RotInv
<1>4. /\ Tail(commitq) \in Seq(Ids) /\ Range(commitq) = {e} \cup Range(Tail(commitq))
      /\ IsInjective(Tail(commitq)) /\ e \notin Range(Tail(commitq)) /\ e \in Ids
  BY <1>1, <1>2, <1>3, RangeTail DEF QueuesOK
<1>5. EntriesOK' /\ SlotsOK' /\ \A c \in Ctxs : InCore(c)' = InCore(c)
  <2>1. Drops
    BY <1>2, CoreUntouched
  <2> QED
    BY <1>2, <1>3, <2>1, DropsSets DEF EntriesOK, SlotsOK
<1>6. QueuesOK'
  <2>1. ASSUME NEW d, NEW stages, InStage(d, stages) PROVE InStage(d, stages)'
    BY <1>2, <2>1 DEF InStage
  <2>2. InStage(e, {"queued"})
    BY <1>3, <1>4 DEF QueuesOK
  <2>3. InStage(e, {"queued", "failing"})'
    BY <1>2, <2>2 DEF InStage
  <2>4. \A d \in DOMAIN entry : entry[d].stage # "failing"
    <3>1. \A d \in DOMAIN entry : d # None
      BY <1>3, NoneIsNoId DEF EntriesOK
    <3> QED
      BY <1>2, <1>3, <3>1 DEF QueuesOK
  <2>5. \A d \in Range(commitq') : InStage(d, {"queued"})' /\ d # committing'
    BY <1>2, <1>3, <1>4, <2>1 DEF QueuesOK
  <2>6. \A d \in Range(doneq') : InStage(d, {"active"})' /\ d # finishing' /\ d \notin lost'
    BY <1>2, <1>3, <2>1 DEF QueuesOK
  <2>7. finishing # None => InStage(finishing, {"active"})'
    BY <1>2, <1>3, <2>1 DEF QueuesOK
  <2> QED
    BY <1>2, <1>3, <1>4, <2>3, <2>4, <2>5, <2>6, <2>7 DEF QueuesOK
<1>7. TargetsOK'
  <2>1. ASSUME NEW c \in Ctxs, target[c] # None
        PROVE  target[c].entry # e /\ target[c].entry \notin Range(commitq')
    BY <1>2, <1>3, <1>4, <2>1 DEF TargetsOK
  <2> QED
    BY <1>2, <1>3, <2>1 DEF TargetsOK, Cancelling
<1> QED
  BY <1>2, <1>5, <1>6, <1>7, InsideKeeps

LEMMA DoneWaitKeeps ==
  ASSUME RotInv, DoneWait
  PROVE  RotInv'
<1>1. PICK e : e = Head(doneq)
  OBVIOUS
<1>2. /\ finishing = None /\ doneq # <<>> /\ finishing' = e /\ doneq' = Tail(doneq)
      /\ UNCHANGED <<ctx, busy, at, locked, target, session, made, entry, commitq, committing,
                     lost, slots, smmu>>
  BY <1>1 DEF DoneWait, client, history, resources
<1>3. EntriesOK /\ QueuesOK /\ SlotsOK /\ TargetsOK
  BY DEF RotInv
<1>4. /\ Tail(doneq) \in Seq(Ids) /\ Range(doneq) = {e} \cup Range(Tail(doneq))
      /\ IsInjective(Tail(doneq)) /\ e \notin Range(Tail(doneq)) /\ e \in Ids
  BY <1>1, <1>2, <1>3, RangeTail DEF QueuesOK
<1>5. EntriesOK' /\ SlotsOK' /\ \A c \in Ctxs : InCore(c)' = InCore(c)
  <2>1. Drops
    BY <1>2, CoreUntouched
  <2> QED
    BY <1>2, <1>3, <2>1, DropsSets DEF EntriesOK, SlotsOK
<1>6. QueuesOK'
  <2>1. ASSUME NEW d, NEW stages, InStage(d, stages) PROVE InStage(d, stages)'
    BY <1>2, <2>1 DEF InStage
  <2>2. InStage(e, {"active"})' /\ e \notin lost
    BY <1>3, <1>4, <2>1 DEF QueuesOK
  <2>3. \A d \in Range(commitq') : InStage(d, {"queued"})' /\ d # committing'
    BY <1>2, <1>3, <2>1 DEF QueuesOK
  <2>4. committing # None => InStage(committing, {"queued", "failing"})'
    BY <1>2, <1>3, <2>1 DEF QueuesOK
  <2>5. \A d \in Range(doneq') : InStage(d, {"active"})' /\ d # finishing' /\ d \notin lost'
    BY <1>2, <1>3, <1>4, <2>1 DEF QueuesOK
  <2>6. \A d \in DOMAIN entry :
          entry[d].stage = "active" => d \in Range(doneq') \cup {finishing'} \cup lost
    <3>1. \A d \in DOMAIN entry : d # None
      BY <1>3, NoneIsNoId DEF EntriesOK
    <3> QED
      BY <1>2, <1>3, <1>4, <3>1 DEF QueuesOK
  <2> QED
    BY <1>2, <1>3, <1>4, <2>2, <2>3, <2>4, <2>5, <2>6 DEF QueuesOK
<1>7. TargetsOK'
  <2>1. Range(doneq') \subseteq Range(doneq)
    BY <1>2, <1>4
  <2> QED
    BY <1>2, <1>3, <2>1 DEF TargetsOK, Cancelling
<1> QED
  BY <1>2, <1>5, <1>6, <1>7, InsideKeeps

\* e gets a slot, for the hardware or for a kickoff that fails.
Starts(e, stage) ==
    /\ e \in DOMAIN entry /\ entry[e].stage = "queued" /\ stage \in {"active", "failing"}
    /\ DOMAIN entry' = DOMAIN entry
    /\ entry'[e] \in RotEntry /\ entry'[e].stage = stage
    /\ \A d \in DOMAIN entry \ {e} : entry'[d] = entry[d]

LEMMA StartIs ==
  ASSUME RotInv, NEW e \in DOMAIN entry, entry[e].stage = "queued",
         NEW stage \in {"active", "failing"}, entry' = [entry EXCEPT ![e].stage = stage]
  PROVE  Starts(e, stage)
<1>1. entry[e] \in RotEntry /\ stage \in RotStages
  BY DEF RotInv, EntriesOK, RotStages
<1>2. /\ [entry[e] EXCEPT !.stage = stage] \in RotEntry
      /\ [entry[e] EXCEPT !.stage = stage].stage = stage
  BY <1>1, StageSet
<1>3. /\ DOMAIN entry' = DOMAIN entry /\ entry'[e] = [entry[e] EXCEPT !.stage = stage]
      /\ \A d \in DOMAIN entry \ {e} : entry'[d] = entry[d]
  OBVIOUS
<1> QED
  BY <1>2, <1>3 DEF Starts

LEMMA StartsCore ==
  ASSUME RotInv, NEW e, NEW stage, Starts(e, stage), e \notin lost, Available(e),
         slots' = [slots EXCEPT !.active = @ + 1], smmu' = smmu + 1, UNCHANGED <<made, lost>>
  PROVE  EntriesOK' /\ SlotsOK' /\ \A c \in Ctxs : InCore(c)' = InCore(c)
<1>1. EntriesOK /\ SlotsOK
  BY DEF RotInv
<1>2. EntriesOK'
  <2>1. \A d \in DOMAIN entry' : entry'[d] \in RotEntry
    BY <1>1 DEF EntriesOK, Starts
  <2> QED
    BY <1>1, <2>1 DEF EntriesOK, Starts
<1>3. \A c \in Ctxs : InCore(c)' = InCore(c)
  BY DEF Starts, InCore
<1>4. SlotsOK'
  <2>1. Unreleased' = Unreleased
    BY <1>3 DEF Unreleased
  <2>2. /\ Holding = {d \in DOMAIN entry : entry[d].stage \in {"active", "failing"}}
        /\ Holding' = {d \in DOMAIN entry' : entry'[d].stage \in {"active", "failing"}}
        /\ IsFiniteSet(Holding) /\ IsFiniteSet(Holding \cup lost)
    BY <1>1, <1>2, CoreSets, CoreSetsNext
  <2>3. Holding' = Holding \cup {e} /\ e \notin Holding
    BY <2>2 DEF Starts
  <2>4. Holding' \cup lost = (Holding \cup lost) \cup {e} /\ e \notin Holding \cup lost
    BY <2>3
  <2> DEFINE h == Cardinality(Holding)
             l == Cardinality(Holding \cup lost)
  <2>5. /\ h \in Nat /\ l \in Nat /\ Cardinality(Holding') = h + 1
        /\ Cardinality(Holding' \cup lost) = l + 1
    <3>1. h \in Nat /\ Cardinality(Holding \cup {e}) = h + 1
      BY <2>2, <2>3, FS_AddElement, FS_CardinalityType
    <3>2. l \in Nat /\ Cardinality((Holding \cup lost) \cup {e}) = l + 1
      BY <2>2, <2>4, FS_AddElement, FS_CardinalityType
    <3> HIDE DEF h, l
    <3> QED
      BY <2>3, <2>4, <3>1, <3>2
  <2>6. /\ slots \in [active : 0 .. MaxActive, pending : Nat] /\ h <= slots.active
        /\ slots.active <= l /\ smmu = l
    BY <1>1 DEF SlotsOK
  <2>7. slots.active + 1 \in 0 .. MaxActive
    <3>1. slots.active < MaxActive \/ slots.active = 0
      BY DEF Available
    <3> QED
      BY <2>6, <3>1, RotAssumption
  <2>8. /\ slots'.active = slots.active + 1 /\ slots'.pending = slots.pending
        /\ slots' \in [active : 0 .. MaxActive, pending : Nat]
    BY <2>6, <2>7
  <2> HIDE DEF h, l
  <2>9. h + 1 <= slots'.active /\ slots'.active <= l + 1 /\ smmu' = l + 1
    BY <2>5, <2>6, <2>8, RotAssumption
  <2>10. slots'.pending = Cardinality(Unreleased')
    BY <1>1, <2>1, <2>8 DEF SlotsOK
  <2> QED
    BY <2>5, <2>8, <2>9, <2>10 DEF SlotsOK
<1> QED
  BY <1>2, <1>3, <1>4

LEMMA KickoffKeeps ==
  ASSUME RotInv, Kickoff
  PROVE  RotInv'
<1>1. PICK e \in Committable :
        /\ entry[e].stage = "queued" /\ Available(e)
        /\ entry' = [entry EXCEPT ![e].stage = "active"] /\ doneq' = Append(doneq, e)
  BY DEF Kickoff
<1>2. /\ Uncommit /\ slots' = [slots EXCEPT !.active = @ + 1] /\ smmu' = smmu + 1
      /\ UNCHANGED <<ctx, busy, at, locked, target, session, made, finishing, lost>>
  BY DEF Kickoff, client, history
<1>3. /\ e \in DOMAIN entry /\ e \in Ids /\ e \notin lost /\ e \notin Range(doneq)
      /\ e # finishing /\ committing \in {e, None}
      /\ committing = None => commitq # <<>> /\ e = Head(commitq)
  BY CommittableIs
<1>4. /\ committing' = None /\ commitq' \in Seq(Ids) /\ IsInjective(commitq')
      /\ Range(commitq') \subseteq Range(commitq) \ {e}
  BY <1>2, UncommitIs
<1>5. EntriesOK /\ QueuesOK /\ TargetsOK
  BY DEF RotInv
<1>6. Starts(e, "active")
  BY <1>1, <1>3, StartIs
<1>7. EntriesOK' /\ SlotsOK' /\ \A c \in Ctxs : InCore(c)' = InCore(c)
  BY <1>1, <1>2, <1>3, <1>6, StartsCore
<1>8. /\ doneq' \in Seq(Ids) /\ IsInjective(doneq') /\ Range(doneq') = Range(doneq) \cup {e}
  BY <1>1, <1>3, <1>5, RangeAppend DEF QueuesOK
<1>9. QueuesOK'
  <2>1. ASSUME NEW d, NEW stages, InStage(d, stages), d # e PROVE InStage(d, stages)'
    BY <1>6, <2>1 DEF InStage, Starts
  <2>2. InStage(e, {"active"})'
    BY <1>6 DEF InStage, Starts
  <2>3. \A d \in Range(commitq') : InStage(d, {"queued"})' /\ d # committing'
    <3>1. ASSUME NEW d \in Range(commitq') PROVE InStage(d, {"queued"}) /\ d # e /\ d # None
      BY <1>4, <1>5, NoneIsNoId DEF QueuesOK, InStage, EntriesOK
    <3> QED
      BY <1>4, <2>1, <3>1
  <2>4. \A d \in Range(doneq') : InStage(d, {"active"})' /\ d # finishing' /\ d \notin lost'
    BY <1>2, <1>3, <1>5, <1>8, <2>1, <2>2 DEF QueuesOK
  <2>5. finishing # None => InStage(finishing, {"active"})'
    BY <1>2, <1>3, <1>5, <2>1 DEF QueuesOK
  <2>6. ASSUME NEW d \in DOMAIN entry'
        PROVE  /\ entry'[d].stage # "failing"
               /\ entry'[d].stage = "active" => d \in Range(doneq') \cup {finishing} \cup lost
               /\ d \in lost => entry'[d].stage = "active"
    <3>1. CASE d = e
      BY <1>3, <1>6, <1>8, <3>1 DEF Starts
    <3>2. CASE d # e
      <4>1. d \in DOMAIN entry /\ entry'[d] = entry[d]
        BY <1>6, <3>2 DEF Starts
      <4>2. d # None
        BY <1>5, <4>1, NoneIsNoId DEF EntriesOK
      <4>3. d # committing
        BY <1>3, <3>2, <4>2
      <4> QED
        BY <1>5, <1>8, <4>1, <4>3 DEF QueuesOK
    <3> QED
      BY <3>1, <3>2
  <2> QED
    BY <1>2, <1>4, <1>5, <1>8, <2>3, <2>4, <2>5, <2>6 DEF QueuesOK
<1>10. TargetsOK'
  <2>1. ASSUME NEW c \in Ctxs, target[c] # None
        PROVE  LET t == target[c].entry
               IN  /\ Cancelling(c)' /\ t[1] = c /\ t \in DOMAIN entry' /\ t \notin Range(commitq')
                   /\ target[c].work = "done" => t # committing' /\ t \notin Range(doneq')
    <3> DEFINE t == target[c].entry
    <3>1. /\ Cancelling(c) /\ t[1] = c /\ t \in DOMAIN entry /\ t \notin Range(commitq)
          /\ target[c].work = "done" => t # committing /\ t \notin Range(doneq)
      BY <1>5, <2>1 DEF TargetsOK
    <3>2. t # None /\ Cancelling(c)'
      BY <1>2, <1>5, <3>1, NoneIsNoId DEF EntriesOK, Cancelling
    <3>3. target[c].work = "done" => t # e
      <4>1. committing = None => e \in Range(commitq)
        BY <1>3, <1>5, RangeTail DEF QueuesOK
      <4> QED
        BY <1>3, <3>1, <4>1
    <3> QED
      BY <1>4, <1>6, <1>8, <3>1, <3>2, <3>3 DEF Starts
  <2> QED
    BY <1>2, <1>5, <2>1 DEF TargetsOK
<1>11. DOMAIN entry' \subseteq DOMAIN entry
  BY <1>6 DEF Starts
<1> QED
  BY <1>2, <1>7, <1>9, <1>10, <1>11, InsideKeeps

LEMMA KickoffFailsKeeps ==
  ASSUME RotInv, KickoffFails
  PROVE  RotInv'
<1>1. PICK e \in Committable :
        /\ entry[e].stage = "queued" /\ Available(e)
        /\ entry' = [entry EXCEPT ![e].stage = "failing"]
        /\ committing' = e /\ commitq' = IF committing = None THEN Tail(commitq) ELSE commitq
  BY DEF KickoffFails
<1>2. /\ slots' = [slots EXCEPT !.active = @ + 1] /\ smmu' = smmu + 1
      /\ UNCHANGED <<ctx, busy, at, locked, target, session, made, doneq, finishing, lost>>
  BY DEF KickoffFails, client, history
<1>3. /\ e \in DOMAIN entry /\ e \in Ids /\ e \notin lost /\ e \notin Range(doneq)
      /\ e # finishing /\ committing \in {e, None}
      /\ committing = None => commitq # <<>> /\ e = Head(commitq)
  BY CommittableIs
<1>4. EntriesOK /\ QueuesOK /\ TargetsOK
  BY DEF RotInv
<1>5. /\ commitq' \in Seq(Ids) /\ IsInjective(commitq')
      /\ Range(commitq') \subseteq Range(commitq) \ {e}
  <2>1. CASE committing = None
    BY <1>1, <1>3, <1>4, <2>1, RangeTail DEF QueuesOK
  <2>2. CASE committing # None
    BY <1>1, <1>3, <1>4, <2>2 DEF QueuesOK
  <2> QED
    BY <2>1, <2>2
<1>6. Starts(e, "failing")
  BY <1>1, <1>3, StartIs
<1>7. EntriesOK' /\ SlotsOK' /\ \A c \in Ctxs : InCore(c)' = InCore(c)
  BY <1>1, <1>2, <1>3, <1>6, StartsCore
<1>8. QueuesOK'
  <2>1. ASSUME NEW d, NEW stages, InStage(d, stages), d # e PROVE InStage(d, stages)'
    BY <1>6, <2>1 DEF InStage, Starts
  <2>2. InStage(e, {"queued", "failing"})'
    BY <1>6 DEF InStage, Starts
  <2>3. \A d \in Range(commitq') : InStage(d, {"queued"})' /\ d # committing'
    <3>1. ASSUME NEW d \in Range(commitq') PROVE InStage(d, {"queued"}) /\ d # e
      BY <1>4, <1>5 DEF QueuesOK
    <3> QED
      BY <1>1, <2>1, <3>1
  <2>4. \A d \in Range(doneq') : InStage(d, {"active"})' /\ d # finishing' /\ d \notin lost'
    BY <1>2, <1>3, <1>4, <2>1 DEF QueuesOK
  <2>5. finishing # None => InStage(finishing, {"active"})'
    BY <1>2, <1>3, <1>4, <2>1 DEF QueuesOK
  <2>6. ASSUME NEW d \in DOMAIN entry'
        PROVE  /\ entry'[d].stage = "failing" => d = e
               /\ entry'[d].stage = "active" => d \in Range(doneq) \cup {finishing} \cup lost
               /\ d \in lost => entry'[d].stage = "active"
    <3>1. CASE d = e
      BY <1>3, <1>6, <3>1 DEF Starts
    <3>2. CASE d # e
      <4>1. d \in DOMAIN entry /\ entry'[d] = entry[d]
        BY <1>6, <3>2 DEF Starts
      <4>2. d # None
        BY <1>4, <4>1, NoneIsNoId DEF EntriesOK
      <4>3. d # committing
        BY <1>3, <3>2, <4>2
      <4> QED
        BY <1>4, <4>1, <4>3 DEF QueuesOK
    <3> QED
      BY <3>1, <3>2
  <2> QED
    BY <1>1, <1>2, <1>4, <1>5, <2>2, <2>3, <2>4, <2>5, <2>6 DEF QueuesOK
<1>9. TargetsOK'
  <2>1. ASSUME NEW c \in Ctxs, target[c] # None
        PROVE  LET t == target[c].entry
               IN  /\ Cancelling(c)' /\ t[1] = c /\ t \in DOMAIN entry' /\ t \notin Range(commitq')
                   /\ target[c].work = "done" => t # committing' /\ t \notin Range(doneq')
    <3> DEFINE t == target[c].entry
    <3>1. /\ Cancelling(c) /\ t[1] = c /\ t \in DOMAIN entry /\ t \notin Range(commitq)
          /\ target[c].work = "done" => t # committing /\ t \notin Range(doneq)
      BY <1>4, <2>1 DEF TargetsOK
    <3>2. Cancelling(c)'
      BY <1>2, <3>1 DEF Cancelling
    <3>3. target[c].work = "done" => t # e
      <4>1. committing = None => e \in Range(commitq)
        BY <1>3, <1>4, RangeTail DEF QueuesOK
      <4> QED
        BY <1>3, <3>1, <4>1
    <3> QED
      BY <1>1, <1>2, <1>5, <1>6, <3>1, <3>2, <3>3 DEF Starts
  <2> QED
    BY <1>2, <1>4, <2>1 DEF TargetsOK
<1>10. DOMAIN entry' \subseteq DOMAIN entry
  BY <1>6 DEF Starts
<1> QED
  BY <1>2, <1>7, <1>8, <1>9, <1>10, InsideKeeps

-----------------------------------------------------------------------------
(* The rotator: the cancel loop.                                           *)

LEMMA NewestIs ==
  ASSUME NEW c, NEW e \in Newest(c)
  PROVE  e \in DOMAIN entry /\ e[1] = c
  BY DEF Newest

LEMMA CancelFreeKeeps ==
  ASSUME RotInv, NEW c \in Ctxs, CancelFree(c)
  PROVE  RotInv'
<1>1. PICK e \in Newest(c) : entry[e].stage = "done" /\ entry' = Without({e})
  BY DEF CancelFree
<1>2. /\ target[c] = None
      /\ UNCHANGED <<ctx, busy, at, locked, target, queues, slots, smmu, session, made, lost>>
  BY DEF CancelFree, client, history, resources
<1>3. e \in DOMAIN entry /\ e[1] = c
  BY NewestIs
<1>4. Drops /\ DOMAIN entry' = DOMAIN entry \ {e}
  BY <1>1 DEF Drops, Without
<1>5. ContextsOK' /\ \A d \in Ctxs : CaughtUp(d)
  <2>1. \A d \in Ctxs : ctx[d].next \in Nat
    BY ContextHere, ContextFields
  <2> QED
    BY <1>2, <2>1 DEF RotInv, ContextsOK, CaughtUp
<1>6. PlacesOK'
  BY <1>2, <1>4 DEF RotInv, PlacesOK
<1>7. SessionsOK'
  BY <1>2, <1>4, DropsSets DEF RotInv, SessionsOK
<1>8. \A d \in Ctxs : target[d] # None => Cancelling(d)' /\ target[d].entry \in DOMAIN entry'
  <2>1. \A d \in Ctxs : target[d] # None =>
          Cancelling(d) /\ target[d].entry \in DOMAIN entry /\ target[d].entry[1] = d
    BY DEF RotInv, TargetsOK
  <2> QED
    BY <1>2, <1>3, <1>4, <2>1 DEF Cancelling
<1> QED
  BY <1>2, <1>4, <1>5, <1>6, <1>7, <1>8, OutsideKeeps

LEMMA CancelCommitWorkKeeps ==
  ASSUME RotInv, NEW c \in Ctxs, CancelCommitWork(c)
  PROVE  RotInv'
<1>1. PICK e \in Newest(c) :
        /\ target' = [target EXCEPT ![c] = [entry |-> e, work |-> "commit"]]
        /\ commitq' = RemoveFirst(commitq, e)
  BY DEF CancelCommitWork
<1>2. /\ Cancelling(c)
      /\ UNCHANGED <<ctx, busy, at, locked, entry, committing, doneq, finishing, slots, smmu,
                     session, made, lost>>
  BY DEF CancelCommitWork, history, resources
<1>3. e \in DOMAIN entry /\ e[1] = c
  BY NewestIs
<1>4. EntriesOK /\ QueuesOK /\ SlotsOK /\ TargetsOK
  BY DEF RotInv
<1>5. /\ commitq' \in Seq(Ids) /\ IsInjective(commitq')
      /\ Range(commitq') \subseteq Range(commitq) \ {e}
  BY <1>1, <1>4, RangeRemove DEF QueuesOK
<1>6. EntriesOK' /\ SlotsOK' /\ \A d \in Ctxs : InCore(d)' = InCore(d)
  <2>1. Drops
    BY <1>2, CoreUntouched
  <2> QED
    BY <1>2, <1>4, <2>1, DropsSets DEF EntriesOK, SlotsOK
<1>7. QueuesOK'
  <2>1. ASSUME NEW d, NEW stages, InStage(d, stages) PROVE InStage(d, stages)'
    BY <1>2, <2>1 DEF InStage
  <2>2. \A d \in Range(commitq') : InStage(d, {"queued"})' /\ d # committing'
    BY <1>2, <1>4, <1>5, <2>1 DEF QueuesOK
  <2>3. committing # None => InStage(committing, {"queued", "failing"})'
    BY <1>2, <1>4, <2>1 DEF QueuesOK
  <2>4. \A d \in Range(doneq') : InStage(d, {"active"})' /\ d # finishing' /\ d \notin lost'
    BY <1>2, <1>4, <2>1 DEF QueuesOK
  <2>5. finishing # None => InStage(finishing, {"active"})'
    BY <1>2, <1>4, <2>1 DEF QueuesOK
  <2> QED
    BY <1>2, <1>4, <1>5, <2>2, <2>3, <2>4, <2>5 DEF QueuesOK
<1>8. TargetsOK'
  <2> DEFINE x == [entry |-> e, work |-> "commit"]
  <2>1. x \in [entry : Ids, work : {"commit", "done"}] /\ x.entry = e /\ x.work # "done"
    BY <1>3, <1>4 DEF EntriesOK
  <2> HIDE DEF x
  <2>2. /\ target' \in [Ctxs -> {None} \cup [entry : Ids, work : {"commit", "done"}]]
        /\ target'[c] = x /\ \A d \in Ctxs \ {c} : target'[d] = target[d]
    BY <1>1, <1>4, <2>1 DEF TargetsOK, x
  <2>3. ASSUME NEW d \in Ctxs, target'[d] # None
        PROVE  LET t == target'[d].entry
               IN  /\ Cancelling(d)' /\ t[1] = d /\ t \in DOMAIN entry' /\ t \notin Range(commitq')
                   /\ target'[d].work = "done" => t # committing' /\ t \notin Range(doneq')
    <3>1. CASE d = c
      BY <1>2, <1>3, <1>5, <2>1, <2>2, <3>1 DEF Cancelling
    <3>2. CASE d # c
      BY <1>2, <1>4, <1>5, <2>2, <2>3, <3>2 DEF Cancelling, TargetsOK
    <3> QED
      BY <3>1, <3>2
  <2> QED
    BY <2>2, <2>3 DEF TargetsOK
<1> QED
  BY <1>2, <1>6, <1>7, <1>8, InsideKeeps

\* The entry whose done_work is cancelled in the queue keeps its slot.
LEMMA CancelDoneWorkKeeps ==
  ASSUME RotInv, NEW c \in Ctxs, CancelDoneWork(c)
  PROVE  RotInv'
<1>1. PICK e : e = target[c].entry
  OBVIOUS
<1>2. /\ target[c] # None /\ target[c].work = "commit" /\ committing # e
      /\ doneq' = RemoveFirst(doneq, e)
      /\ lost' = IF e \in Range(doneq) THEN lost \cup {e} ELSE lost
      /\ target' = [target EXCEPT ![c].work = "done"]
      /\ UNCHANGED <<ctx, busy, at, locked, entry, commitq, committing, finishing, slots, smmu,
                     session, made>>
  BY <1>1 DEF CancelDoneWork, resources
<1>3. EntriesOK /\ QueuesOK /\ SlotsOK /\ TargetsOK
  BY DEF RotInv
<1>4. Cancelling(c) /\ e[1] = c /\ e \in DOMAIN entry /\ e \notin Range(commitq) /\ e \in Ids
  BY <1>1, <1>2, <1>3 DEF TargetsOK, EntriesOK
<1>5. /\ doneq' \in Seq(Ids) /\ IsInjective(doneq') /\ e \notin Range(doneq')
      /\ Range(doneq') \subseteq Range(doneq) /\ Range(doneq) \subseteq Range(doneq') \cup {e}
  BY <1>2, <1>3, RangeRemove DEF QueuesOK
<1>6. e \in Range(doneq) => entry[e].stage = "active" /\ e # finishing
  BY <1>3 DEF QueuesOK, InStage
<1>7. \A d \in Ctxs : InCore(d)' = InCore(d)
  BY <1>2 DEF InCore
<1>8. EntriesOK'
  <2>1. IsFiniteSet(lost')
    BY <1>2, <1>3, FS_AddElement DEF EntriesOK
  <2>2. e[2] <= made[e[1]]
    BY <1>3, <1>4 DEF EntriesOK
  <2> QED
    BY <1>2, <1>3, <1>4, <2>1, <2>2 DEF EntriesOK
<1>9. SlotsOK'
  <2>1. Unreleased' = Unreleased /\ Holding' = Holding
    BY <1>2, CoreUntouched, DropsSets
  <2>2. e \in Range(doneq) => e \in Holding
    BY <1>3, <1>4, <1>6, CoreSets
  <2>3. Holding \cup lost' = Holding \cup lost
    BY <1>2, <2>2
  <2> QED
    BY <1>2, <1>3, <2>1, <2>3 DEF SlotsOK
<1>10. QueuesOK'
  <2>1. ASSUME NEW d, NEW stages, InStage(d, stages) PROVE InStage(d, stages)'
    BY <1>2, <2>1 DEF InStage
  <2>2. \A d \in Range(commitq') : InStage(d, {"queued"})' /\ d # committing'
    BY <1>2, <1>3, <2>1 DEF QueuesOK
  <2>3. committing # None => InStage(committing, {"queued", "failing"})'
    BY <1>2, <1>3, <2>1 DEF QueuesOK
  <2>4. \A d \in Range(doneq') : InStage(d, {"active"})' /\ d # finishing' /\ d \notin lost'
    BY <1>2, <1>3, <1>5, <2>1 DEF QueuesOK
  <2>5. finishing # None => InStage(finishing, {"active"})' /\ finishing \notin lost'
    BY <1>2, <1>3, <1>6, <2>1 DEF QueuesOK
  <2>6. \A d \in DOMAIN entry :
          /\ entry[d].stage = "active" => d \in Range(doneq') \cup {finishing} \cup lost'
          /\ d \in lost' => entry[d].stage = "active"
    BY <1>2, <1>3, <1>5, <1>6 DEF QueuesOK
  <2> QED
    BY <1>2, <1>3, <1>5, <2>2, <2>3, <2>4, <2>5, <2>6 DEF QueuesOK
<1>11. TargetsOK'
  <2> DEFINE x == [target[c] EXCEPT !.work = "done"]
  <2>1. target[c] \in [entry : Ids, work : {"commit", "done"}]
    BY <1>2, <1>3 DEF TargetsOK
  <2>2. x \in [entry : Ids, work : {"commit", "done"}] /\ x.entry = e
    BY <1>1, <2>1
  <2>3. target' = [target EXCEPT ![c] = x]
    BY <1>2
  <2> HIDE DEF x
  <2>4. /\ target' \in [Ctxs -> {None} \cup [entry : Ids, work : {"commit", "done"}]]
        /\ target'[c] = x /\ \A d \in Ctxs \ {c} : target'[d] = target[d]
    BY <1>3, <2>2, <2>3 DEF TargetsOK
  <2>5. ASSUME NEW d \in Ctxs, target'[d] # None
        PROVE  LET t == target'[d].entry
               IN  /\ Cancelling(d)' /\ t[1] = d /\ t \in DOMAIN entry' /\ t \notin Range(commitq')
                   /\ target'[d].work = "done" => t # committing' /\ t \notin Range(doneq')
    <3>1. CASE d = c
      BY <1>2, <1>4, <1>5, <2>2, <2>4, <3>1 DEF Cancelling
    <3>2. CASE d # c
      BY <1>2, <1>3, <1>5, <2>4, <2>5, <3>2 DEF Cancelling, TargetsOK
    <3> QED
      BY <3>1, <3>2
  <2> QED
    BY <2>4, <2>5 DEF TargetsOK
<1> QED
  BY <1>2, <1>7, <1>8, <1>9, <1>10, <1>11, InsideKeeps

\* The end of the cancel loop's turn releases what no handler released.
LEMMA CancelEndKeeps ==
  ASSUME RotInv, NEW c \in Ctxs, CancelEnd(c)
  PROVE  RotInv'
<1>1. PICK e : e = target[c].entry
  OBVIOUS
<1>2. /\ target[c] # None /\ target[c].work = "done" /\ finishing # e
      /\ entry' = Without({e}) /\ target' = [target EXCEPT ![c] = None]
      /\ UNCHANGED <<busy, at, locked, commitq, committing, doneq, finishing, smmu, made, lost>>
  BY <1>1 DEF CancelEnd, queues, history
<1>3. /\ ContextsOK /\ EntriesOK /\ QueuesOK /\ SlotsOK
      /\ TargetsOK /\ PlacesOK /\ SessionsOK /\ CountsOK
  BY DEF RotInv
<1>4. /\ e[1] = c /\ e \in DOMAIN entry /\ e \notin Range(commitq)
      /\ e # committing /\ e \notin Range(doneq)
  BY <1>1, <1>2, <1>3 DEF TargetsOK
<1>5. /\ DOMAIN entry' = DOMAIN entry \ {e}
      /\ \A d \in DOMAIN entry' : entry'[d] = entry[d]
  BY <1>2 DEF Without
<1>6. QueuesLeave(e)
  BY <1>2, <1>3, <1>4 DEF QueuesLeave, QueuesOK
<1>7. TargetsOK'
  <2>1. /\ target' \in [Ctxs -> {None} \cup [entry : Ids, work : {"commit", "done"}]]
        /\ target'[c] = None /\ \A d \in Ctxs \ {c} : target'[d] = target[d]
    BY <1>2, <1>3 DEF TargetsOK
  <2>2. \A d \in Ctxs : target'[d] # None =>
          target'[d] = target[d] /\ target[d].entry \in DOMAIN entry'
    BY <1>3, <1>4, <1>5, <2>1 DEF TargetsOK
  <2> QED
    BY <1>2, <1>3, <1>6, <2>1, <2>2, LeavesTargets
<1>8. CASE entry[e].stage = "done"
  <2>1. UNCHANGED <<ctx, slots, session>>
    BY <1>1, <1>8 DEF CancelEnd
  <2>2. Drops
    BY <1>5, <1>8 DEF Drops
  <2>3. EntriesOK' /\ QueuesOK' /\ SlotsOK'
    BY <1>2, <1>3, <2>1, <2>2, DropsCore DEF queues
  <2> QED
    BY <1>2, <1>5, <1>7, <2>1, <2>2, <2>3, DropsSets, InsideKeeps
<1>9. CASE entry[e].stage # "done"
  <2> DEFINE x == SignalOutput(ctx[c])
  <2>1. /\ Released(e) /\ slots' = Unassign(slots) /\ ctx' = [ctx EXCEPT ![c] = x]
    BY <1>1, <1>9 DEF CancelEnd
  <2>2. /\ ContextOf(c, x) /\ x.next = ctx[c].next /\ x.curr = ctx[c].curr + 1
        /\ x.on = ctx[c].on /\ x.work = ctx[c].work
    BY ContextHere, SignalIs
  <2> HIDE DEF x
  <2>3. ContextBecomes(c, x)
    BY <2>1, ContextHere
  <2>4. Leaves(e) /\ e \notin DOMAIN entry'
    BY <1>4, <1>5, <1>9 DEF Leaves
  <2>5. ContextsOK'
    BY <1>3, <2>2, <2>3 DEF ContextsOK, ContextBecomes
  <2>6. EntriesOK'
    BY <1>2, <1>3, <2>4, LeavesEntries
  <2>7. QueuesOK'
    BY <1>2, <1>3, <1>6, <2>4, LeavesQueues
  <2>8. SlotsOK'
    <3>1. e \in Holding => e \in lost
      <4>1. e \in Holding => entry[e].stage \in {"active", "failing"}
        BY <1>3, CoreSets
      <4> QED
        BY <1>2, <1>3, <1>4, <4>1 DEF QueuesOK
    <3>2. (Holding \ {e}) \cup lost = Holding \cup lost
      BY <3>1
    <3>3. Cardinality(Holding \ {e}) <= slots.active
      <4>1. IsFiniteSet(Holding) /\ Holding \ {e} \subseteq Holding
        BY <1>3, CoreSets
      <4>2. /\ Cardinality(Holding \ {e}) \in Nat /\ Cardinality(Holding) \in Nat
            /\ Cardinality(Holding \ {e}) <= Cardinality(Holding)
        BY <4>1, FS_Subset, FS_CardinalityType
      <4>3. slots.active \in 0 .. MaxActive /\ Cardinality(Holding) <= slots.active
        BY <1>3 DEF SlotsOK
      <4> QED
        BY <4>2, <4>3, RotAssumption
    <3>4. /\ slots \in [active : 0 .. MaxActive, pending : Nat]
          /\ slots.active <= Cardinality(Holding \cup lost)
          /\ smmu = Cardinality(Holding \cup lost)
      BY <1>3 DEF SlotsOK
    <3> QED
      BY <1>2, <1>3, <2>1, <2>4, <2>6, <3>2, <3>3, <3>4, LeavesSlots
  <2>9. PlacesOK'
    BY <1>2, <1>3, <1>5, <2>2, <2>3 DEF PlacesOK, ContextBecomes
  <2>10. SessionsOK'
    BY <1>2, <1>3, <2>1, <2>4, <2>6, LeavesSessions
  <2>11. CountsOK'
    <3>1. \A d \in Ctxs :
            /\ ctx'[d].next = ctx[d].next
            /\ ctx'[d].curr = ctx[d].curr + IF d = c THEN 1 ELSE 0
      <4>1. \A d \in Ctxs : ctx[d].curr \in Nat
        BY <1>3, ContextFields DEF ContextsOK
      <4> QED
        BY <2>2, <2>3, <4>1 DEF ContextBecomes
    <3> QED
      BY <1>2, <1>3, <1>4, <2>4, <2>6, <3>1, LeavesCounts
  <2> QED
    BY <1>7, <2>5, <2>6, <2>7, <2>8, <2>9, <2>10, <2>11 DEF RotInv
<1> QED
  BY <1>8, <1>9

-----------------------------------------------------------------------------
(* The rotator: the theorems.                                              *)

LEMMA RotInitInv ==
  RotInit => RotInv
<1> SUFFICES ASSUME RotInit PROVE RotInv
  OBVIOUS
<1>1. ASSUME NEW c PROVE ContextOf(c, NewContext)
  <2>1. /\ Requests \in Seq(Request) /\ <<>> \in Seq(Request) /\ <<>> \in Seq(Nat)
        /\ <<>> \in Seq(WorkItems) /\ <<>> \in Seq(Statuses)
        /\ [r \in Request |-> None] \in [Request -> {None} \cup ({c} \X Nat)]
    BY RequestsExist
  <2>2. NewContext \in RotContext(c)
    BY <2>1 DEF NewContext, RotContext
  <2>3. NewContext.pending = <<>> /\ NewContext.retired = Requests
    BY DEF NewContext
  <2>4. Range(<<>>) = {}
    BY <2>1, RangeSeq
  <2> QED
    BY <2>2, <2>3, <2>4 DEF ContextOf, Request
<1>2. NewContext.curr = 0 /\ NewContext.next = 0
  BY DEF NewContext
<1>3. DOMAIN entry = {} /\ lost = {} /\ commitq = <<>> /\ doneq = <<>>
  BY DEF RotInit
<1>4. \A c \in Ctxs : InCore(c) = {}
  BY <1>3 DEF InCore
<1>5. Unreleased = {} /\ Holding = {} /\ Holding \cup lost = {}
  BY <1>3, <1>4 DEF Unreleased, Holding
<1>6. Cardinality({}) = 0 /\ IsFiniteSet({})
  BY FS_EmptySet
<1>7. <<>> \in Seq(Ids) /\ Range(<<>>) = {} /\ IsInjective(<<>>)
  <2>1. <<>> \in Seq(Ids) /\ DOMAIN <<>> = {}
    OBVIOUS
  <2> QED
    BY <2>1, RangeSeq DEF IsInjective
<1>8. ContextsOK
  BY <1>1 DEF RotInit, ContextsOK
<1>9. EntriesOK
  BY <1>3, <1>6 DEF RotInit, EntriesOK
<1>10. QueuesOK
  BY <1>3, <1>7 DEF RotInit, QueuesOK
<1>11. SlotsOK
  BY <1>3, <1>5, <1>6, RotAssumption DEF RotInit, SlotsOK
<1>12. TargetsOK
  BY DEF RotInit, TargetsOK
<1>13. PlacesOK
  BY DEF RotInit, PlacesOK, RotPlaces
<1>14. SessionsOK
  BY DEF RotInit, SessionsOK
<1>15. CountsOK
  <2>1. ASSUME NEW c \in Ctxs
        PROVE  ctx[c].next = 0 /\ ctx[c].curr = 0 /\ made[c] = 0 /\ Cardinality(InCore(c)) = 0
    BY <1>2, <1>4, <1>6 DEF RotInit
  <2> QED
    BY <2>1 DEF CountsOK
<1> QED
  BY <1>8, <1>9, <1>10, <1>11, <1>12, <1>13, <1>14, <1>15 DEF RotInv

LEMMA RotNextInv ==
  RotInv /\ [RotNext]_rotvars => RotInv'
<1> SUFFICES ASSUME RotInv, [RotNext]_rotvars PROVE RotInv'
  OBVIOUS
<1>1. ASSUME NEW c \in Ctxs, QBuf(c) \/ StreamOn(c) \/ StreamOff(c) \/ Close(c) PROVE RotInv'
  BY <1>1, QBufKeeps, StreamOnKeeps, StreamOffKeeps, CloseKeeps
<1>2. ASSUME NEW c \in Ctxs, ClientStep(c) PROVE RotInv'
  <2>1. CASE Stopped(c) \/ StopTimeout(c) \/ StopCancelled(c) \/ StopCancelSubmit(c)
    BY <2>1, StoppedKeeps, StopTimeoutKeeps, StopCancelledKeeps, StopCancelWorkKeeps
  <2>2. CASE StopCancelRetire(c) \/ StopEnd(c) \/ CloseCancelled(c) \/ Closed(c)
    BY <2>2, StopCancelWorkKeeps, StopEndKeeps, CloseCancelledKeeps, ClosedKeeps
  <2>3. CASE CancelFree(c) \/ CancelCommitWork(c) \/ CancelDoneWork(c) \/ CancelEnd(c)
    BY <2>3, CancelFreeKeeps, CancelCommitWorkKeeps, CancelDoneWorkKeeps, CancelEndKeeps
  <2> QED
    BY <1>2, <2>1, <2>2, <2>3 DEF ClientStep
<1>3. ASSUME NEW c \in Ctxs, WorkerStep(c) PROVE RotInv'
  BY <1>3, WorkAbortedKeeps, RetireHandlerKeeps, FenceWaitKeeps, SubmitHandlerKeeps,
     SubmitFailsKeeps DEF WorkerStep
<1>4. CASE CommitStep
  BY <1>4, CommitWaitKeeps, KickoffKeeps, CommitFailsKeeps, NoSlotKeeps, KickoffFailsKeeps,
     KickoffCancelledKeeps DEF CommitStep
<1>5. CASE HwDone \/ DoneStep
  BY <1>5, HwDoneKeeps, DoneWaitKeeps, DoneHandlerKeeps DEF DoneStep
<1>6. CASE UNCHANGED rotvars
  <2>1. /\ UNCHANGED <<ctx, busy, at, target, locked, entry, commitq, committing, doneq,
                       finishing, slots, smmu, session, made, lost>>
    BY <1>6 DEF rotvars, client, queues, resources, history
  <2>2. Drops
    BY <2>1, CoreUntouched
  <2>3. EntriesOK' /\ QueuesOK' /\ SlotsOK'
    BY <2>1, <2>2, DropsCore DEF queues, RotInv
  <2>4. TargetsOK'
    BY <2>1 DEF RotInv, TargetsOK, Cancelling
  <2> QED
    BY <2>1, <2>2, <2>3, <2>4, DropsSets, InsideKeeps
<1> QED
  BY <1>1, <1>2, <1>3, <1>4, <1>5, <1>6 DEF RotNext

LEMMA RotSafe ==
  RotSpec => []RotInv
<1> QED
  BY RotInitInv, RotNextInv, PTL DEF RotSpec

\* The types: every request of a context is on one of its lists, however
\* stopping, cancelling and the workers meet, the works that are queued are
\* for entries that exist, and the fence of a context is never signalled
\* more often than it has frames and entries.
THEOREM RotTypes ==
  RotSpec => []RotTypeOK
<1>1. RotInv => RotTypeOK
  <2> SUFFICES ASSUME RotInv PROVE RotTypeOK
    OBVIOUS
  <2>1. ASSUME NEW c \in Ctxs
        PROVE  /\ Range(ctx[c].pending) \cup Range(ctx[c].retired) = Request
               /\ ctx[c].curr \in 0 .. ctx[c].next + made[c]
               /\ \A n \in DOMAIN ctx[c].status : ctx[c].status[n] \in {"queued", "done", "error"}
               /\ session[c] \in {"open", "closing", "closed"}
    <3>1. ContextOf(c, ctx[c]) /\ EntriesOK /\ CountsOK /\ SessionsOK
      BY DEF RotInv, ContextsOK
    <3>2. /\ Range(ctx[c].pending) \cup Range(ctx[c].retired) = Request
          /\ ctx[c].curr \in Nat /\ ctx[c].next \in Nat /\ ctx[c].status \in Seq(Statuses)
      BY <3>1, ContextFields
    <3>3. ctx[c].curr \in 0 .. ctx[c].next + made[c]
      <4>1. Cardinality(InCore(c)) \in Nat /\ made[c] \in Nat
        BY <3>1, CoreSets, FS_CardinalityType DEF EntriesOK
      <4> QED
        BY <3>1, <3>2, <4>1 DEF CountsOK
    <3>4. \A n \in DOMAIN ctx[c].status : ctx[c].status[n] \in Statuses
      BY <3>2
    <3> QED
      BY <3>1, <3>2, <3>3, <3>4 DEF Statuses, SessionsOK
  <2>2. Range(doneq) \cup Range(commitq) \subseteq DOMAIN entry
    BY DEF RotInv, QueuesOK, InStage
  <2>3. \A e \in DOMAIN entry : entry[e].stage \in {"queued", "active", "failing", "done"}
    BY DEF RotInv, EntriesOK, RotEntry, RotStages
  <2>4. locked \in Ctxs \cup {None}
    BY DEF RotInv, PlacesOK
  <2> QED
    BY <2>1, <2>2, <2>3, <2>4 DEF RotTypeOK
<1> QED
  BY <1>1, RotSafe, PTL

\* Whatever is cancelled while the workers are at it, each entry gives its
\* slot, its share of the hardware resource and its smmu vote back once, and
\* a context that is closed has nothing left in the core.
THEOREM RotSlotsBalanced ==
  RotSpec => []SlotsBalanced
<1>1. RotInv => SlotsBalanced
  <2> SUFFICES ASSUME RotInv PROVE SlotsBalanced
    OBVIOUS
  <2>1. EntriesOK /\ SlotsOK
    BY DEF RotInv
  <2> DEFINE h == Cardinality(Holding)
             l == Cardinality(lost)
             b == Cardinality(Holding \cup lost)
  <2>2. h \in Nat /\ l \in Nat /\ b \in Nat /\ b <= h + l
    <3>1. IsFiniteSet(Holding) /\ IsFiniteSet(lost)
      BY <2>1, CoreSets DEF EntriesOK
    <3>2. IsFiniteSet(Holding \cup lost) /\ b = h + l - Cardinality(Holding \cap lost)
      BY <3>1, FS_Union
    <3>3. h \in Nat /\ l \in Nat /\ b \in Nat /\ Cardinality(Holding \cap lost) \in Nat
      BY <2>1, <3>1, <3>2, CoreSets, FS_CardinalityType
    <3> HIDE DEF h, l, b
    <3> QED
      BY <3>2, <3>3
  <2>3. /\ slots.pending = Cardinality(Unreleased) /\ smmu = b
        /\ slots.active \in 0 .. MaxActive /\ h <= slots.active /\ slots.active <= b
    BY <2>1 DEF SlotsOK
  <2> HIDE DEF h, l, b
  <2>4. slots.active <= MaxActive /\ slots.active \in h .. h + l
    BY <2>2, <2>3, RotAssumption
  <2>5. \A c \in Ctxs : at[c] \in {"flush", "closed"} => session[c] = "closed" /\ InCore(c) = {}
    BY DEF RotInv, PlacesOK, SessionsOK, InCore
  <2> QED
    BY <2>3, <2>4, <2>5 DEF SlotsBalanced, h, l, b
<1> QED
  BY <1>1, RotSafe, PTL

-----------------------------------------------------------------------------
(* The rotator: which frame a context is at.                               *)

\* Clients queue no frame into a running stream, and no submission can
\* outlive the stop that gives its frame back.
Orderly == ~May("overlap") /\ ~({"fence", "off", "timeout"} \subseteq scenario.faults)

\* Nothing fails, and no slot is lost.
Clean == ~May("hw") /\ ~May("bad") /\ lost = {}

\* How many frames were given back: they are the first ones.
Returned(x) == x.next - Len(x.ready)

\* The queue holds the other frames in their order.
InOrder(x) ==
    /\ Len(x.status) = x.next /\ Len(x.ready) <= x.next
    /\ \A i \in 1 .. Len(x.ready) : x.ready[i] = Returned(x) + i
    /\ \A n \in 1 .. x.next : (x.status[n] = "queued") <=> (n > Returned(x))

OnFrame(x, r, n) == x.pending = <<r>> /\ n = Head(x.ready)

\* The core is through with the frame at the head, whose entry is e.
Through(c, e) ==
    /\ e \in DOMAIN entry /\ entry[e].stage = "done" /\ entry[e].frame = Head(ctx[c].ready)
    /\ ctx[c].curr > Returned(ctx[c])

\* A context has one request at work, for the frame at the head of its
\* queue, and the request is in one place: a work, the wait for the fence or
\* the core; or it was cancelled.
JobOK(c) ==
    /\ InOrder(ctx[c]) /\ ctx[c].curr >= Returned(ctx[c])
    /\ \/ ctx[c].pending = <<>>
       \/ /\ ctx[c].on /\ ctx[c].ready # <<>>
          /\ \E r \in Request : ctx[c].pending = <<r>>
    /\ \A e \in InCore(c) :
        /\ OnFrame(ctx[c], entry[e].req, entry[e].frame) /\ ctx[c].req[entry[e].req] = e
        /\ ctx[c].work = <<>> /\ busy[c] = None
    /\ busy[c] # None =>
        /\ OnFrame(ctx[c], busy[c].req, busy[c].frame)
        /\ ctx[c].work = <<>> /\ May("fence")
    /\ \/ ctx[c].work = <<>>
       \/ \E r \in Request :
            /\ ctx[c].pending = <<r>>
            /\ \/ ctx[c].work = <<<<"submit", r>>>>
               \/ /\ ctx[c].work = <<<<"retire", r>>>>
                  /\ ctx[c].abort \/ Through(c, ctx[c].req[r])

\* What a client that stops a stream has achieved.
StopOK(c) ==
    /\ at[c] \in {"stopping", "stop_cancel", "stop_submit", "stop_retire", "stop_end"} =>
        ctx[c].on /\ ctx[c].abort /\ May("off")
    /\ at[c] \in {"stop_cancel", "stop_submit", "stop_retire", "stop_end"} => May("timeout")
    /\ at[c] \in {"stop_submit", "stop_retire", "stop_end"} => InCore(c) = {}
    /\ at[c] = "stop_retire" => \A r \in Request : ctx[c].work # <<<<"submit", r>>>>
    /\ at[c] = "stop_end" => ctx[c].work = <<>>

\* The timeline is one ahead of the frames given back while the frame at
\* the head is through and not given back yet.
Retiring(x) == \E r \in Request : x.work = <<<<"retire", r>>>>

TimelineOK(c) ==
    Clean =>
        \/ ctx[c].curr <= Returned(ctx[c])
        \/ /\ ctx[c].curr = Returned(ctx[c]) + 1 /\ InCore(c) = {} /\ busy[c] = None
           /\ ctx[c].on /\ ctx[c].ready # <<>> /\ (ctx[c].abort \/ Retiring(ctx[c]))

DoneOK(c) ==
    \A n \in 1 .. ctx[c].next : ctx[c].status[n] = "done" => <<c, n>> \in rotated

\* The hardware has an active entry or is through with its frame.
Rotates(e) ==
    /\ entry[e].stage = "active" => e \in Range(hw) \/ <<e[1], entry[e].frame>> \in rotated
    /\ entry[e].stage = "done" /\ ~entry[e].failed => <<e[1], entry[e].frame>> \in rotated

HardwareOK ==
    /\ hw \in Seq(Ids)
    /\ \A e \in DOMAIN entry : Rotates(e)
    /\ Clean => \A e \in DOMAIN entry : ~entry[e].failed /\ entry[e].stage # "failing"

FramesOK(c) == JobOK(c) /\ StopOK(c) /\ TimelineOK(c) /\ DoneOK(c)

FramesInv == HardwareOK /\ \A c \in Ctxs : FramesOK(c)

\* What is true of the frames makes buffers and fences honest.
LEMMA FramesAreHonest ==
  ASSUME RotInv, FramesInv
  PROVE  FramesHonest
<1>1. ASSUME NEW c \in Ctxs
      PROVE  /\ ctx[c].next \in Nat /\ ctx[c].curr \in Nat /\ ctx[c].ready \in Seq(Nat)
             /\ ctx[c].status \in Seq(Statuses) /\ DOMAIN ctx[c].status = 1 .. ctx[c].next
             /\ Len(ctx[c].ready) \in 0 .. ctx[c].next
             /\ InOrder(ctx[c]) /\ JobOK(c) /\ TimelineOK(c) /\ DoneOK(c)
  <2>1. ContextOf(c, ctx[c]) /\ FramesOK(c)
    BY DEF RotInv, ContextsOK, FramesInv
  <2>2. /\ ctx[c].next \in Nat /\ ctx[c].curr \in Nat /\ ctx[c].ready \in Seq(Nat)
        /\ ctx[c].status \in Seq(Statuses)
    BY <2>1, ContextFields
  <2>3. InOrder(ctx[c])
    BY <2>1 DEF FramesOK, JobOK
  <2>4. Len(ctx[c].status) = ctx[c].next /\ Len(ctx[c].ready) <= ctx[c].next
    BY <2>3 DEF InOrder
  <2> QED
    BY <2>1, <2>2, <2>3, <2>4 DEF FramesOK
<1>2. ASSUME NEW c \in Ctxs, ctx[c].ready # <<>>
      PROVE  Head(ctx[c].ready) = Returned(ctx[c]) + 1 /\ Returned(ctx[c]) + 1 \in 1 .. ctx[c].next
  <2>1. Len(ctx[c].ready) >= 1 /\ Head(ctx[c].ready) = ctx[c].ready[1]
    BY <1>1, <1>2
  <2> QED
    BY <1>1, <2>1 DEF InOrder, Returned
<1>3. ASSUME NEW c \in Ctxs, NEW e \in InCore(c)
      PROVE  ctx[c].ready # <<>> /\ entry[e].frame = Head(ctx[c].ready)
  <2>1. /\ OnFrame(ctx[c], entry[e].req, entry[e].frame)
        /\ ctx[c].pending = <<>> \/ ctx[c].ready # <<>>
    BY <1>1, <1>3 DEF JobOK
  <2> QED
    BY <2>1 DEF OnFrame
<1>4. ASSUME NEW c \in Ctxs, Clean, NEW n \in 1 .. ctx[c].next, n <= ctx[c].curr
      PROVE  /\ \A e \in InCore(c) : entry[e].frame # n
             /\ <<c, n>> \in rotated \/ ctx[c].status[n] = "error" \/ ctx[c].abort
  <2>1. CASE n <= Returned(ctx[c])
    <3>1. ctx[c].status[n] # "queued" /\ ctx[c].status[n] \in Statuses
      BY <1>1, <2>1 DEF InOrder, Returned
    <3>2. <<c, n>> \in rotated \/ ctx[c].status[n] = "error"
      BY <1>1, <3>1 DEF DoneOK, Statuses
    <3>3. \A e \in InCore(c) : entry[e].frame # n
      BY <1>1, <1>2, <1>3, <2>1 DEF Returned
    <3> QED
      BY <3>2, <3>3
  <2>2. CASE ~(n <= Returned(ctx[c]))
    <3>1. /\ ctx[c].curr = Returned(ctx[c]) + 1 /\ InCore(c) = {} /\ ctx[c].ready # <<>>
          /\ ctx[c].abort \/ Retiring(ctx[c])
      BY <1>1, <1>4, <2>2 DEF TimelineOK, Returned
    <3>2. n = Returned(ctx[c]) + 1
      BY <1>1, <1>4, <2>2, <3>1 DEF Returned
    <3>3. CASE Retiring(ctx[c]) /\ ~ctx[c].abort
      <4>1. PICK r \in Request : ctx[c].work = <<<<"retire", r>>>>
        BY <3>3 DEF Retiring
      <4>2. ctx[c].work # <<>> /\ ctx[c].work[1][1] = "retire"
        BY <4>1
      <4>3. PICK s \in Request :
                \/ ctx[c].work = <<<<"submit", s>>>>
                \/ /\ ctx[c].work = <<<<"retire", s>>>>
                   /\ ctx[c].abort \/ Through(c, ctx[c].req[s])
        BY <1>1, <4>2 DEF JobOK
      <4>4. PICK e : e = ctx[c].req[s]
        OBVIOUS
      <4>5. Through(c, e)
        BY <3>3, <4>2, <4>3, <4>4
      <4>6. e \in DOMAIN entry /\ entry[e].stage = "done" /\ entry[e].frame = n
        BY <1>2, <3>1, <3>2, <4>5 DEF Through
      <4>7. <<e[1], entry[e].frame>> \in rotated
        BY <1>4, <4>6 DEF FramesInv, HardwareOK, Rotates
      <4>8. e[1] = c
        <5>1. ctx[c].req \in [Request -> {None} \cup ({c} \X Nat)] /\ DOMAIN entry \subseteq Ids
          BY ContextFields DEF RotInv, ContextsOK, EntriesOK
        <5>2. e # None
          BY <4>6, <5>1, NoneIsNoId
        <5> QED
          BY <4>4, <5>1, <5>2
      <4> QED
        BY <3>1, <4>6, <4>7, <4>8
    <3> QED
      BY <3>1, <3>3
  <2> QED
    BY <2>1, <2>2
<1>5. FencesHonest
  <2>1. ASSUME NEW c \in Ctxs, ctx[c].ready = <<>> PROVE ctx[c].curr >= ctx[c].next
    BY <1>1, <2>1 DEF JobOK, Returned
  <2> QED
    BY <1>4, <2>1 DEF FencesHonest, Clean
<1>6. BuffersHonest
  <2>1. ASSUME NEW c \in Ctxs, NEW e \in InCore(c) PROVE ctx[c].status[entry[e].frame] = "queued"
    <3>1. /\ entry[e].frame = Returned(ctx[c]) + 1 /\ entry[e].frame \in 1 .. ctx[c].next
          /\ Returned(ctx[c]) \in Nat
      BY <1>1, <1>2, <1>3 DEF Returned
    <3> QED
      BY <1>1, <3>1 DEF InOrder
  <2> QED
    BY <1>1, <2>1 DEF BuffersHonest, DoneOK
<1> QED
  BY <1>5, <1>6 DEF FramesHonest

-----------------------------------------------------------------------------
(* The rotator: what the operations do to the frames of a context.         *)

LEMMA SingleList ==
  ASSUME NEW S, NEW w \in S
  PROVE  /\ <<w>> \in Seq(S) /\ <<w>> # <<>> /\ Head(<<w>>) = w /\ Tail(<<w>>) = <<>>
         /\ Len(<<w>>) = 1 /\ Append(<<>>, w) = <<w>> /\ Range(<<w>>) = {w}
         /\ RemoveFirst(<<w>>, w) = <<>>
         /\ \A v : v # w => RemoveFirst(<<w>>, v) = <<w>>
<1>1. /\ <<w>> \in Seq(S) /\ <<w>> # <<>> /\ Head(<<w>>) = w /\ Tail(<<w>>) = <<>>
      /\ Len(<<w>>) = 1 /\ <<w>>[1] = w
  OBVIOUS
<1>2. Append(<<>>, w) = <<w>>
  OBVIOUS
<1>3. Range(<<w>>) = {w}
  <2>1. Range(<<w>>) = {Head(<<w>>)} \cup Range(Tail(<<w>>))
    BY <1>1, RangeTail
  <2>2. <<>> \in Seq(S)
    OBVIOUS
  <2>3. Range(<<>>) = {}
    BY <2>2, RangeSeq
  <2> QED
    BY <1>1, <2>1, <2>3
<1>4. ASSUME NEW v
      PROVE  /\ v # w => RemoveFirst(<<w>>, v) = <<w>>
             /\ v = w => RemoveFirst(<<w>>, v) = <<>>
  <2> DEFINE q == RemoveFirst(<<w>>, v)
  <2>1. Removed(q, <<w>>, v, S)
    BY <1>1, RemoveFirstIs
  <2> HIDE DEF q
  <2>2. \/ q = <<w>> /\ <<w>>[1] # v
        \/ <<w>>[1] = v /\ q \in Seq(S) /\ Len(q) = 0
    <3>1. 1 .. Len(<<w>>) = {1}
      BY <1>1
    <3> QED
      BY <1>1, <2>1, <3>1 DEF Removed
  <2>3. ASSUME q \in Seq(S), Len(q) = 0 PROVE q = <<>>
    BY <2>3
  <2>4. (q = <<w>> /\ w # v) \/ (q = <<>> /\ w = v)
    BY <1>1, <2>2, <2>3
  <2> QED
    BY <2>4 DEF q
<1> QED
  BY <1>1, <1>2, <1>3, <1>4

LEMMA SameFrames ==
  ASSUME NEW x, NEW y, y.next = x.next, y.ready = x.ready, y.status = x.status
  PROVE  Returned(y) = Returned(x) /\ (InOrder(x) => InOrder(y))
  BY DEF Returned, InOrder

LEMMA NextFrame ==
  ASSUME NEW c, NEW x, ContextOf(c, x), InOrder(x)
  PROVE  /\ Returned(x) \in Nat /\ Returned(x) <= x.next
         /\ (x.ready = <<>>) <=> (Returned(x) = x.next)
         /\ (x.ready # <<>>) => Head(x.ready) = Returned(x) + 1 /\ Returned(x) < x.next
<1>1. x.next \in Nat /\ x.ready \in Seq(Nat) /\ Len(x.ready) \in Nat
  BY ContextFields
<1>2. x.ready # <<>> => Len(x.ready) >= 1 /\ Head(x.ready) = x.ready[1]
  BY <1>1
<1>3. x.ready = <<>> => Len(x.ready) = 0
  BY <1>1
<1> QED
  BY <1>1, <1>2, <1>3 DEF InOrder, Returned

\* A new frame goes to the end.
Queued1(x) ==
    [x EXCEPT !.next = x.next + 1, !.ready = Append(@, x.next + 1), !.status = Append(@, "queued")]

LEMMA QueuedIs ==
  ASSUME NEW c, NEW x, ContextOf(c, x), InOrder(x)
  PROVE  LET y == Queued1(x)
         IN  /\ ContextOf(c, y) /\ InOrder(y) /\ Returned(y) = Returned(x) /\ y.ready # <<>>
             /\ y.pending = x.pending /\ y.work = x.work /\ y.on = x.on /\ y.abort = x.abort
             /\ y.curr = x.curr
             /\ \A n \in 1 .. y.next :
                  y.status[n] = "done" => n \in 1 .. x.next /\ x.status[n] = "done"
<1> DEFINE n1 == x.next + 1
           q == Append(x.ready, n1)
           v == Append(x.status, "queued")
           y == [x EXCEPT !.next = n1, !.ready = q, !.status = v]
<1>1. x.next \in Nat /\ n1 \in Nat /\ x.ready \in Seq(Nat) /\ x.status \in Seq(Statuses)
  BY ContextFields
<1>2. /\ q \in Seq(Nat) /\ Len(q) = Len(x.ready) + 1 /\ Len(x.ready) \in Nat
      /\ \A i \in 1 .. Len(x.ready) : q[i] = x.ready[i]
      /\ q[Len(x.ready) + 1] = n1
  BY <1>1, AppendProperties
<1>3. /\ v \in Seq(Statuses) /\ Len(v) = Len(x.status) + 1 /\ Len(x.status) = x.next
      /\ \A i \in 1 .. Len(x.status) : v[i] = x.status[i]
      /\ v[n1] = "queued"
  <2>1. "queued" \in Statuses /\ Len(x.status) = x.next
    BY DEF Statuses, InOrder
  <2> QED
    BY <1>1, <2>1, AppendProperties
<1>4. Queued1(x) = y
  BY DEF Queued1, ContextOf, RotContext
<1> HIDE DEF q, v, n1
<1>5. /\ y.next = n1 /\ y.ready = q /\ y.status = v /\ y.pending = x.pending /\ y.work = x.work
      /\ y.on = x.on /\ y.abort = x.abort /\ y.curr = x.curr /\ y.retired = x.retired
  BY DEF ContextOf, RotContext
<1>6. ContextOf(c, y)
  <2>1. y \in RotContext(c)
    BY <1>1, <1>2, <1>3 DEF ContextOf, RotContext
  <2> HIDE DEF y
  <2> QED
    BY <1>5, <2>1 DEF ContextOf
<1> HIDE DEF y
<1>7. Returned(y) = Returned(x)
  <2>1. y.next = x.next + 1 /\ Len(y.ready) = Len(x.ready) + 1
    BY <1>2, <1>5 DEF n1
  <2>2. x.next \in Nat /\ Len(x.ready) \in Nat
    BY <1>1, <1>2
  <2>3. Returned(y) = (x.next + 1) - (Len(x.ready) + 1)
    BY <2>1 DEF Returned
  <2>4. \A a, b \in Nat : (a + 1) - (b + 1) = a - b
    OBVIOUS
  <2>5. (x.next + 1) - (Len(x.ready) + 1) = x.next - Len(x.ready)
    BY <2>2, <2>4
  <2> QED
    BY <2>3, <2>5 DEF Returned
<1>8. InOrder(y)
  <2>1. Len(y.status) = y.next /\ Len(y.ready) <= y.next
    BY <1>1, <1>2, <1>3, <1>5 DEF InOrder, n1
  <2>2. ASSUME NEW i \in 1 .. Len(y.ready) PROVE y.ready[i] = Returned(y) + i
    <3>1. CASE i \in 1 .. Len(x.ready)
      BY <1>2, <1>5, <1>7, <3>1 DEF InOrder
    <3>2. CASE i = Len(x.ready) + 1
      BY <1>1, <1>2, <1>5, <1>7, <3>2 DEF Returned, n1
    <3> QED
      BY <1>2, <1>5, <3>1, <3>2
  <2>3. ASSUME NEW n \in 1 .. y.next PROVE (y.status[n] = "queued") <=> (n > Returned(y))
    <3>1. CASE n \in 1 .. x.next
      BY <1>3, <1>5, <1>7, <3>1 DEF InOrder
    <3>2. CASE n = n1
      BY <1>1, <1>2, <1>3, <1>5, <1>7, <3>2 DEF Returned, n1
    <3> QED
      BY <1>1, <1>5, <3>1, <3>2 DEF n1
  <2> QED
    BY <2>1, <2>2, <2>3 DEF InOrder
<1>9. y.ready # <<>>
  BY <1>2, <1>5
<1>10. \A n \in 1 .. y.next : y.status[n] = "done" => n \in 1 .. x.next /\ x.status[n] = "done"
  BY <1>1, <1>3, <1>5 DEF n1
<1> QED
  BY <1>4, <1>5, <1>6, <1>7, <1>8, <1>9, <1>10

LEMMA ResyncIs ==
  ASSUME NEW c, NEW x, ContextOf(c, x)
  PROVE  LET y == Resync(x)
         IN  /\ y.pending = x.pending /\ y.work = x.work /\ y.on = x.on /\ y.abort = x.abort
             /\ y.next = x.next /\ y.ready = x.ready /\ y.status = x.status /\ y.req = x.req
             /\ y.curr >= x.next /\ y.curr >= x.curr /\ y.curr \in {x.curr, x.next}
<1>1. x.next \in Nat /\ x.curr \in Nat /\ x \in RotContext(c)
  BY ContextFields DEF ContextOf
<1>2. CASE x.next > x.curr
  BY <1>1, <1>2 DEF Resync, RotContext
<1>3. CASE ~(x.next > x.curr)
  BY <1>1, <1>3 DEF Resync
<1> QED
  BY <1>2, <1>3

\* Submitting takes a request and queues its work.
LEMMA SubmitIs ==
  ASSUME NEW c, NEW x, ContextOf(c, x), x.pending = <<>>, x.work = <<>>
  PROVE  LET y == Submit(x)
         IN  /\ \E r \in Request : y.pending = <<r>> /\ y.work = <<<<"submit", r>>>>
             /\ y.on = x.on /\ y.abort = x.abort /\ y.curr = x.curr
             /\ y.next = x.next /\ y.ready = x.ready /\ y.status = x.status
<1> DEFINE r == Head(x.retired)
           w == <<"submit", r>>
           z == [x EXCEPT !.pending = <<r>>, !.retired = Tail(x.retired)]
           u == [z EXCEPT !.work = Append(z.work, w)]
<1>1. r \in Request
  <2>1. Range(x.pending) = {}
    BY ContextFields, RangeSeq
  <2>2. x.retired \in Seq(Request) /\ x.retired # <<>>
    BY <2>1, ContextFields, RangeSeq, RequestsExist
  <2> QED
    BY <2>2, RangeTail
<1>2. x \in RotContext(c)
  BY DEF ContextOf
<1>3. z.work = <<>> /\ Range(z.work) = {}
  <2>1. z.work = <<>>
    BY <1>2 DEF RotContext
  <2>2. <<>> \in Seq(WorkItems)
    OBVIOUS
  <2> QED
    BY <2>1, <2>2, RangeSeq
<1>4. Submit(x) = u
  <2>1. Submit(x) = Enqueue(z, w)
    BY <1>2 DEF Submit, RotContext
  <2> HIDE DEF z, w
  <2> QED
    BY <1>3, <2>1 DEF Enqueue
<1>5. Append(z.work, w) = <<w>>
  <2>1. w \in WorkItems
    BY <1>1 DEF WorkItems
  <2> QED
    BY <1>3, <2>1, SingleList
<1> HIDE DEF r, w
<1>6. /\ u.pending = <<r>> /\ u.work = <<w>> /\ u.on = x.on /\ u.abort = x.abort
      /\ u.curr = x.curr /\ u.next = x.next /\ u.ready = x.ready /\ u.status = x.status
  BY <1>2, <1>5 DEF RotContext
<1> HIDE DEF u
<1> QED
  BY <1>1, <1>4, <1>6 DEF w

\* What is pending or at work in a context that has no entry in the core.
AtWork(x) ==
    \/ x.pending = <<>> /\ x.work = <<>>
    \/ /\ x.on /\ x.ready # <<>>
       /\ \E r \in Request :
            /\ x.pending = <<r>>
            /\ \/ x.work \in {<<>>, <<<<"submit", r>>>>}
               \/ x.work = <<<<"retire", r>>>> /\ x.abort

\* y is x but for its requests and works.
SameStream(x, y) ==
    /\ y.next = x.next /\ y.ready = x.ready /\ y.status = x.status /\ y.curr = x.curr
    /\ y.on = x.on /\ y.abort = x.abort

LEMMA RequestOnly ==
  ASSUME NEW r \in Request, NEW s, <<r>> = <<s>>
  PROVE  r = s
  OBVIOUS

\* A request that is at work is in one place.
LEMMA JobIs ==
  ASSUME RotInv, NEW c \in Ctxs, JobOK(c)
  PROVE  /\ ContextOf(c, ctx[c]) /\ InOrder(ctx[c]) /\ ctx[c].curr >= Returned(ctx[c])
         /\ ctx[c].pending = <<>> => ctx[c].work = <<>> /\ busy[c] = None /\ InCore(c) = {}
         /\ ctx[c].pending # <<>> =>
              /\ ctx[c].on /\ ctx[c].ready # <<>>
              /\ \E r \in Request : ctx[c].pending = <<r>>
         /\ busy[c] # None =>
              /\ ctx[c].work = <<>> /\ InCore(c) = {} /\ May("fence")
              /\ busy[c].req \in Request /\ ctx[c].pending = <<busy[c].req>>
              /\ busy[c].frame = Head(ctx[c].ready)
         /\ ctx[c].work # <<>> => busy[c] = None /\ InCore(c) = {}
         /\ \A e \in InCore(c) :
              /\ InCore(c) = {e} /\ ctx[c].work = <<>> /\ busy[c] = None
              /\ entry[e].req \in Request /\ ctx[c].pending = <<entry[e].req>>
              /\ entry[e].frame = Head(ctx[c].ready) /\ ctx[c].req[entry[e].req] = e
<1>1. ContextOf(c, ctx[c]) /\ InOrder(ctx[c]) /\ ctx[c].curr >= Returned(ctx[c])
  BY ContextHere DEF JobOK
<1>2. ASSUME NEW e \in InCore(c)
      PROVE  /\ ctx[c].work = <<>> /\ busy[c] = None
             /\ entry[e].req \in Request /\ ctx[c].pending = <<entry[e].req>>
             /\ entry[e].frame = Head(ctx[c].ready) /\ ctx[c].req[entry[e].req] = e
  <2>1. entry[e] \in RotEntry
    BY DEF InCore, RotInv, EntriesOK
  <2> QED
    BY <2>1 DEF RotEntry, JobOK, OnFrame
<1>3. ASSUME NEW e \in InCore(c) PROVE InCore(c) = {e}
  <2>1. ASSUME NEW d \in InCore(c) PROVE d = e
    <3>1. <<entry[e].req>> = <<entry[d].req>> /\ entry[e].req \in Request
      BY <1>2
    <3>2. entry[e].req = entry[d].req
      BY <3>1, RequestOnly
    <3> QED
      BY <1>2, <3>2
  <2> QED
    BY <2>1
<1>4. ASSUME busy[c] # None
      PROVE  /\ ctx[c].work = <<>> /\ InCore(c) = {} /\ May("fence")
             /\ busy[c].req \in Request /\ ctx[c].pending = <<busy[c].req>>
             /\ busy[c].frame = Head(ctx[c].ready)
  <2>1. busy[c].req \in Request
    BY <1>4 DEF RotInv, PlacesOK
  <2> QED
    BY <1>2, <1>4, <2>1 DEF JobOK, OnFrame
<1>5. ctx[c].work # <<>> => busy[c] = None /\ InCore(c) = {}
  BY <1>2, <1>4
<1>6. ASSUME ctx[c].pending = <<>>
      PROVE  ctx[c].work = <<>> /\ busy[c] = None /\ InCore(c) = {}
  <2>1. \A r \in Request : ctx[c].pending # <<r>>
    BY <1>6
  <2> QED
    BY <1>2, <1>4, <2>1 DEF JobOK
<1>7. ctx[c].pending # <<>> =>
        /\ ctx[c].on /\ ctx[c].ready # <<>>
        /\ \E r \in Request : ctx[c].pending = <<r>>
  BY DEF JobOK
<1> QED
  BY <1>1, <1>2, <1>3, <1>4, <1>5, <1>6, <1>7

\* With nothing pending, a context is left alone or submits.
LEMMA ScheduleIdle ==
  ASSUME NEW c, NEW x, ContextOf(c, x), x.pending = <<>>, x.work = <<>>
  PROVE  Finished(x) = {} /\ AtWork(Schedule(x)) /\ SameStream(x, Schedule(x))
<1>1. Outcome(x) \notin {"error", "done"}
  BY OutcomeIs
<1>2. Finished(x) = {} /\ Schedule(x) = IF Outcome(x) = "submit" THEN Submit(x) ELSE x
  BY <1>1 DEF Finished, Schedule
<1>3. CASE Outcome(x) = "submit"
  <2>1. x.on /\ x.ready # <<>>
    BY <1>3, OutcomeIs DEF Outcome
  <2>2. SameStream(x, Submit(x))
    BY SubmitIs DEF SameStream
  <2>3. \E r \in Request : Submit(x).pending = <<r>> /\ Submit(x).work = <<<<"submit", r>>>>
    BY SubmitIs
  <2> QED
    BY <1>2, <1>3, <2>1, <2>2, <2>3 DEF AtWork, SameStream
<1>4. CASE Outcome(x) # "submit"
  BY <1>2, <1>4 DEF AtWork, SameStream
<1> QED
  BY <1>3, <1>4

\* Retiring the one pending request.
LEMMA RetireIs ==
  ASSUME NEW c, NEW x, ContextOf(c, x), NEW r \in Request, x.pending = <<r>>
  PROVE  /\ ContextOf(c, Retire(x, r)) /\ Retire(x, r).pending = <<>>
         /\ Retire(x, r).work = x.work /\ SameStream(x, Retire(x, r))
<1>1. ContextOf(c, Retire(x, r)) /\ Retire(x, r).work = x.work
  BY RetireFollows DEF Follows
<1>2. RemoveFirst(x.pending, r) = <<>>
  BY SingleList
<1>3. Retire(x, r).pending = <<>> /\ SameStream(x, Retire(x, r))
  <2> DEFINE m == [x.req EXCEPT ![r] = None]
             l == Append(RemoveFirst(x.retired, r), r)
  <2>1. Retire(x, r) = [x EXCEPT !.req = m, !.pending = <<>>, !.retired = l]
    BY <1>2 DEF Retire
  <2> HIDE DEF m, l
  <2> QED
    BY <2>1 DEF SameStream, ContextOf, RotContext
<1> QED
  BY <1>1, <1>3

\* The frame at the head is given back.
GivesBack(x, y, outcome) ==
    /\ InOrder(y) /\ Returned(y) = Returned(x) + 1
    /\ y.next = x.next /\ y.on = x.on /\ y.abort = x.abort
    /\ \A n \in 1 .. x.next :
         y.status[n] = "done" =>
            x.status[n] = "done" \/ (outcome = "done" /\ n = Returned(x) + 1)
    /\ outcome = "done" => y.curr = x.curr
    /\ outcome = "error" => y.curr >= x.next /\ y.curr >= x.curr

LEMMA HeadGivenBack ==
  ASSUME NEW c, NEW x, ContextOf(c, x), InOrder(x), x.ready # <<>>,
         NEW outcome \in {"error", "done"}
  PROVE  LET y == [x EXCEPT !.ready = Tail(x.ready),
                            !.status = [x.status EXCEPT ![Head(x.ready)] = outcome]]
         IN  /\ ContextOf(c, y) /\ y.pending = x.pending /\ y.work = x.work /\ y.curr = x.curr
             /\ InOrder(y) /\ Returned(y) = Returned(x) + 1
             /\ y.next = x.next /\ y.on = x.on /\ y.abort = x.abort
             /\ \A n \in 1 .. x.next :
                  y.status[n] = "done" =>
                     x.status[n] = "done" \/ (outcome = "done" /\ n = Returned(x) + 1)
<1> DEFINE l == Tail(x.ready)
           h == Head(x.ready)
           v == [x.status EXCEPT ![h] = outcome]
           y == [x EXCEPT !.ready = l, !.status = v]
<1>1. /\ x.next \in Nat /\ Len(x.ready) \in Nat /\ x.ready \in Seq(Nat)
      /\ x.status \in Seq(Statuses) /\ Len(x.status) = x.next /\ outcome \in Statuses
      /\ DOMAIN x.status = 1 .. x.next
  <2>1. x.next \in Nat /\ x.ready \in Seq(Nat) /\ x.status \in Seq(Statuses)
    BY ContextFields
  <2> QED
    BY <2>1 DEF InOrder, Statuses
<1>2. /\ l \in Seq(Nat) /\ Len(l) = Len(x.ready) - 1 /\ Len(x.ready) # 0
      /\ \A i \in 1 .. Len(l) : l[i] = x.ready[i + 1]
  BY <1>1, HeadTailProperties
<1>3. h = Returned(x) + 1 /\ Returned(x) \in Nat /\ h \in 1 .. x.next
  BY <1>1, NextFrame
<1>4. v \in Seq(Statuses)
  BY <1>1, SeqAssign
<1>5. /\ Len(v) = x.next /\ v[h] = outcome
      /\ \A n \in 1 .. x.next : n # h => v[n] = x.status[n]
  BY <1>1, <1>3
<1> HIDE DEF l, v, h
<1>6. /\ y.ready = l /\ y.status = v /\ y.pending = x.pending /\ y.work = x.work
      /\ y.curr = x.curr /\ y.next = x.next /\ y.on = x.on /\ y.abort = x.abort
      /\ y.retired = x.retired
  BY DEF ContextOf, RotContext
<1>7. ContextOf(c, y)
  <2>1. y \in RotContext(c)
    BY <1>2, <1>4 DEF ContextOf, RotContext
  <2> HIDE DEF y
  <2> QED
    BY <1>6, <2>1 DEF ContextOf
<1> HIDE DEF y
<1>8. Returned(y) = Returned(x) + 1
  <2>1. y.next = x.next /\ Len(y.ready) = Len(x.ready) - 1
    BY <1>2, <1>6
  <2>2. Returned(y) = x.next - (Len(x.ready) - 1)
    BY <2>1 DEF Returned
  <2> QED
    BY <1>1, <2>2 DEF Returned
<1>9. InOrder(y)
  <2>1. Len(y.status) = y.next
    BY <1>5, <1>6
  <2>2. Len(y.ready) <= y.next
    BY <1>1, <1>2, <1>6 DEF InOrder
  <2>3. ASSUME NEW i \in 1 .. Len(y.ready) PROVE y.ready[i] = Returned(y) + i
    <3>1. i + 1 \in 1 .. Len(x.ready) /\ y.ready[i] = x.ready[i + 1] /\ i \in Nat
      BY <1>1, <1>2, <1>6
    <3>2. x.ready[i + 1] = Returned(x) + (i + 1)
      BY <3>1 DEF InOrder
    <3> QED
      BY <1>3, <1>8, <3>1, <3>2
  <2>4. ASSUME NEW n \in 1 .. y.next PROVE (y.status[n] = "queued") <=> (n > Returned(y))
    <3>1. CASE n = h
      BY <1>3, <1>5, <1>6, <1>8, <3>1
    <3>2. CASE n # h
      <4>1. n \in 1 .. x.next /\ y.status[n] = x.status[n]
        BY <1>5, <1>6, <3>2
      <4>2. (x.status[n] = "queued") <=> (n > Returned(x))
        BY <4>1 DEF InOrder
      <4> QED
        BY <1>1, <1>3, <1>8, <3>2, <4>1, <4>2
    <3> QED
      BY <3>1, <3>2
  <2> QED
    BY <2>1, <2>2, <2>3, <2>4 DEF InOrder
<1>10. \A n \in 1 .. x.next :
         y.status[n] = "done" =>
            x.status[n] = "done" \/ (outcome = "done" /\ n = Returned(x) + 1)
  BY <1>3, <1>5, <1>6
<1> QED
  BY <1>6, <1>7, <1>8, <1>9, <1>10 DEF y, l, v, h

LEMMA DeviceRunIs ==
  ASSUME NEW c, NEW x, ContextOf(c, x), InOrder(x), x.ready # <<>>,
         NEW r \in Request, x.pending = <<r>>, NEW outcome \in {"error", "done"}
  PROVE  LET y == DeviceRun(x, outcome)
         IN  ContextOf(c, y) /\ GivesBack(x, y, outcome) /\ y.pending = <<>> /\ y.work = x.work
<1> DEFINE z == Retire(x, r)
           v == [z.status EXCEPT ![Head(z.ready)] = outcome]
           w == [z EXCEPT !.ready = Tail(z.ready), !.status = v]
<1>1. /\ ContextOf(c, z) /\ z.pending = <<>> /\ z.work = x.work /\ SameStream(x, z)
  BY RetireIs
<1>2. InOrder(z) /\ Returned(z) = Returned(x)
  BY <1>1, SameFrames DEF SameStream
<1>3. Head(x.pending) = r
  BY SingleList
<1> HIDE DEF z
<1>4. DeviceRun(x, outcome) = IF outcome = "error" THEN Resync(w) ELSE w
  <2> DEFINE u == [z EXCEPT !.ready = Tail(@), !.status[Head(x.ready)] = outcome]
  <2>1. u = w
    BY <1>1 DEF SameStream, ContextOf, RotContext
  <2>2. DeviceRun(x, outcome) = IF outcome = "error" THEN Resync(u) ELSE u
    BY <1>3 DEF DeviceRun, z
  <2> QED
    BY <2>1, <2>2
<1>5. /\ ContextOf(c, w) /\ w.pending = <<>> /\ w.work = x.work /\ w.curr = x.curr
      /\ InOrder(w) /\ Returned(w) = Returned(x) + 1
      /\ w.next = x.next /\ w.on = x.on /\ w.abort = x.abort
      /\ \A n \in 1 .. x.next :
           w.status[n] = "done" =>
              x.status[n] = "done" \/ (outcome = "done" /\ n = Returned(x) + 1)
  <2>1. z.ready # <<>>
    BY <1>1 DEF SameStream
  <2>2. /\ ContextOf(c, w) /\ w.pending = z.pending /\ w.work = z.work /\ w.curr = z.curr
        /\ InOrder(w) /\ Returned(w) = Returned(z) + 1
        /\ w.next = z.next /\ w.on = z.on /\ w.abort = z.abort
        /\ \A n \in 1 .. z.next :
             w.status[n] = "done" =>
                z.status[n] = "done" \/ (outcome = "done" /\ n = Returned(z) + 1)
    <3>1. ContextOf(c, z) /\ InOrder(z)
      BY <1>1, <1>2
    <3> HIDE DEF z
    <3> QED
      BY <2>1, <3>1, HeadGivenBack
  <2> HIDE DEF w
  <2> QED
    BY <1>1, <1>2, <2>2 DEF SameStream
<1> HIDE DEF w
<1>6. CASE outcome = "done"
  <2>1. DeviceRun(x, outcome) = w
    BY <1>4, <1>6
  <2> QED
    BY <1>5, <1>6, <2>1 DEF GivesBack
<1>7. CASE outcome = "error"
  <2> DEFINE y == Resync(w)
  <2>1. /\ y.pending = w.pending /\ y.work = w.work /\ y.on = w.on /\ y.abort = w.abort
        /\ y.next = w.next /\ y.ready = w.ready /\ y.status = w.status
        /\ y.curr >= w.next /\ y.curr >= w.curr
    BY <1>5, ResyncIs
  <2>2. ContextOf(c, y)
    BY <1>5, ResyncFollows DEF Follows
  <2>3. DeviceRun(x, outcome) = y
    BY <1>4, <1>7
  <2> HIDE DEF y
  <2>4. InOrder(y) /\ Returned(y) = Returned(w)
    BY <1>5, <2>1, SameFrames
  <2> QED
    BY <1>5, <1>7, <2>1, <2>2, <2>3, <2>4 DEF GivesBack
<1> QED
  BY <1>6, <1>7

\* A context that is through with its pending request gives its frame back
\* and may submit the next one.
LEMMA ScheduleRuns ==
  ASSUME NEW c, NEW x, ContextOf(c, x), InOrder(x), x.on, ~x.abort, x.ready # <<>>, x.work = <<>>,
         NEW r \in Request, x.pending = <<r>>, x.req[r] = None \/ Completed(x.req[r])
  PROVE  LET outcome == IF x.req[r] = None \/ Failed(x.req[r]) THEN "error" ELSE "done"
         IN  /\ Finished(x) = {x.req[r]} /\ AtWork(Schedule(x))
             /\ GivesBack(x, Schedule(x), outcome)
<1> DEFINE id == x.req[r]
           outcome == IF id = None \/ Failed(id) THEN "error" ELSE "done"
           y == DeviceRun(x, outcome)
<1>1. Head(x.pending) = r /\ x.pending # <<>>
  BY SingleList
<1>2. Outcome(x) = outcome
  <2>1. Outcome(x) = CASE id = None -> "error"
                       [] id # None /\ ~Completed(id) -> "none"
                       [] id # None /\ Completed(id) -> IF Failed(id) THEN "error" ELSE "done"
    BY <1>1 DEF Outcome
  <2>2. id = None \/ Completed(id)
    OBVIOUS
  <2> HIDE DEF id
  <2>3. CASE id = None
    BY <2>1, <2>3
  <2>4. CASE id # None /\ Completed(id)
    BY <2>1, <2>4
  <2> QED
    BY <2>2, <2>3, <2>4
<1>3. outcome \in {"error", "done"}
  OBVIOUS
<1> HIDE DEF outcome
<1>4. Finished(x) = {id}
  BY <1>1, <1>2, <1>3 DEF Finished
<1>5. /\ ContextOf(c, y) /\ GivesBack(x, y, outcome) /\ y.pending = <<>> /\ y.work = <<>>
  BY <1>3, DeviceRunIs
<1>6. Schedule(x) = IF Outcome(y) = "submit" THEN Submit(y) ELSE y
  BY <1>2, <1>3 DEF Schedule
<1> HIDE DEF y
<1>7. Schedule(x) = Schedule(y) /\ AtWork(Schedule(y)) /\ SameStream(y, Schedule(y))
  <2>1. Outcome(y) \notin {"error", "done"}
    BY <1>5, OutcomeIs
  <2> QED
    BY <1>5, <1>6, <2>1, ScheduleIdle DEF Schedule
<1> DEFINE s == Schedule(y)
<1> HIDE DEF s
<1>8. InOrder(s) /\ Returned(s) = Returned(y)
  BY <1>5, <1>7, SameFrames DEF SameStream, GivesBack, s
<1>9. GivesBack(x, s, outcome)
  BY <1>5, <1>7, <1>8 DEF SameStream, GivesBack, s
<1> QED
  BY <1>4, <1>7, <1>9 DEF s, outcome

\* All frames are given back.
LEMMA ReturnAllIs ==
  ASSUME NEW c, NEW x, ContextOf(c, x), InOrder(x)
  PROVE  LET y == ReturnAll(x)
         IN  /\ InOrder(y) /\ Returned(y) = x.next /\ y.ready = <<>> /\ ~y.on
             /\ y.next = x.next /\ y.curr >= x.next /\ y.curr \in {x.curr, x.next}
             /\ y.pending = x.pending /\ y.work = x.work
             /\ \A n \in 1 .. x.next : y.status[n] = "done" => x.status[n] = "done"
<1> DEFINE v == [n \in DOMAIN x.status |->
                   IF n \in Range(x.ready) THEN "error" ELSE x.status[n]]
           w == [x EXCEPT !.ready = <<>>, !.on = FALSE, !.status = v]
           y == Resync(w)
<1>1. /\ x.next \in Nat /\ x.ready \in Seq(Nat) /\ Len(x.ready) \in Nat
      /\ x.status \in Seq(Statuses) /\ Len(x.status) = x.next /\ DOMAIN x.status = 1 .. x.next
  <2>1. x.next \in Nat /\ x.ready \in Seq(Nat) /\ x.status \in Seq(Statuses)
    BY ContextFields
  <2> QED
    BY <2>1 DEF InOrder
<1>2. ReturnAll(x) = y
  BY DEF ReturnAll
<1>3. /\ v \in Seq(Statuses) /\ Len(v) = x.next
      /\ \A n \in 1 .. x.next : v[n] = IF n \in Range(x.ready) THEN "error" ELSE x.status[n]
  <2>1. v = [n \in 1 .. x.next |-> IF n \in Range(x.ready) THEN "error" ELSE x.status[n]]
    BY <1>1
  <2>2. \A n \in 1 .. x.next : x.status[n] \in Statuses
    BY <1>1
  <2>3. v \in [1 .. x.next -> Statuses]
    BY <2>1, <2>2 DEF Statuses
  <2>4. \A n \in 1 .. x.next : v[n] = IF n \in Range(x.ready) THEN "error" ELSE x.status[n]
    BY <2>1
  <2> HIDE DEF v, w, y
  <2>5. v \in Seq(Statuses)
    BY <1>1, <2>3, SeqDef
  <2>6. Len(v) = x.next
    BY <1>1, <2>3, <2>5
  <2> QED
    BY <2>4, <2>5, <2>6
<1> HIDE DEF v
<1>4. ASSUME NEW n \in 1 .. x.next
      PROVE  /\ v[n] # "queued"
             /\ v[n] = "done" => x.status[n] = "done"
  <2>1. CASE n > Returned(x)
    <3>1. n - Returned(x) \in 1 .. Len(x.ready)
      BY <1>1, <2>1 DEF Returned
    <3>2. x.ready[n - Returned(x)] = n
      <4>1. Returned(x) \in Nat
        BY NextFrame
      <4>2. \A i \in 1 .. Len(x.ready) : x.ready[i] = Returned(x) + i
        BY DEF InOrder
      <4>3. x.ready[n - Returned(x)] = Returned(x) + (n - Returned(x))
        BY <3>1, <4>2
      <4> QED
        BY <4>1, <4>3
    <3>3. n \in Range(x.ready)
      BY <1>1, <3>1, <3>2, RangeSeq
    <3> QED
      BY <1>3, <3>3
  <2>2. CASE ~(n > Returned(x))
    BY <1>3, <2>2 DEF InOrder
  <2> QED
    BY <2>1, <2>2
<1>5. /\ w.ready = <<>> /\ w.status = v /\ ~w.on /\ w.pending = x.pending /\ w.work = x.work
      /\ w.next = x.next /\ w.curr = x.curr /\ w.retired = x.retired
  BY DEF ContextOf, RotContext
<1>6. ContextOf(c, w)
  <2>1. <<>> \in Seq(Nat) /\ FALSE \in BOOLEAN /\ x \in RotContext(c)
    BY DEF ContextOf
  <2>2. w \in RotContext(c)
    BY <1>3, <2>1 DEF RotContext
  <2> HIDE DEF w
  <2> QED
    BY <1>5, <2>2 DEF ContextOf
<1> HIDE DEF w
<1>7. /\ y.pending = w.pending /\ y.work = w.work /\ y.on = w.on
      /\ y.next = w.next /\ y.ready = w.ready /\ y.status = w.status
      /\ y.curr >= w.next /\ y.curr \in {w.curr, w.next}
  BY <1>6, ResyncIs
<1> HIDE DEF y
<1>8. Len(y.ready) = 0 /\ y.next = x.next /\ y.status = v
  BY <1>5, <1>7
<1>9. Returned(y) = x.next
  BY <1>1, <1>8 DEF Returned
<1>10. InOrder(y)
  <2>1. \A n \in 1 .. y.next : (y.status[n] = "queued") <=> (n > Returned(y))
    BY <1>1, <1>4, <1>8, <1>9
  <2>2. \A i \in 1 .. Len(y.ready) : y.ready[i] = Returned(y) + i
    BY <1>8
  <2> QED
    BY <1>1, <1>3, <1>8, <2>1, <2>2 DEF InOrder
<1> QED
  BY <1>2, <1>4, <1>5, <1>7, <1>8, <1>9, <1>10

-----------------------------------------------------------------------------
(* The rotator: steps that leave the frames in the core alone.             *)

Grows == scenario' = scenario /\ lost \subseteq lost' /\ rotated \subseteq rotated'

\* Nothing happens to d but that its entries in the core move on.
Aside(d) ==
    /\ ctx'[d] = ctx[d] /\ busy'[d] = busy[d] /\ at'[d] = at[d] /\ InCore(d)' = InCore(d)
    /\ \A e \in InCore(d) : entry'[e].req = entry[e].req /\ entry'[e].frame = entry[e].frame
    /\ \/ ctx[d].work = <<>> \/ ctx[d].abort
       \/ \A e \in DOMAIN entry :
            e[1] = d /\ entry[e].stage = "done" => e \in DOMAIN entry' /\ entry'[e] = entry[e]

LEMMA SameScenario ==
  ASSUME Grows
  PROVE  (\A fault : May(fault)' <=> May(fault)) /\ (Clean' => Clean)
<1>1. \A fault : May(fault)' <=> May(fault)
  BY DEF Grows, May
<1>2. lost' = {} => lost = {}
  BY DEF Grows
<1> QED
  BY <1>1, <1>2 DEF Clean

LEMMA AsideKeeps ==
  ASSUME RotInv, Grows, NEW d \in Ctxs, FramesOK(d), Aside(d)
  PROVE  FramesOK(d)'
<1>1. /\ ctx'[d] = ctx[d] /\ busy'[d] = busy[d] /\ at'[d] = at[d] /\ InCore(d)' = InCore(d)
      /\ \A e \in InCore(d) : entry'[e].req = entry[e].req /\ entry'[e].frame = entry[e].frame
      /\ rotated \subseteq rotated'
  BY DEF Aside, Grows
<1>2. (\A fault : May(fault)' <=> May(fault)) /\ (Clean' => Clean)
  BY SameScenario
<1>3. ASSUME NEW r \in Request, ctx[d].work = <<<<"retire", r>>>>, ~ctx[d].abort,
             Through(d, ctx[d].req[r])
      PROVE  Through(d, ctx[d].req[r])'
  <2> DEFINE e == ctx[d].req[r]
  <2>1. e \in DOMAIN entry /\ entry[e].stage = "done"
    BY <1>3 DEF Through
  <2>2. e[1] = d
    <3>1. e \in {None} \cup ({d} \X Nat) /\ e # None
      BY <2>1, ContextHere, ContextFields, NoneIsNoId DEF RotInv, EntriesOK
    <3> QED
      BY <3>1
  <2>3. ctx[d].work # <<>>
    BY <1>3
  <2>4. e \in DOMAIN entry' /\ entry'[e] = entry[e]
    BY <1>3, <2>1, <2>2, <2>3 DEF Aside
  <2> QED
    BY <1>1, <1>3, <2>1, <2>4 DEF Through
<1>4. JobOK(d)'
  <2>1. JobOK(d)
    BY DEF FramesOK
  <2>2. \/ ctx[d].work = <<>>
        \/ \E r \in Request :
             /\ ctx[d].pending = <<r>>
             /\ \/ ctx[d].work = <<<<"submit", r>>>>
                \/ /\ ctx[d].work = <<<<"retire", r>>>>
                   /\ ctx[d].abort \/ Through(d, ctx[d].req[r])'
    BY <1>3, <2>1 DEF JobOK
  <2>3. \/ ctx'[d].work = <<>>
        \/ \E r \in Request :
             /\ ctx'[d].pending = <<r>>
             /\ \/ ctx'[d].work = <<<<"submit", r>>>>
                \/ /\ ctx'[d].work = <<<<"retire", r>>>>
                   /\ ctx'[d].abort \/ Through(d, ctx[d].req[r])'
    BY <1>1, <2>2
  <2>4. /\ InOrder(ctx'[d]) /\ ctx'[d].curr >= Returned(ctx'[d])
        /\ \/ ctx'[d].pending = <<>>
           \/ /\ ctx'[d].on /\ ctx'[d].ready # <<>>
              /\ \E r \in Request : ctx'[d].pending = <<r>>
    BY <1>1, <2>1 DEF JobOK
  <2>5. \A e \in InCore(d)' :
           /\ OnFrame(ctx'[d], entry'[e].req, entry'[e].frame) /\ ctx'[d].req[entry'[e].req] = e
           /\ ctx'[d].work = <<>> /\ busy'[d] = None
    BY <1>1, <2>1 DEF JobOK
  <2>6. busy'[d] # None =>
           /\ OnFrame(ctx'[d], busy'[d].req, busy'[d].frame)
           /\ ctx'[d].work = <<>> /\ May("fence")'
    BY <1>1, <1>2, <2>1 DEF JobOK
  <2> QED
    BY <1>1, <2>3, <2>4, <2>5, <2>6 DEF JobOK, Through
<1>5. StopOK(d)'
  BY <1>1, <1>2 DEF FramesOK, StopOK
<1>6. TimelineOK(d)'
  BY <1>1, <1>2 DEF FramesOK, TimelineOK
<1>7. DoneOK(d)'
  BY <1>1 DEF FramesOK, DoneOK
<1> QED
  BY <1>4, <1>5, <1>6, <1>7 DEF FramesOK

\* Entries that the core is through with may go.
LEMMA HardwareDrops ==
  ASSUME HardwareOK, Drops, hw' = hw, Grows
  PROVE  HardwareOK'
<1>1. \A e \in DOMAIN entry' : e \in DOMAIN entry /\ entry'[e] = entry[e]
  BY DEF Drops
<1>2. rotated \subseteq rotated' /\ (Clean' => Clean)
  BY SameScenario DEF Grows
<1> QED
  BY <1>1, <1>2 DEF HardwareOK, Rotates

\* A step of c, which may drop such entries of its own.
LEMMA OwnStep ==
  ASSUME RotInv, FramesInv, NEW c \in Ctxs, Drops, hw' = hw, Grows,
         \A e \in DOMAIN entry \ DOMAIN entry' : e[1] = c,
         \A d \in Ctxs \ {c} : ctx'[d] = ctx[d] /\ busy'[d] = busy[d] /\ at'[d] = at[d],
         FramesOK(c)'
  PROVE  FramesInv'
<1>1. HardwareOK'
  BY HardwareDrops DEF FramesInv
<1>2. ASSUME NEW d \in Ctxs PROVE FramesOK(d)'
  <2>1. CASE d = c
    BY <2>1
  <2>2. CASE d # c
    <3>1. InCore(d)' = InCore(d)
      BY DropsSets
    <3>2. \A e \in InCore(d) : entry'[e].req = entry[e].req /\ entry'[e].frame = entry[e].frame
      BY <3>1 DEF InCore, Drops
    <3>3. \A e \in DOMAIN entry : e[1] = d => e \in DOMAIN entry' /\ entry'[e] = entry[e]
      BY <2>2 DEF Drops
    <3>4. Aside(d)
      BY <2>2, <3>1, <3>2, <3>3 DEF Aside
    <3> QED
      BY <3>4, AsideKeeps DEF FramesInv
  <2> QED
    BY <2>1, <2>2
<1> QED
  BY <1>1, <1>2 DEF FramesInv

\* A context with nothing in the core.
LEMMA JobSettled ==
  ASSUME NEW c \in Ctxs, NEW x, ctx'[c] = x, busy'[c] = None, InCore(c)' = {},
         InOrder(x), x.curr >= Returned(x), AtWork(x)
  PROVE  JobOK(c)'
<1>1. /\ \/ x.pending = <<>>
         \/ x.on /\ x.ready # <<>> /\ \E r \in Request : x.pending = <<r>>
      /\ \/ x.work = <<>>
         \/ \E r \in Request :
              /\ x.pending = <<r>>
              /\ x.work = <<<<"submit", r>>>> \/ (x.work = <<<<"retire", r>>>> /\ x.abort)
  BY DEF AtWork
<1> QED
  BY <1>1 DEF JobOK

\* What c was told stays true when no more of its frames are done.
LEMMA DoneStays ==
  ASSUME Grows, NEW c \in Ctxs, NEW x, ctx'[c] = x, DoneOK(c),
         \A n \in 1 .. x.next :
            x.status[n] = "done" => n \in 1 .. ctx[c].next /\ ctx[c].status[n] = "done"
  PROVE  DoneOK(c)'
  BY DEF DoneOK, Grows

\* Clients that queue, start and close find nothing at work.
LEMMA StopElsewhere ==
  ASSUME NEW c \in Ctxs,
         at'[c] \notin {"stopping", "stop_cancel", "stop_submit", "stop_retire", "stop_end"}
  PROVE  StopOK(c)'
  BY DEF StopOK

-----------------------------------------------------------------------------
(* The rotator: the calls of a client and the frames.                      *)

LEMMA FramesHere ==
  ASSUME FramesInv, NEW c \in Ctxs
  PROVE  JobOK(c) /\ StopOK(c) /\ TimelineOK(c) /\ DoneOK(c) /\ HardwareOK
  BY DEF FramesInv, FramesOK

LEMMA ScheduledStep ==
  ASSUME RotInv, NEW c \in Ctxs, NEW x, ContextOf(c, x), Scheduled(c, x)
  PROVE  /\ Drops /\ \A e \in DOMAIN entry \ DOMAIN entry' : e[1] = c
         /\ ctx'[c] = Schedule(x) /\ \A d \in Ctxs \ {c} : ctx'[d] = ctx[d]
<1> DEFINE y == Schedule(x)
<1>1. \A e \in Finished(x) : e = None \/ (e \in {c} \X Nat /\ Completed(e))
  BY ScheduleFollows
<1>2. ctx' = [ctx EXCEPT ![c] = y] /\ entry' = Without(Finished(x))
  BY DEF Scheduled
<1> HIDE DEF y
<1>3. ctx'[c] = y /\ \A d \in Ctxs \ {c} : ctx'[d] = ctx[d]
  BY <1>2, ContextHere DEF ContextBecomes
<1>4. /\ DOMAIN entry' = DOMAIN entry \ Finished(x)
      /\ \A e \in DOMAIN entry' : entry'[e] = entry[e]
  BY <1>2 DEF Without
<1>5. ASSUME NEW e \in DOMAIN entry, e \in Finished(x)
      PROVE  entry[e].stage = "done" /\ e[1] = c
  <2>1. e # None
    BY NoneIsNoId DEF RotInv, EntriesOK
  <2> QED
    BY <1>1, <1>5, <2>1 DEF Completed
<1> QED
  BY <1>3, <1>4, <1>5 DEF Drops, y

\* The calls that queue a frame and start a stream find nothing at work.
LEMMA IdleScheduled ==
  ASSUME RotInv, FramesInv, NEW c \in Ctxs, NEW x, ContextOf(c, x), InOrder(x),
         x.pending = <<>>, x.work = <<>>, x.curr >= Returned(x),
         Clean => x.curr <= Returned(x), Scheduled(c, x),
         UNCHANGED <<scenario, busy, at, hw, lost, rotated>>,
         at[c] = "idle", busy[c] = None, InCore(c) = {},
         \A n \in 1 .. x.next :
            x.status[n] = "done" => n \in 1 .. ctx[c].next /\ ctx[c].status[n] = "done"
  PROVE  FramesInv'
<1> DEFINE y == Schedule(x)
<1>1. /\ Drops /\ \A e \in DOMAIN entry \ DOMAIN entry' : e[1] = c
      /\ ctx'[c] = y /\ \A d \in Ctxs \ {c} : ctx'[d] = ctx[d]
  BY ScheduledStep
<1>2. AtWork(y) /\ SameStream(x, y)
  BY ScheduleIdle
<1> HIDE DEF y
<1>3. InOrder(y) /\ Returned(y) = Returned(x) /\ y.curr = x.curr
  BY <1>2, SameFrames DEF SameStream
<1>4. InCore(c)' = {}
  BY <1>1, DropsSets
<1>5. Grows
  BY DEF Grows
<1>6. JobOK(c)'
  BY <1>1, <1>2, <1>3, <1>4, JobSettled
<1>7. StopOK(c)'
  BY StopElsewhere
<1>8. TimelineOK(c)'
  BY <1>1, <1>3, <1>5, SameScenario DEF TimelineOK
<1>9. DoneOK(c)'
  <2>1. y.next = x.next /\ y.status = x.status
    BY <1>2 DEF SameStream
  <2> QED
    BY <1>1, <1>5, <2>1, FramesHere, DoneStays
<1> QED
  BY <1>1, <1>5, <1>6, <1>7, <1>8, <1>9, OwnStep DEF FramesOK

LEMMA QBufFrames ==
  ASSUME RotInv, Orderly, FramesInv, NEW c \in Ctxs, QBuf(c)
  PROVE  FramesInv'
<1> DEFINE x == Queued1(ctx[c])
<1>1. /\ at[c] = "idle" /\ MayQueue(c) /\ Scheduled(c, x)
      /\ UNCHANGED <<scenario, busy, at, hw, lost, rotated>>
  BY DEF QBuf, Queued1, client, history
<1>2. JobOK(c) /\ TimelineOK(c)
  BY FramesHere
<1>3. /\ ContextOf(c, ctx[c]) /\ InOrder(ctx[c]) /\ ctx[c].curr >= Returned(ctx[c])
      /\ ctx[c].pending = <<>> => ctx[c].work = <<>> /\ busy[c] = None /\ InCore(c) = {}
      /\ ctx[c].pending # <<>> => ctx[c].on /\ ctx[c].ready # <<>>
  BY <1>2, JobIs
<1>4. ~ctx[c].on \/ ctx[c].ready = <<>>
  BY <1>1 DEF MayQueue, Orderly
<1>5. /\ ContextOf(c, x) /\ InOrder(x) /\ Returned(x) = Returned(ctx[c])
      /\ x.pending = ctx[c].pending /\ x.work = ctx[c].work /\ x.curr = ctx[c].curr
      /\ \A n \in 1 .. x.next :
           x.status[n] = "done" => n \in 1 .. ctx[c].next /\ ctx[c].status[n] = "done"
  BY <1>3, QueuedIs
<1>6. Clean => ctx[c].curr <= Returned(ctx[c])
  BY <1>2, <1>4 DEF TimelineOK
<1> HIDE DEF x
<1> QED
  BY <1>1, <1>3, <1>4, <1>5, <1>6, IdleScheduled

LEMMA StreamOnFrames ==
  ASSUME RotInv, FramesInv, NEW c \in Ctxs, StreamOn(c)
  PROVE  FramesInv'
<1> DEFINE x == [ctx[c] EXCEPT !.abort = FALSE, !.on = TRUE]
<1>1. /\ at[c] = "idle" /\ ~ctx[c].on /\ ctx[c].pending = <<>> /\ Scheduled(c, x)
      /\ UNCHANGED <<scenario, busy, at, hw, lost, rotated>>
  BY DEF StreamOn, client, history
<1>2. JobOK(c) /\ TimelineOK(c)
  BY FramesHere
<1>3. /\ ContextOf(c, ctx[c]) /\ InOrder(ctx[c]) /\ ctx[c].curr >= Returned(ctx[c])
      /\ ctx[c].work = <<>> /\ busy[c] = None /\ InCore(c) = {}
  BY <1>1, <1>2, JobIs
<1>4. /\ ContextOf(c, x) /\ x.pending = <<>> /\ x.work = <<>> /\ x.curr = ctx[c].curr
      /\ x.next = ctx[c].next /\ x.ready = ctx[c].ready /\ x.status = ctx[c].status
  BY <1>1, <1>3 DEF ContextOf, RotContext
<1> HIDE DEF x
<1>5. InOrder(x) /\ Returned(x) = Returned(ctx[c])
  BY <1>3, <1>4, SameFrames
<1>6. Clean => ctx[c].curr <= Returned(ctx[c])
  BY <1>1, <1>2 DEF TimelineOK
<1> QED
  BY <1>1, <1>3, <1>4, <1>5, <1>6, IdleScheduled

\* A client moves on, and the request of its context may be taken away.
LEMMA ClientStepFrames ==
  ASSUME RotInv, FramesInv, NEW c \in Ctxs, NEW x, ContextBecomes(c, x),
         UNCHANGED <<scenario, busy, entry, hw, lost, rotated>>,
         \A d \in Ctxs \ {c} : at'[d] = at[d],
         JobOK(c)', StopOK(c)', TimelineOK(c)',
         \A n \in 1 .. x.next :
            x.status[n] = "done" => n \in 1 .. ctx[c].next /\ ctx[c].status[n] = "done"
  PROVE  FramesInv'
<1>1. ctx'[c] = x /\ \A d \in Ctxs \ {c} : ctx'[d] = ctx[d]
  BY DEF ContextBecomes
<1>2. Drops /\ Grows
  BY CoreUntouched DEF Grows
<1>3. DoneOK(c)'
  BY <1>1, <1>2, FramesHere, DoneStays
<1> QED
  BY <1>1, <1>2, <1>3, OwnStep DEF FramesOK

LEMMA StreamOffFrames ==
  ASSUME RotInv, FramesInv, NEW c \in Ctxs, StreamOff(c)
  PROVE  FramesInv'
<1> DEFINE x == [ctx[c] EXCEPT !.abort = TRUE]
<1>1. /\ May("off") /\ ctx[c].on /\ ctx' = [ctx EXCEPT ![c] = x]
      /\ at' = [at EXCEPT ![c] = "stopping"]
      /\ UNCHANGED <<scenario, busy, entry, hw, lost, rotated>>
  BY DEF StreamOff, history
<1>2. at'[c] = "stopping" /\ \A d \in Ctxs \ {c} : at'[d] = at[d]
  BY <1>1 DEF RotInv, PlacesOK
<1>3. JobOK(c) /\ TimelineOK(c) /\ ContextOf(c, ctx[c])
  BY FramesHere, ContextHere
<1>4. /\ x.abort /\ x.on /\ x.pending = ctx[c].pending /\ x.work = ctx[c].work
      /\ x.curr = ctx[c].curr /\ x.next = ctx[c].next /\ x.ready = ctx[c].ready
      /\ x.status = ctx[c].status /\ x.req = ctx[c].req
  BY <1>1, <1>3 DEF ContextOf, RotContext
<1> HIDE DEF x
<1>5. ContextBecomes(c, x) /\ ctx'[c] = x
  BY <1>1, ContextHere DEF ContextBecomes
<1>6. InCore(c)' = InCore(c) /\ Grows
  BY <1>1 DEF InCore, Grows
<1>7. Returned(x) = Returned(ctx[c]) /\ (InOrder(ctx[c]) => InOrder(x))
  BY <1>4, SameFrames
<1>8. JobOK(c)'
  <2>1. /\ InOrder(x) /\ x.curr >= Returned(x)
        /\ \/ x.pending = <<>>
           \/ x.on /\ x.ready # <<>> /\ \E r \in Request : x.pending = <<r>>
    BY <1>3, <1>4, <1>7 DEF JobOK
  <2>2. \A e \in InCore(c)' :
           /\ OnFrame(x, entry'[e].req, entry'[e].frame) /\ x.req[entry'[e].req] = e
           /\ x.work = <<>> /\ busy'[c] = None
    BY <1>1, <1>3, <1>4, <1>6 DEF JobOK, OnFrame
  <2>3. busy'[c] # None =>
           /\ OnFrame(x, busy'[c].req, busy'[c].frame) /\ x.work = <<>> /\ May("fence")'
    BY <1>1, <1>3, <1>4, <1>6, SameScenario DEF JobOK, OnFrame
  <2>4. \/ x.work = <<>>
        \/ \E r \in Request :
             /\ x.pending = <<r>>
             /\ x.work = <<<<"submit", r>>>> \/ (x.work = <<<<"retire", r>>>> /\ x.abort)
    BY <1>3, <1>4 DEF JobOK
  <2> QED
    BY <1>5, <2>1, <2>2, <2>3, <2>4 DEF JobOK
<1>9. StopOK(c)'
  BY <1>1, <1>2, <1>4, <1>5, <1>6, SameScenario DEF StopOK
<1>10. TimelineOK(c)'
  BY <1>1, <1>3, <1>4, <1>5, <1>6, <1>7, SameScenario DEF TimelineOK
<1> QED
  BY <1>1, <1>2, <1>4, <1>5, <1>8, <1>9, <1>10, ClientStepFrames

\* The end of stop_streaming, when no request is at work.
LEMMA AllReturned ==
  ASSUME RotInv, FramesInv, NEW c \in Ctxs, NEW x, ContextOf(c, x), SameStream(ctx[c], x),
         x.pending = <<>>, x.work = <<>>, busy[c] = None, InCore(c) = {},
         ctx' = [ctx EXCEPT ![c] = ReturnAll(x)], at' = [at EXCEPT ![c] = "idle"],
         UNCHANGED <<scenario, busy, entry, hw, lost, rotated>>
  PROVE  FramesInv'
<1> DEFINE y == ReturnAll(x)
<1>1. ContextOf(c, ctx[c]) /\ JobOK(c) /\ TimelineOK(c) /\ ctx[c].next \in Nat /\ ctx[c].curr \in Nat
  BY ContextHere, ContextFields, FramesHere
<1>2. InOrder(x) /\ Returned(x) = Returned(ctx[c]) /\ x.next = ctx[c].next /\ x.curr = ctx[c].curr
  BY <1>1, SameFrames DEF JobOK, SameStream
<1>3. /\ InOrder(y) /\ Returned(y) = x.next /\ y.next = x.next
      /\ y.curr >= x.next /\ y.curr \in {x.curr, x.next}
      /\ y.pending = <<>> /\ y.work = <<>>
      /\ \A n \in 1 .. x.next : y.status[n] = "done" => x.status[n] = "done"
  BY <1>2, ReturnAllIs
<1> HIDE DEF y
<1>4. ctx' = [ctx EXCEPT ![c] = y]
  BY DEF y
<1>5. ContextBecomes(c, y) /\ ctx'[c] = y
  BY <1>4, ContextHere DEF ContextBecomes
<1>6. at'[c] = "idle" /\ \A d \in Ctxs \ {c} : at'[d] = at[d]
  BY DEF RotInv, PlacesOK
<1>7. InCore(c)' = {} /\ Grows
  BY DEF InCore, Grows
<1>8. JobOK(c)'
  <2>1. AtWork(y)
    BY <1>3 DEF AtWork
  <2> QED
    BY <1>3, <1>5, <1>7, <2>1, JobSettled
<1>9. StopOK(c)'
  BY <1>6, StopElsewhere
<1>10. TimelineOK(c)'
  <2> SUFFICES ASSUME Clean' PROVE y.curr <= Returned(y)
    BY <1>5 DEF TimelineOK
  <2>1. /\ Returned(ctx[c]) \in Nat /\ Returned(ctx[c]) <= ctx[c].next
        /\ (ctx[c].ready # <<>>) => Returned(ctx[c]) < ctx[c].next
    BY <1>1, NextFrame DEF JobOK
  <2>2. ctx[c].curr <= ctx[c].next
    BY <1>1, <1>7, <2>1, SameScenario DEF TimelineOK
  <2> QED
    BY <1>1, <1>2, <1>3, <2>2
<1>11. \A n \in 1 .. y.next :
          y.status[n] = "done" => n \in 1 .. ctx[c].next /\ ctx[c].status[n] = "done"
  BY <1>2, <1>3 DEF SameStream
<1> QED
  BY <1>5, <1>6, <1>8, <1>9, <1>10, <1>11, ClientStepFrames

LEMMA StoppedFrames ==
  ASSUME RotInv, FramesInv, NEW c \in Ctxs, Stopped(c)
  PROVE  FramesInv'
<1>1. /\ ctx[c].pending = <<>> /\ ctx' = [ctx EXCEPT ![c] = ReturnAll(ctx[c])]
      /\ at' = [at EXCEPT ![c] = "idle"]
      /\ UNCHANGED <<scenario, busy, entry, hw, lost, rotated>>
  BY DEF Stopped, history
<1>2. ContextOf(c, ctx[c]) /\ ctx[c].work = <<>> /\ busy[c] = None /\ InCore(c) = {}
  BY <1>1, FramesHere, JobIs
<1>3. SameStream(ctx[c], ctx[c])
  BY DEF SameStream
<1> QED
  BY <1>1, <1>2, <1>3, AllReturned

\* A client that has timed out waits for no submission.
LEMMA TimedOut ==
  ASSUME RotInv, Orderly, FramesInv, NEW c \in Ctxs,
         at[c] \in {"stop_cancel", "stop_submit", "stop_retire", "stop_end"}
  PROVE  busy[c] = None /\ ctx[c].on /\ ctx[c].abort /\ May("off") /\ May("timeout")
<1>1. ctx[c].on /\ ctx[c].abort /\ May("off") /\ May("timeout")
  BY FramesHere DEF StopOK
<1>2. ~May("fence")
  BY <1>1 DEF Orderly, May
<1> QED
  BY <1>1, <1>2, FramesHere DEF JobOK

LEMMA StopEndFrames ==
  ASSUME RotInv, Orderly, FramesInv, NEW c \in Ctxs, StopEnd(c)
  PROVE  FramesInv'
<1> DEFINE l == ctx[c].retired \o ctx[c].pending
           x == [ctx[c] EXCEPT !.pending = <<>>, !.retired = l]
           z == [ctx[c] EXCEPT !.pending = <<>>, !.retired = @ \o ctx[c].pending]
<1>1. /\ at[c] = "stop_end" /\ ctx' = [ctx EXCEPT ![c] = ReturnAll(z)]
      /\ at' = [at EXCEPT ![c] = "idle"]
      /\ UNCHANGED <<scenario, busy, entry, hw, lost, rotated>>
  BY DEF StopEnd, history
<1>2. ContextOf(c, ctx[c])
  BY ContextHere
<1>3. busy[c] = None /\ InCore(c) = {} /\ ctx[c].work = <<>>
  <2>1. busy[c] = None
    BY <1>1, TimedOut
  <2> QED
    BY <1>1, <2>1, FramesHere DEF StopOK
<1>4. l \in Seq(Request) /\ Range(l) = Request
  <2>1. /\ ctx[c].retired \in Seq(Request) /\ ctx[c].pending \in Seq(Request)
        /\ Range(ctx[c].pending) \cup Range(ctx[c].retired) = Request
    BY <1>2, ContextFields
  <2>2. l \in Seq(Request) /\ Range(l) = Range(ctx[c].retired) \cup Range(ctx[c].pending)
    BY <2>1, RangeConcat
  <2> QED
    BY <2>1, <2>2
<1>5. z = x
  BY <1>2 DEF ContextOf, RotContext
<1> HIDE DEF l, z
<1>6. /\ ContextOf(c, x) /\ SameStream(ctx[c], x)
      /\ x.pending = <<>> /\ x.work = <<>>
  <2>1. <<>> \in Seq(Request) /\ Range(<<>>) = {}
    <3>1. <<>> \in Seq(Request)
      OBVIOUS
    <3> QED
      BY <3>1, RangeSeq
  <2> QED
    BY <1>2, <1>3, <1>4, <2>1 DEF ContextOf, RotContext, SameStream
<1> HIDE DEF x
<1> QED
  BY <1>1, <1>3, <1>5, <1>6, AllReturned

\* A client whose context stays as it is.
LEMMA PlaceFrames ==
  ASSUME RotInv, FramesInv, NEW c \in Ctxs, NEW p, at' = [at EXCEPT ![c] = p],
         UNCHANGED <<scenario, ctx, busy, entry, hw, lost, rotated>>, StopOK(c)'
  PROVE  FramesInv'
<1>1. \A d \in Ctxs \ {c} : at'[d] = at[d]
  BY DEF RotInv, PlacesOK
<1>2. Drops /\ Grows
  BY CoreUntouched DEF Grows
<1>3. InCore(c)' = InCore(c) /\ (\A fault : May(fault)' <=> May(fault)) /\ (Clean' => Clean)
  BY <1>2, SameScenario DEF InCore
<1>4. JobOK(c) /\ TimelineOK(c) /\ DoneOK(c)
  BY FramesHere
<1>5. JobOK(c)'
  BY <1>3, <1>4 DEF JobOK, Through
<1>6. TimelineOK(c)' /\ DoneOK(c)'
  BY <1>3, <1>4 DEF TimelineOK, DoneOK
<1> QED
  BY <1>1, <1>2, <1>5, <1>6, OwnStep DEF FramesOK

LEMMA StopTimeoutFrames ==
  ASSUME RotInv, FramesInv, NEW c \in Ctxs, StopTimeout(c)
  PROVE  FramesInv'
<1>1. /\ May("timeout") /\ at[c] = "stopping" /\ at' = [at EXCEPT ![c] = "stop_cancel"]
      /\ UNCHANGED <<scenario, ctx, busy, entry, hw, lost, rotated>>
  BY DEF StopTimeout, history
<1>2. at'[c] = "stop_cancel"
  BY <1>1 DEF RotInv, PlacesOK
<1>3. ctx[c].on /\ ctx[c].abort /\ May("off")
  BY <1>1, FramesHere DEF StopOK
<1>4. StopOK(c)'
  BY <1>1, <1>2, <1>3 DEF StopOK, May
<1> QED
  BY <1>1, <1>4, PlaceFrames

LEMMA StopCancelledFrames ==
  ASSUME RotInv, FramesInv, NEW c \in Ctxs, StopCancelled(c)
  PROVE  FramesInv'
<1>1. /\ at[c] = "stop_cancel" /\ \A e \in DOMAIN entry : e[1] # c
      /\ at' = [at EXCEPT ![c] = "stop_submit"]
      /\ UNCHANGED <<scenario, ctx, busy, entry, hw, lost, rotated>>
  BY DEF StopCancelled, history
<1>2. at'[c] = "stop_submit"
  BY <1>1 DEF RotInv, PlacesOK
<1>3. ctx[c].on /\ ctx[c].abort /\ May("off") /\ May("timeout")
  BY <1>1, FramesHere DEF StopOK
<1>4. InCore(c)' = {}
  BY <1>1 DEF InCore
<1>5. StopOK(c)'
  BY <1>1, <1>2, <1>3, <1>4 DEF StopOK, May
<1> QED
  BY <1>1, <1>5, PlaceFrames

LEMMA CloseFrames ==
  ASSUME RotInv, FramesInv, NEW c \in Ctxs, Close(c) \/ CloseCancelled(c) \/ Closed(c)
  PROVE  FramesInv'
<1>1. PICK p \in {"close_cancel", "flush", "closed"} : at' = [at EXCEPT ![c] = p]
  BY DEF Close, CloseCancelled, Closed
<1>2. UNCHANGED <<scenario, ctx, busy, entry, hw, lost, rotated>>
  BY DEF Close, CloseCancelled, Closed, history
<1>3. at'[c] = p
  BY <1>1 DEF RotInv, PlacesOK
<1>4. StopOK(c)'
  BY <1>3, StopElsewhere
<1> QED
  BY <1>1, <1>2, <1>4, PlaceFrames

\* A stopping client cancels a work of its context.
LEMMA DequeueFrames ==
  ASSUME RotInv, Orderly, FramesInv, NEW c \in Ctxs, NEW kind \in {"submit", "retire"},
         at[c] \in {"stop_submit", "stop_retire"}, ctx' = Dequeue(c, kind),
         NEW p \in {"stop_retire", "stop_end"}, at' = [at EXCEPT ![c] = p],
         UNCHANGED <<scenario, busy, entry, hw, lost, rotated>>
  PROVE  /\ ctx'[c].work \in {<<>>, ctx[c].work}
         /\ \A r \in Request : ctx'[c].work # <<<<kind, r>>>>
         /\ StopOK(c)' => FramesInv'
<1> DEFINE l == RemoveFirst(ctx[c].work, <<kind, Head(ctx[c].pending)>>)
           x == [ctx[c] EXCEPT !.work = IF ctx[c].pending = <<>> THEN @ ELSE l]
<1>1. /\ JobOK(c) /\ TimelineOK(c) /\ ContextOf(c, ctx[c]) /\ InOrder(ctx[c])
      /\ ctx[c].curr >= Returned(ctx[c])
      /\ ctx[c].pending = <<>> => ctx[c].work = <<>>
      /\ ctx[c].pending # <<>> => ctx[c].on /\ ctx[c].ready # <<>>
  BY FramesHere, JobIs
<1>2. busy[c] = None /\ InCore(c) = {} /\ ctx[c].on /\ ctx[c].abort
  <2>1. busy[c] = None /\ ctx[c].on /\ ctx[c].abort
    BY TimedOut
  <2> QED
    BY <2>1, FramesHere DEF StopOK
<1>4. ContextBecomes(c, x)
  <2>1. CASE ctx[c].pending = <<>>
    <3>1. x = ctx[c]
      BY <1>1, <2>1 DEF ContextOf, RotContext
    <3>2. ctx' = ctx
      BY <2>1 DEF Dequeue
    <3> QED
      BY <3>1, <3>2, ContextHere
  <2>2. CASE ctx[c].pending # <<>>
    <3>1. ctx' = [ctx EXCEPT ![c] = x]
      BY <2>2 DEF Dequeue
    <3> QED
      BY <3>1, ContextHere
  <2> QED
    BY <2>1, <2>2
<1>5. /\ x.pending = ctx[c].pending
      /\ x.work = IF ctx[c].pending = <<>> THEN ctx[c].work ELSE l
      /\ SameStream(ctx[c], x)
  BY <1>1 DEF SameStream, ContextOf, RotContext
<1>6. ASSUME NEW r \in Request, ctx[c].pending = <<r>>
      PROVE  l \in {<<>>, ctx[c].work} /\ \A s \in Request : l # <<<<kind, s>>>>
  <2>1. Head(ctx[c].pending) = r /\ <<kind, r>> \in WorkItems
    BY <1>6, SingleList DEF WorkItems
  <2>2. CASE ctx[c].work = <<>>
    <3>1. <<>> \in Seq(WorkItems) /\ l = RemoveFirst(<<>>, <<kind, r>>)
      BY <2>1, <2>2
    <3>2. Removed(l, <<>>, <<kind, r>>, WorkItems)
      BY <3>1, RemoveFirstIs
    <3> HIDE DEF l
    <3>3. l = <<>>
      <4>1. 1 .. Len(<<>>) = {}
        OBVIOUS
      <4> QED
        BY <3>2, <4>1 DEF Removed
    <3> QED
      BY <3>3
  <2>3. CASE ctx[c].work # <<>>
    <3>1. PICK other \in {"submit", "retire"} : ctx[c].work = <<<<other, r>>>>
      <4>1. PICK s \in Request :
              /\ ctx[c].pending = <<s>>
              /\ ctx[c].work = <<<<"submit", s>>>> \/ ctx[c].work = <<<<"retire", s>>>>
        BY <1>1, <2>3 DEF JobOK
      <4>2. s = r
        BY <1>6, <4>1, RequestOnly
      <4> QED
        BY <4>1, <4>2
    <3>2. <<other, r>> \in WorkItems
      BY DEF WorkItems
    <3>3. CASE other = kind
      <4>1. l = <<>>
        BY <2>1, <3>1, <3>3, SingleList
      <4> QED
        BY <4>1
    <3>4. CASE other # kind
      <4>1. <<other, r>> # <<kind, r>>
        BY <3>4
      <4>2. l = ctx[c].work
        <5>1. RemoveFirst(<<<<other, r>>>>, <<kind, r>>) = <<<<other, r>>>>
          BY <3>2, <4>1, SingleList
        <5> QED
          BY <2>1, <3>1, <5>1
      <4>3. ASSUME NEW s \in Request, l = <<<<kind, s>>>> PROVE FALSE
        BY <3>1, <3>4, <4>2, <4>3
      <4> QED
        BY <4>2, <4>3
    <3> QED
      BY <3>3, <3>4
  <2> QED
    BY <2>2, <2>3
<1> HIDE DEF l, x
<1>7. ctx'[c] = x
  BY <1>4 DEF ContextBecomes
<1>8. x.work \in {<<>>, ctx[c].work} /\ \A s \in Request : x.work # <<<<kind, s>>>>
  <2>1. CASE ctx[c].pending = <<>>
    <3>1. x.work = <<>>
      BY <1>1, <1>5, <2>1
    <3> QED
      BY <3>1
  <2>2. CASE ctx[c].pending # <<>>
    BY <1>1, <1>5, <1>6, <2>2 DEF JobOK
  <2> QED
    BY <2>1, <2>2
<1>9. Grows /\ InCore(c)' = {}
  BY <1>2 DEF Grows, InCore
<1>10. InOrder(x) /\ Returned(x) = Returned(ctx[c]) /\ x.curr = ctx[c].curr
  BY <1>1, <1>5, SameFrames DEF SameStream
<1>11. JobOK(c)'
  <2>1. AtWork(x)
    BY <1>1, <1>2, <1>5, <1>8 DEF AtWork, SameStream, JobOK
  <2> QED
    BY <1>1, <1>2, <1>7, <1>9, <1>10, <2>1, JobSettled
<1>12. TimelineOK(c)'
  <2>1. x.on /\ x.abort /\ x.ready = ctx[c].ready
    BY <1>2, <1>5 DEF SameStream
  <2> QED
    BY <1>1, <1>2, <1>7, <1>9, <1>10, <2>1, SameScenario DEF TimelineOK
<1>13. \A d \in Ctxs \ {c} : at'[d] = at[d]
  BY DEF RotInv, PlacesOK
<1>14. \A n \in 1 .. x.next :
          x.status[n] = "done" => n \in 1 .. ctx[c].next /\ ctx[c].status[n] = "done"
  BY <1>5 DEF SameStream
<1>15. StopOK(c)' => FramesInv'
  BY <1>4, <1>11, <1>12, <1>13, <1>14, ClientStepFrames
<1> QED
  BY <1>7, <1>8, <1>15

LEMMA StopCancelWorkFrames ==
  ASSUME RotInv, Orderly, FramesInv, NEW c \in Ctxs, StopCancelSubmit(c) \/ StopCancelRetire(c)
  PROVE  FramesInv'
<1>1. /\ UNCHANGED <<scenario, busy, entry, hw, lost, rotated>>
      /\ at[c] \in {"stop_submit", "stop_retire"}
  BY DEF StopCancelSubmit, StopCancelRetire, history
<1>2. /\ May("off")' /\ May("timeout")' /\ InCore(c)' = {}
      /\ at[c] = "stop_retire" => \A r \in Request : ctx[c].work # <<<<"submit", r>>>>
  <2>1. May("off") /\ May("timeout")
    BY <1>1, TimedOut
  <2> QED
    BY <1>1, <2>1, FramesHere DEF May, InCore, StopOK
<1>3. ctx'[c].on /\ ctx'[c].abort
  <2>1. ctx[c].on /\ ctx[c].abort /\ ContextOf(c, ctx[c])
    BY <1>1, TimedOut, ContextHere
  <2>2. PICK kind : ctx' = Dequeue(c, kind)
    BY DEF StopCancelSubmit, StopCancelRetire
  <2>3. CASE ctx[c].pending = <<>>
    BY <2>1, <2>2, <2>3 DEF Dequeue
  <2>4. CASE ctx[c].pending # <<>>
    <3> DEFINE l == RemoveFirst(ctx[c].work, <<kind, Head(ctx[c].pending)>>)
               x == [ctx[c] EXCEPT !.work = l]
    <3>1. ctx' = [ctx EXCEPT ![c] = x]
      BY <2>2, <2>4 DEF Dequeue
    <3> HIDE DEF l
    <3>2. x.on = ctx[c].on /\ x.abort = ctx[c].abort
      BY <2>1 DEF ContextOf, RotContext
    <3> HIDE DEF x
    <3> QED
      BY <2>1, <3>1, <3>2, ContextHere DEF ContextBecomes
  <2> QED
    BY <2>3, <2>4
<1>4. CASE StopCancelSubmit(c)
  <2>1. ctx' = Dequeue(c, "submit") /\ at' = [at EXCEPT ![c] = "stop_retire"]
    BY <1>4 DEF StopCancelSubmit
  <2>2. at'[c] = "stop_retire"
    BY <2>1 DEF RotInv, PlacesOK
  <2>3. /\ \A r \in Request : ctx'[c].work # <<<<"submit", r>>>>
        /\ StopOK(c)' => FramesInv'
    BY <1>1, <2>1, DequeueFrames
  <2> QED
    BY <1>2, <1>3, <2>2, <2>3 DEF StopOK
<1>5. CASE StopCancelRetire(c)
  <2>1. /\ at[c] = "stop_retire"
        /\ ctx' = Dequeue(c, "retire") /\ at' = [at EXCEPT ![c] = "stop_end"]
    BY <1>5 DEF StopCancelRetire
  <2>2. at'[c] = "stop_end"
    BY <2>1 DEF RotInv, PlacesOK
  <2>3. /\ ctx'[c].work \in {<<>>, ctx[c].work}
        /\ \A r \in Request : ctx'[c].work # <<<<"retire", r>>>>
        /\ StopOK(c)' => FramesInv'
    BY <1>1, <2>1, DequeueFrames
  <2>4. ctx'[c].work = <<>>
    <3>1. \/ ctx[c].work = <<>>
          \/ \E r \in Request : ctx[c].work = <<<<"submit", r>>>> \/ ctx[c].work = <<<<"retire", r>>>>
      BY FramesHere DEF JobOK
    <3> QED
      BY <1>2, <2>1, <2>3, <3>1
  <2> QED
    BY <1>2, <1>3, <2>2, <2>3, <2>4 DEF StopOK
<1> QED
  BY <1>4, <1>5

-----------------------------------------------------------------------------
(* The rotator: the worker of a context and the frames.                    *)

\* The worker takes the one work there is.
LEMMA TakenIs ==
  ASSUME RotInv, FramesInv, NEW c \in Ctxs, ctx[c].work # <<>>
  PROVE  LET x == Taken(c)
             r == Head(ctx[c].work)[2]
         IN  /\ ContextOf(c, x) /\ SameStream(ctx[c], x) /\ x.pending = <<r>> /\ x.work = <<>>
             /\ x.req = ctx[c].req /\ InOrder(x) /\ Returned(x) = Returned(ctx[c])
             /\ r \in Request /\ ctx[c].on /\ ctx[c].ready # <<>>
             /\ busy[c] = None /\ InCore(c) = {} /\ ctx[c].pending = <<r>>
             /\ Head(ctx[c].work)[1] = "submit" => ~Retiring(ctx[c])
             /\ Head(ctx[c].work)[1] = "retire" /\ ~ctx[c].abort => Through(c, ctx[c].req[r])
<1> DEFINE x == Taken(c)
<1>1. /\ ContextOf(c, ctx[c]) /\ JobOK(c) /\ InOrder(ctx[c])
      /\ busy[c] = None /\ InCore(c) = {}
      /\ ctx[c].pending = <<>> => ctx[c].work = <<>>
      /\ ctx[c].pending # <<>> => ctx[c].on /\ ctx[c].ready # <<>>
  BY FramesHere, JobIs
<1>2. PICK r \in Request :
        /\ ctx[c].pending = <<r>>
        /\ \/ ctx[c].work = <<<<"submit", r>>>>
           \/ /\ ctx[c].work = <<<<"retire", r>>>>
              /\ ctx[c].abort \/ Through(c, ctx[c].req[r])
  BY <1>1 DEF JobOK
<1>3. PICK kind \in {"submit", "retire"} :
        /\ ctx[c].work = <<<<kind, r>>>>
        /\ kind = "retire" => ctx[c].abort \/ Through(c, ctx[c].req[r])
  BY <1>2
<1>4. <<kind, r>> \in WorkItems
  BY DEF WorkItems
<1>5. Head(ctx[c].work) = <<kind, r>> /\ Tail(ctx[c].work) = <<>>
  BY <1>3, <1>4, SingleList
<1>6. Head(ctx[c].work)[2] = r /\ Head(ctx[c].work)[1] = kind
  BY <1>5
<1>7. ASSUME kind = "submit" PROVE ~Retiring(ctx[c])
  <2>1. ASSUME NEW s, ctx[c].work = <<<<"retire", s>>>> PROVE FALSE
    <3>1. <<<<"submit", r>>>>[1][1] = <<<<"retire", s>>>>[1][1]
      BY <1>3, <1>7, <2>1
    <3> QED
      BY <3>1
  <2> QED
    BY <2>1 DEF Retiring
<1>8. Taken(c) = [ctx[c] EXCEPT !.work = <<>>]
  BY <1>5 DEF Taken
<1>9. /\ ContextOf(c, x) /\ SameStream(ctx[c], x) /\ x.pending = <<r>> /\ x.work = <<>>
      /\ x.req = ctx[c].req
  <2>1. ContextOf(c, x)
    BY <1>2, <1>3, TakenFollows DEF Follows
  <2> QED
    BY <1>1, <1>2, <1>8, <2>1 DEF SameStream, ContextOf, RotContext
<1> HIDE DEF x
<1>10. InOrder(x) /\ Returned(x) = Returned(ctx[c])
  BY <1>1, <1>9, SameFrames DEF SameStream
<1>11. ctx[c].on /\ ctx[c].ready # <<>>
  BY <1>1, <1>2
<1> QED
  BY <1>1, <1>2, <1>3, <1>6, <1>7, <1>9, <1>10, <1>11 DEF x

LEMMA WorkAbortedFrames ==
  ASSUME RotInv, FramesInv, NEW c \in Ctxs, WorkAborted(c)
  PROVE  FramesInv'
<1> DEFINE r == Head(ctx[c].work)[2]
           t == Taken(c)
           x == Retire(t, r)
<1>1. /\ ctx[c].work # <<>> /\ ctx[c].abort /\ ctx' = [ctx EXCEPT ![c] = x]
      /\ UNCHANGED <<scenario, busy, at, entry, hw, lost, rotated>>
  BY DEF WorkAborted, Works, client, history
<1>2. /\ ContextOf(c, t) /\ SameStream(ctx[c], t) /\ t.pending = <<r>> /\ t.work = <<>>
      /\ InOrder(t) /\ Returned(t) = Returned(ctx[c])
      /\ r \in Request /\ ctx[c].on /\ ctx[c].ready # <<>>
      /\ busy[c] = None /\ InCore(c) = {}
  BY <1>1, TakenIs
<1> HIDE DEF t, r
<1>3. x.pending = <<>> /\ x.work = <<>> /\ SameStream(t, x)
  BY <1>2, RetireIs
<1> HIDE DEF x
<1>4. SameStream(ctx[c], x) /\ InOrder(x) /\ Returned(x) = Returned(ctx[c])
  BY <1>2, <1>3, SameFrames DEF SameStream
<1>5. ContextBecomes(c, x) /\ ctx'[c] = x
  BY <1>1, ContextHere DEF ContextBecomes
<1>6. Grows /\ InCore(c)' = {}
  BY <1>1, <1>2 DEF Grows, InCore
<1>7. JobOK(c)'
  <2>1. AtWork(x)
    BY <1>3 DEF AtWork
  <2>2. x.curr >= Returned(x)
    BY <1>4, FramesHere DEF JobOK, SameStream
  <2> QED
    BY <1>1, <1>2, <1>4, <1>5, <1>6, <2>1, <2>2, JobSettled
<1>8. x.on /\ x.abort /\ x.curr = ctx[c].curr /\ x.ready # <<>>
  BY <1>1, <1>2, <1>4 DEF SameStream
<1>9. StopOK(c)'
  <2>1. StopOK(c)
    BY FramesHere
  <2>2. \A s \in Request : x.work # <<<<"submit", s>>>>
    BY <1>3
  <2> QED
    BY <1>1, <1>3, <1>5, <1>6, <1>8, <2>1, <2>2, SameScenario DEF StopOK
<1>10. TimelineOK(c)'
  BY <1>1, <1>2, <1>4, <1>5, <1>6, <1>8, FramesHere, SameScenario DEF TimelineOK
<1>11. \A n \in 1 .. x.next :
          x.status[n] = "done" => n \in 1 .. ctx[c].next /\ ctx[c].status[n] = "done"
  BY <1>4 DEF SameStream
<1> QED
  BY <1>1, <1>5, <1>7, <1>9, <1>10, <1>11, ClientStepFrames

\* The worker gives the frame at the head back, and schedules the next one.
LEMMA HeadReturned ==
  ASSUME RotInv, FramesInv, NEW c \in Ctxs, NEW x, ContextOf(c, x), SameStream(ctx[c], x),
         ctx[c].on, ~ctx[c].abort, ctx[c].ready # <<>>, x.work = <<>>,
         NEW r \in Request, x.pending = <<r>>, x.req[r] = None \/ Completed(x.req[r]),
         Scheduled(c, x), InCore(c) = {}, busy' = [busy EXCEPT ![c] = None],
         UNCHANGED <<scenario, at, hw, lost, rotated>>,
         LET failed == x.req[r] = None \/ Failed(x.req[r])
         IN  /\ failed => ~Clean
             /\ ~failed =>
                  <<c, Returned(ctx[c]) + 1>> \in rotated /\ ctx[c].curr > Returned(ctx[c])
  PROVE  FramesInv'
<1> DEFINE y == Schedule(x)
           failed == x.req[r] = None \/ Failed(x.req[r])
           outcome == IF failed THEN "error" ELSE "done"
<1>1. /\ Drops /\ \A e \in DOMAIN entry \ DOMAIN entry' : e[1] = c
      /\ ctx'[c] = y /\ \A d \in Ctxs \ {c} : ctx'[d] = ctx[d]
  BY ScheduledStep
<1>2. /\ ContextOf(c, ctx[c]) /\ JobOK(c) /\ TimelineOK(c) /\ DoneOK(c) /\ StopOK(c)
      /\ InOrder(ctx[c]) /\ ctx[c].next \in Nat /\ ctx[c].curr \in Nat
  BY ContextHere, ContextFields, FramesHere DEF JobOK
<1>3. /\ InOrder(x) /\ Returned(x) = Returned(ctx[c]) /\ x.on /\ ~x.abort /\ x.ready # <<>>
      /\ x.curr = ctx[c].curr /\ x.next = ctx[c].next /\ x.status = ctx[c].status
  BY <1>2, SameFrames DEF SameStream
<1>4. AtWork(y) /\ GivesBack(x, y, outcome)
  BY <1>3, ScheduleRuns
<1> HIDE DEF y
<1>5. /\ Returned(ctx[c]) \in Nat /\ Returned(ctx[c]) < ctx[c].next
      /\ ctx[c].curr >= Returned(ctx[c])
  BY <1>2, <1>3, NextFrame DEF JobOK
<1>6. /\ InOrder(y) /\ Returned(y) = Returned(ctx[c]) + 1 /\ ~y.abort /\ y.next = ctx[c].next
      /\ ~failed => y.curr = ctx[c].curr
      /\ failed => y.curr >= ctx[c].next
  BY <1>3, <1>4 DEF GivesBack
<1>7. y.curr \in Nat
  BY ScheduleFollows, ContextFields DEF Follows, y
<1>8. y.curr >= Returned(y)
  BY <1>2, <1>5, <1>6, <1>7
<1>9. InCore(c)' = {} /\ busy'[c] = None /\ Grows
  BY <1>1, DropsSets DEF Grows, RotInv, PlacesOK
<1>10. JobOK(c)'
  BY <1>1, <1>4, <1>6, <1>8, <1>9, JobSettled
<1>11. StopOK(c)'
  BY <1>2, StopElsewhere DEF StopOK
<1>12. TimelineOK(c)'
  <2> SUFFICES ASSUME Clean' PROVE y.curr <= Returned(y)
    BY <1>1 DEF TimelineOK
  <2>1. Clean /\ ~failed
    BY <1>9, SameScenario
  <2>2. y.curr = ctx[c].curr /\ ctx[c].curr <= Returned(ctx[c]) + 1
    BY <1>2, <1>5, <1>6, <2>1 DEF TimelineOK
  <2> QED
    BY <1>6, <2>2
<1>13. DoneOK(c)'
  <2> SUFFICES ASSUME NEW n \in 1 .. ctx[c].next, y.status[n] = "done"
               PROVE  <<c, n>> \in rotated
    BY <1>1, <1>6 DEF DoneOK
  <2>1. ctx[c].status[n] = "done" \/ (outcome = "done" /\ n = Returned(ctx[c]) + 1)
    BY <1>3, <1>4 DEF GivesBack
  <2> QED
    BY <1>2, <2>1 DEF DoneOK
<1>14. \A d \in Ctxs \ {c} : busy'[d] = busy[d] /\ at'[d] = at[d]
  BY DEF RotInv, PlacesOK
<1> QED
  BY <1>1, <1>9, <1>10, <1>11, <1>12, <1>13, <1>14, OwnStep DEF FramesOK

LEMMA RetireHandlerFrames ==
  ASSUME RotInv, FramesInv, NEW c \in Ctxs, RetireHandler(c)
  PROVE  FramesInv'
<1> DEFINE r == Head(ctx[c].work)[2]
           x == Taken(c)
           e == ctx[c].req[r]
<1>1. /\ ctx[c].work # <<>> /\ Head(ctx[c].work)[1] = "retire" /\ ~ctx[c].abort
      /\ Scheduled(c, x) /\ UNCHANGED <<scenario, busy, at, hw, lost, rotated>>
  BY DEF RetireHandler, Works, client, history
<1>2. /\ ContextOf(c, x) /\ SameStream(ctx[c], x) /\ x.pending = <<r>> /\ x.work = <<>>
      /\ x.req = ctx[c].req /\ r \in Request /\ ctx[c].on /\ ctx[c].ready # <<>>
      /\ busy[c] = None /\ InCore(c) = {} /\ Through(c, e)
  BY <1>1, TakenIs
<1>3. ContextOf(c, ctx[c]) /\ InOrder(ctx[c])
  BY ContextHere, FramesHere DEF JobOK
<1> HIDE DEF r, x
<1>4. e \in {c} \X Nat
  <2>1. e \in {None} \cup ({c} \X Nat)
    BY <1>2, <1>3, ContextFields
  <2>2. e # None
    BY <1>2, NoneIsNoId DEF Through, RotInv, EntriesOK
  <2> QED
    BY <2>1, <2>2
<1> HIDE DEF e
<1>5. /\ e \in DOMAIN entry /\ entry[e].stage = "done" /\ e # None /\ e[1] = c
      /\ entry[e].frame = Returned(ctx[c]) + 1 /\ ctx[c].curr > Returned(ctx[c])
  <2>1. Head(ctx[c].ready) = Returned(ctx[c]) + 1
    BY <1>2, <1>3, NextFrame
  <2>2. e # None
    BY <1>2, NoneIsNoId DEF Through, RotInv, EntriesOK
  <2> QED
    BY <1>2, <1>4, <2>1, <2>2 DEF Through
<1>6. Completed(e) /\ (Failed(e) <=> entry[e].failed)
  BY <1>5 DEF Completed, Failed
<1>7. /\ Failed(e) => ~Clean
      /\ ~Failed(e) => <<c, Returned(ctx[c]) + 1>> \in rotated
  BY <1>5, <1>6, FramesHere DEF HardwareOK, Rotates
<1>8. x.req[r] = e
  BY <1>2 DEF e
<1>9. busy' = [busy EXCEPT ![c] = None]
  BY <1>1, <1>2 DEF RotInv, PlacesOK
<1>10. LET failed == x.req[r] = None \/ Failed(x.req[r])
       IN  /\ failed => ~Clean
           /\ ~failed =>
                <<c, Returned(ctx[c]) + 1>> \in rotated /\ ctx[c].curr > Returned(ctx[c])
  BY <1>5, <1>7, <1>8
<1> QED
  BY <1>1, <1>2, <1>6, <1>8, <1>9, <1>10, HeadReturned

\* The submit handler begins to wait for the fence of the frame at the head.
LEMMA FenceWaitFrames ==
  ASSUME RotInv, FramesInv, NEW c \in Ctxs, FenceWait(c)
  PROVE  FramesInv'
<1> DEFINE r == Head(ctx[c].work)[2]
           x == Taken(c)
           f == Head(ctx[c].ready)
<1>1. /\ May("fence") /\ ctx[c].work # <<>> /\ Head(ctx[c].work)[1] = "submit" /\ ~ctx[c].abort
      /\ ctx' = [ctx EXCEPT ![c] = x]
      /\ busy' = [busy EXCEPT ![c] = [req |-> r, frame |-> f]]
      /\ UNCHANGED <<scenario, at, entry, hw, lost, rotated>>
  BY DEF FenceWait, Works, client, history
<1>2. /\ SameStream(ctx[c], x) /\ x.pending = <<r>> /\ x.work = <<>>
      /\ InOrder(x) /\ Returned(x) = Returned(ctx[c])
      /\ r \in Request /\ ctx[c].on /\ ctx[c].ready # <<>>
      /\ busy[c] = None /\ InCore(c) = {} /\ ~Retiring(ctx[c])
  BY <1>1, TakenIs
<1> HIDE DEF r, x
<1>3. ContextBecomes(c, x) /\ ctx'[c] = x
  BY <1>1, ContextHere DEF ContextBecomes
<1>4. /\ busy'[c] = [req |-> r, frame |-> f]
      /\ \A d \in Ctxs \ {c} : busy'[d] = busy[d] /\ at'[d] = at[d]
  BY <1>1 DEF RotInv, PlacesOK
<1> HIDE DEF f
<1>5. busy'[c].req = r /\ busy'[c].frame = f
  BY <1>4
<1>6. Drops /\ Grows /\ InCore(c)' = {}
  BY <1>1, <1>2, CoreUntouched DEF Grows, InCore
<1>7. /\ x.on /\ ~x.abort /\ x.ready = ctx[c].ready /\ x.ready # <<>> /\ x.curr = ctx[c].curr
      /\ x.next = ctx[c].next /\ x.status = ctx[c].status
  BY <1>1, <1>2 DEF SameStream
<1>8. JobOK(c)'
  <2>1. x.curr >= Returned(x)
    BY <1>2, <1>7, FramesHere DEF JobOK
  <2>2. May("fence")'
    BY <1>1 DEF May
  <2>3. OnFrame(x, r, f)
    BY <1>2, <1>7 DEF OnFrame, f
  <2> QED
    BY <1>2, <1>3, <1>5, <1>6, <1>7, <2>1, <2>2, <2>3 DEF JobOK
<1>9. StopOK(c)'
  BY <1>1, FramesHere, StopElsewhere DEF StopOK
<1>10. TimelineOK(c)'
  <2>1. Clean => ctx[c].curr <= Returned(ctx[c])
    BY <1>1, <1>2, FramesHere DEF TimelineOK
  <2> QED
    BY <1>2, <1>3, <1>6, <1>7, <2>1, SameScenario DEF TimelineOK
<1>11. DoneOK(c)'
  BY <1>3, <1>6, <1>7, FramesHere, DoneStays
<1> QED
  BY <1>1, <1>3, <1>4, <1>6, <1>8, <1>9, <1>10, <1>11, OwnStep DEF FramesOK, ContextBecomes, Drops

\* What the submit handler goes on with is the frame at the head.
LEMMA GoingFrames ==
  ASSUME RotInv, FramesInv, NEW c \in Ctxs, NEW g \in Going(c)
  PROVE  /\ ContextOf(c, g.x) /\ SameStream(ctx[c], g.x)
         /\ g.x.pending = <<g.req>> /\ g.x.work = <<>> /\ g.x.req = ctx[c].req
         /\ g.req \in Request /\ g.frame = Head(ctx[c].ready) /\ g.frame # None
         /\ ctx[c].on /\ ctx[c].ready # <<>> /\ InCore(c) = {}
         /\ busy[c] = None => ~ctx[c].abort /\ ~Retiring(ctx[c])
         /\ busy[c] # None => May("fence")
<1>1. /\ ContextOf(c, ctx[c]) /\ JobOK(c)
      /\ ctx[c].pending # <<>> => ctx[c].on /\ ctx[c].ready # <<>>
      /\ busy[c] # None =>
           /\ ctx[c].work = <<>> /\ InCore(c) = {} /\ May("fence")
           /\ busy[c].req \in Request /\ ctx[c].pending = <<busy[c].req>>
           /\ busy[c].frame = Head(ctx[c].ready)
  BY FramesHere, JobIs
<1>2. ctx[c].ready # <<>> => Head(ctx[c].ready) # None
  <2>1. ctx[c].ready # <<>> => Head(ctx[c].ready) \in Nat
    BY <1>1, ContextFields, RangeTail
  <2> QED
    BY <2>1, RotAssumption
<1>3. CASE busy[c] # None
  <2>1. g = [x |-> ctx[c], req |-> busy[c].req, frame |-> busy[c].frame]
    BY <1>3 DEF Going
  <2>2. g.x = ctx[c] /\ g.req = busy[c].req /\ g.frame = busy[c].frame
    BY <2>1
  <2>3. ctx[c].on /\ ctx[c].ready # <<>>
    <3>1. busy[c].req \in Request /\ ctx[c].pending = <<busy[c].req>>
      BY <1>1, <1>3
    <3>2. ctx[c].pending # <<>>
      BY <3>1, SingleList
    <3> QED
      BY <1>1, <3>2
  <2> QED
    BY <1>1, <1>2, <1>3, <2>2, <2>3 DEF SameStream
<1>4. CASE busy[c] = None
  <2> DEFINE f == IF ctx[c].ready = <<>> THEN None ELSE Head(ctx[c].ready)
             r == Head(ctx[c].work)[2]
  <2>1. /\ ctx[c].work # <<>> /\ Head(ctx[c].work)[1] = "submit" /\ ~ctx[c].abort
        /\ g = [x |-> Taken(c), req |-> r, frame |-> f]
    BY <1>4 DEF Going, Works
  <2>2. LET x == Taken(c)
        IN  /\ ContextOf(c, x) /\ SameStream(ctx[c], x) /\ x.pending = <<r>> /\ x.work = <<>>
            /\ x.req = ctx[c].req /\ r \in Request /\ ctx[c].on /\ ctx[c].ready # <<>>
            /\ InCore(c) = {} /\ ~Retiring(ctx[c])
    BY <2>1, TakenIs
  <2>3. f = Head(ctx[c].ready)
    BY <2>2
  <2> HIDE DEF f, r
  <2>4. g.x = Taken(c) /\ g.req = r /\ g.frame = f
    BY <2>1
  <2> QED
    BY <1>2, <1>4, <2>1, <2>2, <2>3, <2>4
<1> QED
  BY <1>3, <1>4

LEMMA ReqOnly ==
  ASSUME NEW c, NEW x, ContextOf(c, x), NEW r \in Request, NEW id \in {None} \cup ({c} \X Nat)
  PROVE  LET y == WithReq(x, r, id)
         IN  /\ ContextOf(c, y) /\ SameStream(x, y) /\ y.pending = x.pending /\ y.work = x.work
             /\ y.req[r] = id
<1> DEFINE m == [x.req EXCEPT ![r] = id]
<1>1. ContextOf(c, WithReq(x, r, id))
  BY ReqAssigned DEF Follows
<1>2. m[r] = id
  BY ContextFields
<1>3. WithReq(x, r, id) = [x EXCEPT !.req = m]
  BY DEF WithReq
<1> HIDE DEF m
<1>4. /\ WithReq(x, r, id).req = m /\ SameStream(x, WithReq(x, r, id))
      /\ WithReq(x, r, id).pending = x.pending /\ WithReq(x, r, id).work = x.work
  BY <1>3 DEF SameStream, ContextOf, RotContext
<1> QED
  BY <1>1, <1>2, <1>4

LEMMA SubmitFailsFrames ==
  ASSUME RotInv, FramesInv, NEW c \in Ctxs, SubmitFails(c)
  PROVE  FramesInv'
<1>1. PICK g \in Going(c) :
        /\ g.frame = None \/ (May("bad") /\ busy[c] # None) \/ May("hw")
        /\ Scheduled(c, [g.x EXCEPT !.req[g.req] = None])
  BY DEF SubmitFails
<1> DEFINE x == WithReq(g.x, g.req, None)
<1>2. Scheduled(c, x)
  BY <1>1 DEF WithReq
<1>3. /\ busy' = [busy EXCEPT ![c] = None]
      /\ UNCHANGED <<scenario, at, hw, lost, rotated>>
  BY DEF SubmitFails, client, history
<1>4. /\ ContextOf(c, g.x) /\ SameStream(ctx[c], g.x)
      /\ g.x.pending = <<g.req>> /\ g.x.work = <<>>
      /\ g.req \in Request /\ g.frame # None
      /\ ctx[c].on /\ ctx[c].ready # <<>> /\ InCore(c) = {}
  BY GoingFrames
<1>5. /\ ContextOf(c, x) /\ SameStream(ctx[c], x) /\ x.pending = <<g.req>> /\ x.work = <<>>
      /\ x.req[g.req] = None
  <2>1. None \in {None} \cup ({c} \X Nat)
    OBVIOUS
  <2>2. /\ ContextOf(c, x) /\ SameStream(g.x, x) /\ x.pending = g.x.pending
        /\ x.work = g.x.work /\ x.req[g.req] = None
    BY <1>4, <2>1, ReqOnly
  <2> HIDE DEF x
  <2> QED
    BY <1>4, <2>2 DEF SameStream
<1>6. ~Clean
  BY <1>1, <1>4 DEF Clean
<1> HIDE DEF x
<1>7. CASE ~ctx[c].abort
  <2>1. LET failed == x.req[g.req] = None \/ Failed(x.req[g.req])
        IN  /\ failed => ~Clean
            /\ ~failed =>
                 <<c, Returned(ctx[c]) + 1>> \in rotated /\ ctx[c].curr > Returned(ctx[c])
    BY <1>5, <1>6
  <2> QED
    BY <1>2, <1>3, <1>4, <1>5, <1>7, <2>1, HeadReturned
<1>8. CASE ctx[c].abort
  <2>1. Outcome(x) = "none"
    BY <1>5, <1>8 DEF Outcome, SameStream
  <2>2. Schedule(x) = x
    BY <2>1 DEF Schedule
  <2>3. /\ Drops /\ \A e \in DOMAIN entry \ DOMAIN entry' : e[1] = c
        /\ ctx'[c] = x /\ \A d \in Ctxs \ {c} : ctx'[d] = ctx[d]
    BY <1>2, <1>5, <2>2, ScheduledStep
  <2>4. Grows /\ InCore(c)' = {} /\ busy'[c] = None
    BY <1>3, <1>4, <2>3, DropsSets DEF Grows, RotInv, PlacesOK
  <2>5. /\ JobOK(c) /\ StopOK(c) /\ DoneOK(c)
    BY FramesHere
  <2>6. /\ InOrder(x) /\ Returned(x) = Returned(ctx[c]) /\ x.curr = ctx[c].curr
        /\ x.on /\ x.abort /\ x.ready # <<>> /\ x.next = ctx[c].next /\ x.status = ctx[c].status
    BY <1>4, <1>5, <1>8, <2>5, SameFrames DEF SameStream, JobOK
  <2>7. JobOK(c)'
    <3>1. AtWork(x)
      BY <1>4, <1>5, <2>6 DEF AtWork
    <3>2. x.curr >= Returned(x)
      BY <2>5, <2>6 DEF JobOK
    <3> QED
      BY <2>3, <2>4, <2>6, <3>1, <3>2, JobSettled
  <2>8. StopOK(c)'
    <3>1. \A r \in Request : x.work # <<<<"submit", r>>>>
      BY <1>5
    <3> QED
      BY <1>3, <1>5, <2>3, <2>4, <2>5, <2>6, <3>1, SameScenario DEF StopOK
  <2>9. TimelineOK(c)'
    BY <1>6, <2>4, SameScenario DEF TimelineOK
  <2>10. DoneOK(c)'
    BY <2>3, <2>4, <2>5, <2>6, DoneStays
  <2>11. \A d \in Ctxs \ {c} : busy'[d] = busy[d] /\ at'[d] = at[d]
    BY <1>3 DEF RotInv, PlacesOK
  <2> QED
    BY <1>3, <2>3, <2>4, <2>7, <2>8, <2>9, <2>10, <2>11, OwnStep DEF FramesOK
<1> QED
  BY <1>7, <1>8

\* The submit handler hands the frame at the head to the core.
LEMMA SubmitHandlerFrames ==
  ASSUME RotInv, Orderly, FramesInv, NEW c \in Ctxs, SubmitHandler(c)
  PROVE  FramesInv'
<1>0. PICK e : e = <<c, made[c] + 1>>
  OBVIOUS
<1>1. PICK g \in Going(c) :
        /\ ctx' = [ctx EXCEPT ![c] = [g.x EXCEPT !.req[g.req] = e]]
        /\ entry' = [d \in DOMAIN entry \cup {e} |->
                        IF d = e THEN NewEntry(g.req, g.frame) ELSE entry[d]]
  <2>1. PICK g \in Going(c) :
          LET d == <<c, made[c] + 1>>
          IN  /\ g.frame # None
              /\ ctx' = [ctx EXCEPT ![c] = [g.x EXCEPT !.req[g.req] = d]]
              /\ entry' = [b \in DOMAIN entry \cup {d} |->
                              IF b = d THEN NewEntry(g.req, g.frame) ELSE entry[b]]
              /\ commitq' = Append(commitq, d)
    BY DEF SubmitHandler
  <2>2. ctx' = [ctx EXCEPT ![c] = [g.x EXCEPT !.req[g.req] = e]]
    BY <1>0, <2>1
  <2>3. entry' = [d \in DOMAIN entry \cup {e} |->
                     IF d = e THEN NewEntry(g.req, g.frame) ELSE entry[d]]
    BY <1>0, <2>1
  <2> QED
    BY <2>2, <2>3
<1> DEFINE x == WithReq(g.x, g.req, e)
           n == NewEntry(g.req, g.frame)
<1>2. /\ locked = None /\ busy' = [busy EXCEPT ![c] = None]
      /\ UNCHANGED <<scenario, at, hw, lost, rotated>>
  BY DEF SubmitHandler, client
<1>3. /\ ContextOf(c, g.x) /\ SameStream(ctx[c], g.x)
      /\ g.x.pending = <<g.req>> /\ g.x.work = <<>>
      /\ g.req \in Request /\ g.frame = Head(ctx[c].ready)
      /\ ctx[c].on /\ ctx[c].ready # <<>> /\ InCore(c) = {}
      /\ busy[c] = None => ~ctx[c].abort /\ ~Retiring(ctx[c])
      /\ busy[c] # None => May("fence")
  BY GoingFrames
<1>4. made[c] \in Nat /\ e \in {c} \X Nat /\ e[1] = c /\ e \notin DOMAIN entry
  <2>1. made[c] \in Nat
    BY DEF RotInv, EntriesOK
  <2>2. e[1] = c /\ e[2] = made[c] + 1 /\ e \in {c} \X Nat
    BY <1>0, <2>1
  <2> QED
    BY <2>1, <2>2 DEF RotInv, EntriesOK
<1>5. ctx' = [ctx EXCEPT ![c] = x]
  BY <1>1 DEF WithReq
<1>6. /\ ContextOf(c, x) /\ SameStream(ctx[c], x) /\ x.pending = <<g.req>> /\ x.work = <<>>
      /\ x.req[g.req] = e
  <2>1. /\ ContextOf(c, x) /\ SameStream(g.x, x) /\ x.pending = g.x.pending
        /\ x.work = g.x.work /\ x.req[g.req] = e
    BY <1>3, <1>4, ReqOnly
  <2> HIDE DEF x
  <2> QED
    BY <1>3, <2>1 DEF SameStream
<1> HIDE DEF x
<1>7. n.req = g.req /\ n.frame = g.frame /\ n.stage = "queued" /\ ~n.failed
  BY DEF NewEntry
<1> HIDE DEF n
<1>8. /\ DOMAIN entry' = DOMAIN entry \cup {e} /\ entry'[e] = n
      /\ \A d \in DOMAIN entry : entry'[d] = entry[d]
  BY <1>1, <1>4 DEF n
<1>9. ctx'[c] = x /\ \A d \in Ctxs \ {c} : ctx'[d] = ctx[d]
  BY <1>5, ContextHere DEF ContextBecomes
<1>10. busy'[c] = None /\ \A d \in Ctxs \ {c} : busy'[d] = busy[d]
  BY <1>2 DEF RotInv, PlacesOK
<1>11. Grows /\ JobOK(c) /\ StopOK(c) /\ TimelineOK(c) /\ DoneOK(c) /\ HardwareOK
  BY <1>2, FramesHere DEF Grows
<1>12. /\ InOrder(x) /\ Returned(x) = Returned(ctx[c]) /\ x.curr = ctx[c].curr
       /\ x.on /\ x.ready = ctx[c].ready /\ x.next = ctx[c].next /\ x.status = ctx[c].status
       /\ x.abort = ctx[c].abort
  BY <1>3, <1>6, <1>11, SameFrames DEF SameStream, JobOK
<1>13. InCore(c)' = {e}
  BY <1>3, <1>4, <1>7, <1>8 DEF InCore
<1>14. JobOK(c)'
  <2>1. OnFrame(x, g.req, g.frame) /\ x.curr >= Returned(x) /\ x.ready # <<>>
    BY <1>3, <1>6, <1>11, <1>12 DEF OnFrame, JobOK
  <2> QED
    BY <1>3, <1>6, <1>7, <1>8, <1>9, <1>10, <1>12, <1>13, <2>1 DEF JobOK
<1>15. StopOK(c)'
  <2>1. at[c] \notin {"stop_cancel", "stop_submit", "stop_retire", "stop_end"}
    <3>1. CASE busy[c] = None
      BY <1>3, <1>11, <3>1 DEF StopOK
    <3>2. CASE busy[c] # None
      BY <3>2, TimedOut
    <3> QED
      BY <3>1, <3>2
  <2> QED
    BY <1>2, <1>9, <1>11, <1>12, <2>1, SameScenario DEF StopOK
<1>16. TimelineOK(c)'
  <2>1. Clean => ctx[c].curr <= Returned(ctx[c])
    BY <1>3, <1>11 DEF TimelineOK
  <2> QED
    BY <1>9, <1>11, <1>12, <2>1, SameScenario DEF TimelineOK
<1>17. DoneOK(c)'
  BY <1>9, <1>11, <1>12, DoneStays
<1>18. ASSUME NEW d \in Ctxs, d # c PROVE FramesOK(d)'
  <2>1. InCore(d)' = InCore(d)
    BY <1>4, <1>8, <1>18 DEF InCore
  <2>2. \A b \in InCore(d) : entry'[b] = entry[b]
    BY <1>8 DEF InCore
  <2>3. Aside(d)
    BY <1>2, <1>8, <1>9, <1>10, <1>18, <2>1, <2>2 DEF Aside
  <2> QED
    BY <1>11, <2>3, AsideKeeps DEF FramesInv
<1>19. HardwareOK'
  <2>1. ASSUME NEW d \in DOMAIN entry' PROVE Rotates(d)'
    BY <1>2, <1>7, <1>8, <1>11, <2>1 DEF HardwareOK, Rotates
  <2>2. Clean' => \A d \in DOMAIN entry' : ~entry'[d].failed /\ entry'[d].stage # "failing"
    BY <1>7, <1>8, <1>11, SameScenario DEF HardwareOK
  <2> QED
    BY <1>2, <1>11, <2>1, <2>2 DEF HardwareOK
<1>20. \A d \in Ctxs : FramesOK(d)'
  BY <1>14, <1>15, <1>16, <1>17, <1>18 DEF FramesOK
<1> QED
  BY <1>19, <1>20 DEF FramesInv

-----------------------------------------------------------------------------
(* The rotator: the core and the frames.                                   *)

\* An entry of c is released.
LEMMA LeaverStep ==
  ASSUME RotInv, FramesInv, NEW e, Leaves(e), Grows,
         \A d \in Ctxs \ {e[1]} : ctx'[d] = ctx[d] /\ busy'[d] = busy[d] /\ at'[d] = at[d],
         FramesOK(e[1])', HardwareOK'
  PROVE  FramesInv'
<1>1. ASSUME NEW d \in Ctxs, d # e[1] PROVE FramesOK(d)'
  <2>1. \A b \in DOMAIN entry : b[1] = d => b \in DOMAIN entry' /\ entry'[b] = entry[b]
    BY <1>1 DEF Leaves
  <2>2. \A b \in DOMAIN entry' : b[1] = d => b \in DOMAIN entry
    BY DEF Leaves
  <2>3. InCore(d)' = InCore(d)
    BY <2>1, <2>2 DEF InCore
  <2>4. \A b \in InCore(d) : entry'[b].req = entry[b].req /\ entry'[b].frame = entry[b].frame
    BY <2>1 DEF InCore
  <2>5. Aside(d)
    BY <1>1, <2>1, <2>3, <2>4 DEF Aside
  <2> QED
    BY <2>5, AsideKeeps DEF FramesInv
<1>2. \A d \in Ctxs : FramesOK(d)'
  BY <1>1
<1> QED
  BY <1>2 DEF FramesInv

\* What is known of an entry in the core.
LEMMA CoreEntry ==
  ASSUME RotInv, FramesInv, NEW e \in DOMAIN entry, entry[e].stage # "done"
  PROVE  LET c == e[1]
             r == entry[e].req
         IN  /\ c \in Ctxs /\ e \in InCore(c) /\ InCore(c) = {e}
             /\ ctx[c].work = <<>> /\ busy[c] = None /\ ctx[c].on /\ ctx[c].ready # <<>>
             /\ r \in Request /\ ctx[c].pending = <<r>> /\ ctx[c].req[r] = e
             /\ entry[e].frame = Head(ctx[c].ready) /\ entry[e] \in RotEntry
             /\ InOrder(ctx[c]) /\ ctx[c].curr >= Returned(ctx[c]) /\ ContextOf(c, ctx[c])
             /\ Clean => ctx[c].curr = Returned(ctx[c])
             /\ Returned(ctx[c]) \in Nat /\ ctx[c].curr \in Nat
             /\ at[c] \notin {"stop_submit", "stop_retire", "stop_end"}
<1> DEFINE c == e[1]
<1>1. c \in Ctxs /\ entry[e] \in RotEntry
  BY DEF RotInv, EntriesOK, Ids
<1>2. e \in InCore(c)
  BY DEF InCore
<1>3. /\ ContextOf(c, ctx[c]) /\ InOrder(ctx[c]) /\ ctx[c].curr >= Returned(ctx[c])
      /\ ctx[c].pending # <<>> => ctx[c].on /\ ctx[c].ready # <<>>
      /\ InCore(c) = {e} /\ ctx[c].work = <<>> /\ busy[c] = None
      /\ entry[e].req \in Request /\ ctx[c].pending = <<entry[e].req>>
      /\ entry[e].frame = Head(ctx[c].ready) /\ ctx[c].req[entry[e].req] = e
  BY <1>1, <1>2, FramesHere, JobIs
<1>4. ctx[c].on /\ ctx[c].ready # <<>>
  BY <1>3, SingleList
<1>5. Returned(ctx[c]) \in Nat /\ ctx[c].curr \in Nat
  BY <1>3, ContextFields, NextFrame
<1>6. Clean => ctx[c].curr = Returned(ctx[c])
  <2>1. Clean => ctx[c].curr <= Returned(ctx[c])
    BY <1>1, <1>2, FramesHere DEF TimelineOK
  <2> QED
    BY <1>3, <1>5, <2>1
<1>7. at[c] \notin {"stop_submit", "stop_retire", "stop_end"}
  BY <1>1, <1>2, FramesHere DEF StopOK
<1> QED
  BY <1>1, <1>2, <1>3, <1>4, <1>5, <1>6, <1>7

\* The end of both handlers: e was rotated or is marked as failed.
LEMMA EndFrames ==
  ASSUME RotInv, FramesInv, NEW e \in DOMAIN entry, entry[e].stage # "done",
         NEW failed \in BOOLEAN, NEW s, End(e, failed, s),
         Clean => ~failed,
         ~failed /\ ~entry[e].failed => <<e[1], entry[e].frame>> \in rotated,
         UNCHANGED <<scenario, busy, at, lost, rotated>>,
         hw' \in Seq(Ids), Range(hw) \subseteq Range(hw') \cup {e}
  PROVE  FramesInv'
<1> DEFINE c == e[1]
           r == entry[e].req
           w == <<"retire", r>>
           y == [ctx[c] EXCEPT !.curr = ctx[c].curr + 1]
           x == [y EXCEPT !.work = <<w>>]
<1>1. /\ c \in Ctxs /\ e \in InCore(c) /\ InCore(c) = {e}
      /\ ctx[c].work = <<>> /\ busy[c] = None /\ ctx[c].on /\ ctx[c].ready # <<>>
      /\ r \in Request /\ ctx[c].pending = <<r>> /\ ctx[c].req[r] = e
      /\ entry[e].frame = Head(ctx[c].ready) /\ entry[e] \in RotEntry
      /\ InOrder(ctx[c]) /\ ctx[c].curr >= Returned(ctx[c]) /\ ContextOf(c, ctx[c])
      /\ Clean => ctx[c].curr = Returned(ctx[c])
      /\ Returned(ctx[c]) \in Nat /\ ctx[c].curr \in Nat
      /\ at[c] \notin {"stop_submit", "stop_retire", "stop_end"}
  BY CoreEntry
<1>2. /\ DOMAIN entry' = DOMAIN entry
      /\ \A d \in DOMAIN entry \ {e} : entry'[d] = entry[d]
      /\ entry'[e] = [entry[e] EXCEPT !.stage = "done", !.failed = entry[e].failed \/ failed]
  <2>1. entry' = [entry EXCEPT ![e].stage = "done", ![e].failed = @ \/ failed]
    BY DEF End
  <2> QED
    BY <1>1, <2>1 DEF RotEntry
<1>3. /\ entry'[e].stage = "done" /\ entry'[e].frame = entry[e].frame
      /\ entry'[e].failed = (entry[e].failed \/ failed) /\ entry'[e] \in RotEntry
  <2>1. (entry[e].failed \/ failed) \in BOOLEAN /\ "done" \in RotStages
    BY <1>1 DEF RotEntry, RotStages
  <2> QED
    BY <1>1, <1>2, <2>1 DEF RotEntry
<1>4. Leaves(e)
  BY <1>2, <1>3 DEF Leaves
<1>5. ctx' = [ctx EXCEPT ![c] = x]
  <2>1. ctx' = [ctx EXCEPT ![c] = Enqueue(SignalOutput(ctx[c]), w)]
    BY DEF End
  <2>2. SignalOutput(ctx[c]) = y
    BY <1>1 DEF SignalOutput, ContextOf, RotContext
  <2>3. y.work = <<>>
    BY <1>1 DEF ContextOf, RotContext
  <2>4. w \in WorkItems
    BY <1>1 DEF WorkItems
  <2>5. Enqueue(y, w) = x
    <3>1. <<>> \in Seq(WorkItems) /\ Append(<<>>, w) = <<w>>
      BY <2>4, SingleList
    <3>2. Range(y.work) = {}
      BY <2>3, <3>1, RangeSeq
    <3> HIDE DEF y, w
    <3> QED
      BY <2>3, <3>1, <3>2 DEF Enqueue
  <2> HIDE DEF x, y
  <2> QED
    BY <2>1, <2>2, <2>5
<1>6. /\ x.pending = <<r>> /\ x.work = <<<<"retire", r>>>> /\ x.curr = ctx[c].curr + 1
      /\ x.req[r] = e /\ x.on /\ x.ready = ctx[c].ready /\ x.next = ctx[c].next
      /\ x.status = ctx[c].status /\ x.abort = ctx[c].abort
  BY <1>1 DEF ContextOf, RotContext
<1> HIDE DEF x
<1>7. ctx'[c] = x /\ \A d \in Ctxs \ {c} : ctx'[d] = ctx[d]
  BY <1>1, <1>5, ContextHere DEF ContextBecomes
<1>8. Returned(x) = Returned(ctx[c]) /\ InOrder(x)
  BY <1>1, <1>6, SameFrames
<1>9. InCore(c)' = {} /\ Grows
  <2>1. \A d \in DOMAIN entry : d[1] = c /\ d # e => entry[d].stage = "done"
    BY <1>1 DEF InCore
  <2>2. ASSUME NEW d \in DOMAIN entry', d[1] = c PROVE entry'[d].stage = "done"
    <3>1. CASE d = e
      BY <1>3, <3>1
    <3>2. CASE d # e
      BY <1>2, <2>1, <2>2, <3>2
    <3> QED
      BY <3>1, <3>2
  <2>3. InCore(c)' = {}
    BY <2>2 DEF InCore
  <2>4. Grows
    BY DEF Grows
  <2> QED
    BY <2>3, <2>4
<1>10. JobOK(c)'
  <2>1. PICK a : a = r
    OBVIOUS
  <2>2. PICK y1 : y1 = x
    OBVIOUS
  <2>3. /\ a \in Request /\ y1.pending = <<a>> /\ y1.work = <<<<"retire", a>>>> /\ y1.req[a] = e
        /\ y1.on /\ y1.ready # <<>> /\ InOrder(y1) /\ y1.curr > Returned(y1)
        /\ y1.curr >= Returned(y1)
    BY <1>1, <1>6, <1>8, <2>1, <2>2
  <2>4. ctx'[c] = y1 /\ busy'[c] = None /\ InCore(c)' = {}
    BY <1>1, <1>7, <1>9, <2>2
  <2>5. e \in DOMAIN entry' /\ entry'[e].stage = "done" /\ entry'[e].frame = Head(y1.ready)
    BY <1>1, <1>2, <1>3, <1>6, <2>2
  <2>6. Through(c, y1.req[a])'
    BY <2>3, <2>4, <2>5 DEF Through
  <2> HIDE DEF c
  <2> QED
    BY <2>3, <2>4, <2>6 DEF JobOK
<1>11. StopOK(c)'
  BY <1>1, <1>6, <1>7, <1>9, FramesHere, SameScenario DEF StopOK
<1>12. TimelineOK(c)'
  <2> SUFFICES ASSUME Clean'
               PROVE  /\ x.curr = Returned(x) + 1 /\ InCore(c)' = {} /\ busy'[c] = None
                      /\ x.on /\ x.ready # <<>> /\ Retiring(x)
    BY <1>7 DEF TimelineOK
  <2>1. ctx[c].curr = Returned(ctx[c])
    BY <1>1, <1>9, SameScenario
  <2>2. Retiring(x)
    BY <1>1, <1>6 DEF Retiring
  <2> QED
    BY <1>1, <1>6, <1>8, <1>9, <2>1, <2>2
<1>13. DoneOK(c)'
  BY <1>1, <1>6, <1>7, <1>9, FramesHere, DoneStays
<1>14. HardwareOK'
  <2>0. HardwareOK
    BY DEF FramesInv
  <2>1. ASSUME NEW d \in DOMAIN entry' PROVE Rotates(d)'
    <3>1. CASE d = e
      BY <1>3, <3>1 DEF Rotates
    <3>2. CASE d # e
      BY <1>2, <2>0, <3>2 DEF HardwareOK, Rotates
    <3> QED
      BY <3>1, <3>2
  <2>2. Clean' => \A d \in DOMAIN entry' : ~entry'[d].failed /\ entry'[d].stage # "failing"
    <3> SUFFICES ASSUME Clean', NEW d \in DOMAIN entry'
                 PROVE  ~entry'[d].failed /\ entry'[d].stage # "failing"
      OBVIOUS
    <3>1. Clean
      BY <1>9, SameScenario
    <3>2. ~entry[d].failed /\ entry[d].stage # "failing" /\ d \in DOMAIN entry /\ ~failed
      BY <1>2, <2>0, <3>1 DEF HardwareOK
    <3>3. CASE d = e
      BY <1>3, <3>2, <3>3
    <3>4. CASE d # e
      BY <1>2, <3>2, <3>4
    <3> QED
      BY <3>3, <3>4
  <2> QED
    BY <2>1, <2>2 DEF HardwareOK
<1>15. FramesOK(c)'
  BY <1>10, <1>11, <1>12, <1>13 DEF FramesOK
<1> HIDE DEF c
<1> QED
  BY <1>4, <1>7, <1>9, <1>14, <1>15, LeaverStep DEF c

LEMMA CommitEndsFrames ==
  ASSUME RotInv, FramesInv, CommitFails \/ NoSlot \/ KickoffCancelled
  PROVE  FramesInv'
<1>1. PICK e \in Committable :
        /\ \E s : End(e, TRUE, s)
        /\ May("hw") \/ entry[e].stage = "failing" \/ slots.active > Cardinality(Holding)
  BY DEF CommitFails, NoSlot, KickoffCancelled, Committable
<1>2. UNCHANGED <<scenario, busy, at, lost, rotated, hw>>
  BY DEF CommitFails, NoSlot, KickoffCancelled, client, history
<1>3. e \in DOMAIN entry /\ entry[e].stage # "done"
  BY CommittableIs
<1>4. ~Clean
  <2> SUFFICES ASSUME Clean PROVE FALSE
    OBVIOUS
  <2>1. ~May("hw") /\ entry[e].stage # "failing" /\ lost = {}
    BY <1>3, FramesHere DEF Clean, FramesInv, HardwareOK
  <2>2. slots.active <= Cardinality(Holding) /\ slots.active \in 0 .. MaxActive
    <3>1. Holding \cup lost = Holding
      BY <2>1
    <3> QED
      BY <3>1 DEF RotInv, SlotsOK
  <2>3. Cardinality(Holding) \in Nat
    BY CoreSets, FS_CardinalityType DEF RotInv
  <2> QED
    BY <1>1, <2>1, <2>2, <2>3, RotAssumption
<1>5. hw' \in Seq(Ids) /\ Range(hw) \subseteq Range(hw') \cup {e}
  BY <1>2 DEF FramesInv, HardwareOK
<1>6. PICK s : End(e, TRUE, s)
  BY <1>1
<1> QED
  BY <1>2, <1>3, <1>4, <1>5, <1>6, EndFrames

LEMMA DoneHandlerFrames ==
  ASSUME RotInv, FramesInv, DoneHandler
  PROVE  FramesInv'
<1>1. PICK e : e = finishing
  OBVIOUS
<1>2. /\ finishing # None /\ End(e, e \in Range(hw), PutSlot(slots))
      /\ e \in Range(hw) => May("hw")
      /\ hw' = RemoveFirst(hw, e)
      /\ UNCHANGED <<scenario, busy, at, lost, rotated>>
  BY <1>1 DEF DoneHandler, client, history
<1>3. e \in DOMAIN entry /\ entry[e].stage = "active"
  BY <1>1, <1>2 DEF RotInv, QueuesOK, InStage
<1>4. e \notin Range(hw) => <<e[1], entry[e].frame>> \in rotated
  BY <1>3 DEF FramesInv, HardwareOK, Rotates
<1>5. hw' \in Seq(Ids) /\ Range(hw) \subseteq Range(hw') \cup {e}
  BY <1>2, RangeRemove DEF FramesInv, HardwareOK
<1>6. (e \in Range(hw)) \in BOOLEAN
  OBVIOUS
<1> QED
  BY <1>2, <1>3, <1>4, <1>5, <1>6, EndFrames DEF Clean

\* All contexts are aside.
LEMMA AllAside ==
  ASSUME RotInv, FramesInv, Grows, HardwareOK', \A d \in Ctxs : Aside(d)
  PROVE  FramesInv'
  BY AsideKeeps DEF FramesInv

\* The context is as it was and its entries are, but for what becomes of lost.
LEMMA SameAside ==
  ASSUME NEW d, ctx' = ctx, busy' = busy, at' = at, entry' = entry
  PROVE  Aside(d)
<1>1. InCore(d)' = InCore(d)
  BY DEF InCore
<1>2. \A e \in DOMAIN entry : e \in DOMAIN entry' /\ entry'[e] = entry[e]
  OBVIOUS
<1> QED
  BY <1>1, <1>2 DEF Aside, InCore

\* The workers of the core begin to wait, or a client cancels one's work.
LEMMA QueueFrames ==
  ASSUME RotInv, FramesInv,
         CommitWait \/ DoneWait \/ \E c \in Ctxs : CancelCommitWork(c) \/ CancelDoneWork(c)
  PROVE  FramesInv'
<1>1. UNCHANGED <<scenario, ctx, busy, at, entry, hw, rotated>>
  BY DEF CommitWait, DoneWait, CancelCommitWork, CancelDoneWork, client, history
<1>2. lost \subseteq lost'
  BY DEF CommitWait, DoneWait, CancelCommitWork, CancelDoneWork, history
<1>3. Grows /\ Drops
  BY <1>1, <1>2 DEF Grows, Drops
<1>4. HardwareOK'
  BY <1>1, <1>3, HardwareDrops DEF FramesInv
<1>5. \A d \in Ctxs : Aside(d)
  BY <1>1, SameAside
<1> QED
  BY <1>3, <1>4, <1>5, AllAside

\* An entry begins to be rotated, or will be cancelled.
LEMMA StartsAside ==
  ASSUME RotInv, NEW e, NEW stage, Starts(e, stage), NEW d \in Ctxs,
         ctx' = ctx, busy' = busy, at' = at,
         entry'[e].req = entry[e].req, entry'[e].frame = entry[e].frame
  PROVE  Aside(d)
<1>1. InCore(d)' = InCore(d)
  <2>1. \A b : b \in InCore(d)' <=> b \in InCore(d)
    <3> TAKE b
    <3>1. CASE b = e
      BY <3>1 DEF Starts, InCore
    <3>2. CASE b # e
      BY <3>2 DEF Starts, InCore
    <3> QED
      BY <3>1, <3>2
  <2> QED
    BY <2>1
<1>2. \A b \in InCore(d) : entry'[b].req = entry[b].req /\ entry'[b].frame = entry[b].frame
  <2> TAKE b \in InCore(d)
  <2>1. b \in DOMAIN entry
    BY DEF InCore
  <2>2. b # e => entry'[b] = entry[b]
    BY <2>1 DEF Starts
  <2> QED
    BY <2>2
<1>3. \A b \in DOMAIN entry :
        b[1] = d /\ entry[b].stage = "done" => b \in DOMAIN entry' /\ entry'[b] = entry[b]
  <2> TAKE b \in DOMAIN entry
  <2>1. entry[b].stage = "done" => b # e
    BY DEF Starts
  <2> QED
    BY <2>1 DEF Starts
<1> QED
  BY <1>1, <1>2, <1>3 DEF Aside

LEMMA KickoffFrames ==
  ASSUME RotInv, FramesInv, Kickoff
  PROVE  FramesInv'
<1>1. PICK e \in Committable :
        /\ entry[e].stage = "queued"
        /\ entry' = [entry EXCEPT ![e].stage = "active"] /\ hw' = Append(hw, e)
  BY DEF Kickoff
<1>2. UNCHANGED <<scenario, ctx, busy, at, lost, rotated>>
  BY DEF Kickoff, client, history
<1>3. e \in DOMAIN entry /\ e \in Ids /\ entry[e] \in RotEntry
  BY CommittableIs DEF RotInv, EntriesOK
<1>4. Starts(e, "active")
  BY <1>1, <1>3, StartIs
<1>5. /\ entry'[e].req = entry[e].req /\ entry'[e].frame = entry[e].frame
      /\ entry'[e].failed = entry[e].failed /\ entry'[e].stage = "active"
  BY <1>1, <1>3 DEF RotEntry
<1>6. \A d \in Ctxs : Aside(d)
  BY <1>2, <1>4, <1>5, StartsAside
<1>7. Grows
  BY <1>2 DEF Grows
<1>8. HardwareOK
  BY DEF FramesInv
<1>9. hw' \in Seq(Ids) /\ Range(hw') = Range(hw) \cup {e}
  BY <1>1, <1>3, <1>8, RangeAppend DEF HardwareOK
<1>10. ASSUME NEW d \in DOMAIN entry' PROVE Rotates(d)'
  <2>1. CASE d = e
    BY <1>5, <1>9, <2>1 DEF Rotates
  <2>2. CASE d # e
    <3>1. d \in DOMAIN entry /\ entry'[d] = entry[d]
      BY <1>4, <2>2 DEF Starts
    <3>2. Rotates(d)
      BY <1>8, <3>1 DEF HardwareOK
    <3> QED
      BY <1>2, <1>9, <3>1, <3>2 DEF Rotates
  <2> QED
    BY <2>1, <2>2
<1>11. ASSUME Clean', NEW d \in DOMAIN entry'
       PROVE  ~entry'[d].failed /\ entry'[d].stage # "failing"
  <2>1. Clean
    BY <1>7, <1>11, SameScenario
  <2>2. d \in DOMAIN entry /\ ~entry[d].failed /\ entry[d].stage # "failing"
    BY <1>4, <1>8, <2>1 DEF Starts, HardwareOK
  <2>3. CASE d = e
    BY <1>5, <2>2, <2>3
  <2>4. CASE d # e
    BY <1>4, <2>2, <2>4 DEF Starts
  <2> QED
    BY <2>3, <2>4
<1>12. HardwareOK'
  BY <1>9, <1>10, <1>11 DEF HardwareOK
<1> QED
  BY <1>6, <1>7, <1>12, AllAside

LEMMA KickoffFailsFrames ==
  ASSUME RotInv, FramesInv, KickoffFails
  PROVE  FramesInv'
<1>1. PICK e \in Committable :
        entry[e].stage = "queued" /\ entry' = [entry EXCEPT ![e].stage = "failing"]
  BY DEF KickoffFails
<1>2. UNCHANGED <<scenario, ctx, busy, at, hw, lost, rotated>> /\ May("hw")
  BY DEF KickoffFails, client, history
<1>3. e \in DOMAIN entry /\ entry[e] \in RotEntry
  BY CommittableIs DEF RotInv, EntriesOK
<1>4. Starts(e, "failing")
  BY <1>1, <1>3, StartIs
<1>5. /\ entry'[e].req = entry[e].req /\ entry'[e].frame = entry[e].frame
      /\ entry'[e].stage = "failing"
  BY <1>1, <1>3 DEF RotEntry
<1>6. \A d \in Ctxs : Aside(d)
  BY <1>2, <1>4, <1>5, StartsAside
<1>7. Grows /\ ~Clean'
  BY <1>2 DEF Grows, Clean, May
<1>8. HardwareOK
  BY DEF FramesInv
<1>9. ASSUME NEW d \in DOMAIN entry' PROVE Rotates(d)'
  <2>1. CASE d = e
    BY <1>5, <2>1 DEF Rotates
  <2>2. CASE d # e
    <3>1. d \in DOMAIN entry /\ entry'[d] = entry[d]
      BY <1>4, <2>2 DEF Starts
    <3>2. Rotates(d)
      BY <1>8, <3>1 DEF HardwareOK
    <3> QED
      BY <1>2, <3>1, <3>2 DEF Rotates
  <2> QED
    BY <2>1, <2>2
<1>10. HardwareOK'
  BY <1>2, <1>7, <1>8, <1>9 DEF HardwareOK
<1> QED
  BY <1>6, <1>7, <1>10, AllAside

\* The hardware ends the frame of the entry it is at.
LEMMA HwDoneFrames ==
  ASSUME RotInv, FramesInv, HwDone
  PROVE  FramesInv'
<1>1. PICK e : e = Head(hw)
  OBVIOUS
<1>2. /\ hw # <<>> /\ hw' = Tail(hw)
      /\ rotated' = IF e \in DOMAIN entry THEN rotated \cup {<<e[1], entry[e].frame>>}
                    ELSE rotated
      /\ UNCHANGED <<scenario, ctx, busy, at, entry, lost>>
  BY <1>1 DEF HwDone, client
<1>3. Grows
  BY <1>2 DEF Grows
<1>4. \A d \in Ctxs : Aside(d)
  BY <1>2, SameAside
<1>5. HardwareOK
  BY DEF FramesInv
<1>6. hw' \in Seq(Ids) /\ Range(hw) = {e} \cup Range(hw')
  BY <1>1, <1>2, <1>5, RangeTail DEF HardwareOK
<1>7. ASSUME NEW d \in DOMAIN entry' PROVE Rotates(d)'
  <2>1. d \in DOMAIN entry /\ Rotates(d)
    BY <1>2, <1>5 DEF HardwareOK
  <2>2. rotated \subseteq rotated'
    BY <1>3 DEF Grows
  <2>3. d = e => <<d[1], entry[d].frame>> \in rotated'
    BY <1>2, <2>1
  <2>4. d \in Range(hw) => d = e \/ d \in Range(hw')
    BY <1>6
  <2> QED
    BY <1>2, <2>1, <2>2, <2>3, <2>4 DEF Rotates
<1>8. HardwareOK'
  BY <1>2, <1>3, <1>5, <1>6, <1>7, SameScenario DEF HardwareOK
<1> QED
  BY <1>3, <1>4, <1>8, AllAside

\* A client that cancels has stopped its stream, or works at nothing.
LEMMA CancellingIdle ==
  ASSUME RotInv, FramesInv, NEW c \in Ctxs, Cancelling(c)
  PROVE  ctx[c].work = <<>> \/ ctx[c].abort
<1>1. CASE at[c] = "stop_cancel"
  BY <1>1, FramesHere DEF StopOK
<1>2. CASE at[c] = "close_cancel"
  <2>1. ~ctx[c].on
    BY <1>2 DEF RotInv, PlacesOK
  <2> QED
    BY <2>1, FramesHere, JobIs
<1> QED
  BY <1>1, <1>2 DEF Cancelling

\* An entry that is done is freed.
LEMMA FreedFrames ==
  ASSUME RotInv, FramesInv, NEW c \in Ctxs, Cancelling(c), NEW e \in DOMAIN entry, e[1] = c,
         entry[e].stage = "done", entry' = Without({e}),
         UNCHANGED <<scenario, ctx, busy, at, hw, lost, rotated>>
  PROVE  FramesInv'
<1>1. /\ DOMAIN entry' = DOMAIN entry \ {e}
      /\ \A b \in DOMAIN entry' : entry'[b] = entry[b]
  BY DEF Without
<1>2. Drops /\ Grows
  BY <1>1 DEF Drops, Grows
<1>3. HardwareOK'
  BY <1>2, HardwareDrops DEF FramesInv
<1>4. ASSUME NEW d \in Ctxs PROVE Aside(d)
  <2>1. InCore(d)' = InCore(d)
    BY <1>2, DropsSets
  <2>2. \A b \in InCore(d) : entry'[b].req = entry[b].req /\ entry'[b].frame = entry[b].frame
    BY <1>1 DEF InCore
  <2>3. d = c => ctx[d].work = <<>> \/ ctx[d].abort
    BY CancellingIdle
  <2>4. d # c => \A b \in DOMAIN entry : b[1] = d => b \in DOMAIN entry' /\ entry'[b] = entry[b]
    BY <1>1
  <2> QED
    BY <2>1, <2>2, <2>3, <2>4 DEF Aside
<1> QED
  BY <1>2, <1>3, <1>4, AllAside

LEMMA CancelFreeFrames ==
  ASSUME RotInv, FramesInv, NEW c \in Ctxs, CancelFree(c)
  PROVE  FramesInv'
<1>1. PICK e \in Newest(c) : entry[e].stage = "done" /\ entry' = Without({e})
  BY DEF CancelFree
<1>2. Cancelling(c) /\ UNCHANGED <<scenario, ctx, busy, at, hw, lost, rotated>>
  BY DEF CancelFree, client, history
<1>3. e \in DOMAIN entry /\ e[1] = c
  BY NewestIs
<1> QED
  BY <1>1, <1>2, <1>3, FreedFrames

\* An entry that is not done is released and freed: its request stays, for
\* the client that stops to take it back.
LEMMA CancelledFrames ==
  ASSUME RotInv, FramesInv, NEW c \in Ctxs, Cancelling(c), NEW e \in DOMAIN entry, e[1] = c,
         entry[e].stage # "done", entry' = Without({e}),
         ctx' = [ctx EXCEPT ![c] = SignalOutput(@)],
         UNCHANGED <<scenario, busy, at, hw, lost, rotated>>
  PROVE  FramesInv'
<1> DEFINE x == [ctx[c] EXCEPT !.curr = ctx[c].curr + 1]
<1>1. /\ InCore(c) = {e} /\ ctx[c].work = <<>> /\ busy[c] = None /\ ctx[c].on
      /\ ctx[c].ready # <<>> /\ entry[e].req \in Request /\ ctx[c].pending = <<entry[e].req>>
      /\ InOrder(ctx[c]) /\ ctx[c].curr >= Returned(ctx[c]) /\ ContextOf(c, ctx[c])
      /\ Clean => ctx[c].curr = Returned(ctx[c])
      /\ Returned(ctx[c]) \in Nat /\ ctx[c].curr \in Nat
  BY CoreEntry
<1>2. at[c] = "stop_cancel" /\ ctx[c].abort
  <2>1. at[c] # "close_cancel"
    BY <1>1 DEF RotInv, PlacesOK
  <2> QED
    BY <2>1, FramesHere DEF Cancelling, StopOK
<1>3. /\ DOMAIN entry' = DOMAIN entry \ {e}
      /\ \A d \in DOMAIN entry' : entry'[d] = entry[d]
  BY DEF Without
<1>4. Leaves(e)
  BY <1>3 DEF Leaves
<1>5. ctx' = [ctx EXCEPT ![c] = x]
  <2>1. SignalOutput(ctx[c]) = x
    BY <1>1 DEF SignalOutput, ContextOf, RotContext
  <2> HIDE DEF x
  <2> QED
    BY <2>1
<1>6. /\ x.pending = ctx[c].pending /\ x.work = <<>> /\ x.curr = ctx[c].curr + 1
      /\ x.on /\ x.ready = ctx[c].ready /\ x.next = ctx[c].next
      /\ x.status = ctx[c].status /\ x.abort
  BY <1>1, <1>2 DEF ContextOf, RotContext
<1> HIDE DEF x
<1>7. ctx'[c] = x /\ \A d \in Ctxs \ {c} : ctx'[d] = ctx[d]
  BY <1>1, <1>5, ContextHere DEF ContextBecomes
<1>8. Returned(x) = Returned(ctx[c]) /\ InOrder(x)
  BY <1>1, <1>6, SameFrames
<1>9. InCore(c)' = {} /\ Grows
  <2>1. \A d \in DOMAIN entry' : d[1] = c => entry'[d].stage = "done"
    BY <1>1, <1>3 DEF InCore
  <2>2. InCore(c)' = {}
    BY <2>1 DEF InCore
  <2>3. Grows
    BY DEF Grows
  <2> QED
    BY <2>2, <2>3
<1>10. JobOK(c)'
  <2>1. PICK r \in Request : x.pending = <<r>>
    BY <1>1, <1>6
  <2>2. PICK y : y = x
    OBVIOUS
  <2>3. /\ y.pending = <<r>> /\ y.work = <<>> /\ y.on /\ y.ready # <<>> /\ InOrder(y)
        /\ y.curr >= Returned(y)
    BY <1>1, <1>6, <1>8, <2>1, <2>2
  <2>4. ctx'[c] = y /\ busy'[c] = None /\ InCore(c)' = {}
    BY <1>1, <1>7, <1>9, <2>2
  <2> QED
    BY <2>3, <2>4 DEF JobOK
<1>11. StopOK(c)'
  <2>1. May("off") /\ May("timeout")
    BY <1>2, FramesHere DEF StopOK
  <2>2. May("off")' /\ May("timeout")'
    BY <2>1 DEF May
  <2> QED
    BY <1>2, <1>6, <1>7, <2>2 DEF StopOK
<1>12. TimelineOK(c)'
  <2> SUFFICES ASSUME Clean'
               PROVE  /\ x.curr = Returned(x) + 1 /\ InCore(c)' = {} /\ busy'[c] = None
                      /\ x.on /\ x.ready # <<>> /\ x.abort
    BY <1>7 DEF TimelineOK
  <2>1. ctx[c].curr = Returned(ctx[c])
    BY <1>1, <1>9, SameScenario
  <2> QED
    BY <1>1, <1>6, <1>8, <1>9, <2>1
<1>13. DoneOK(c)'
  BY <1>6, <1>7, <1>9, FramesHere, DoneStays
<1>14. HardwareOK'
  <2>1. HardwareOK
    BY DEF FramesInv
  <2>2. \A d \in DOMAIN entry' : d \in DOMAIN entry /\ Rotates(d)'
    BY <1>3, <2>1 DEF HardwareOK, Rotates
  <2>3. Clean' => \A d \in DOMAIN entry' : ~entry'[d].failed /\ entry'[d].stage # "failing"
    BY <1>3, <1>9, <2>1, <2>2, SameScenario DEF HardwareOK
  <2> QED
    BY <2>1, <2>2, <2>3 DEF HardwareOK
<1>15. FramesOK(c)'
  BY <1>10, <1>11, <1>12, <1>13 DEF FramesOK
<1> QED
  BY <1>4, <1>7, <1>9, <1>14, <1>15, LeaverStep

LEMMA CancelEndFrames ==
  ASSUME RotInv, FramesInv, NEW c \in Ctxs, CancelEnd(c)
  PROVE  FramesInv'
<1>1. PICK e : e = target[c].entry
  OBVIOUS
<1>2. /\ target[c] # None /\ entry' = Without({e})
      /\ IF entry[e].stage # "done" THEN ctx' = [ctx EXCEPT ![c] = SignalOutput(@)]
         ELSE UNCHANGED ctx
      /\ UNCHANGED <<scenario, busy, at, hw, lost, rotated>>
  BY <1>1 DEF CancelEnd, history
<1>3. Cancelling(c) /\ e[1] = c /\ e \in DOMAIN entry
  BY <1>1, <1>2 DEF RotInv, TargetsOK
<1>4. CASE entry[e].stage # "done"
  BY <1>2, <1>3, <1>4, CancelledFrames
<1>5. CASE entry[e].stage = "done"
  BY <1>2, <1>3, <1>5, FreedFrames
<1> QED
  BY <1>4, <1>5

-----------------------------------------------------------------------------
(* The rotator: clients are told the truth.                                *)

LEMMA RotInitFrames ==
  ASSUME RotInit
  PROVE  FramesInv
<1>1. HardwareOK
  BY DEF RotInit, HardwareOK
<1>2. ASSUME NEW c \in Ctxs PROVE FramesOK(c)
  <2>1. /\ ctx[c].next = 0 /\ ctx[c].curr = 0 /\ ctx[c].ready = <<>> /\ ctx[c].status = <<>>
        /\ ctx[c].pending = <<>> /\ ctx[c].work = <<>> /\ busy[c] = None /\ at[c] = "idle"
    BY DEF RotInit, NewContext
  <2>2. InCore(c) = {}
    BY DEF RotInit, InCore
  <2>3. Len(ctx[c].ready) = 0 /\ Len(ctx[c].status) = 0
    BY <2>1
  <2>4. Returned(ctx[c]) = 0
    <3>1. Returned(ctx[c]) = 0 - 0
      BY <2>1, <2>3 DEF Returned
    <3> QED
      BY <3>1
  <2>5. InOrder(ctx[c])
    BY <2>1, <2>3, <2>4 DEF InOrder
  <2>6. JobOK(c)
    BY <2>1, <2>2, <2>4, <2>5 DEF JobOK
  <2>7. StopOK(c)
    BY <2>1 DEF StopOK
  <2>8. TimelineOK(c) /\ DoneOK(c)
    BY <2>1, <2>4 DEF TimelineOK, DoneOK
  <2> QED
    BY <2>6, <2>7, <2>8 DEF FramesOK
<1> QED
  BY <1>1, <1>2 DEF FramesInv

LEMMA RotNextFrames ==
  ASSUME RotInv, Orderly, FramesInv, [RotNext]_rotvars
  PROVE  FramesInv'
<1>1. CASE UNCHANGED rotvars
  <2>1. UNCHANGED <<scenario, ctx, busy, at, entry, hw, lost, rotated>>
    BY <1>1 DEF rotvars, client, history
  <2>2. Grows /\ Drops
    BY <2>1 DEF Grows, Drops
  <2>3. HardwareOK' /\ \A d \in Ctxs : Aside(d)
    BY <2>1, <2>2, HardwareDrops, SameAside DEF FramesInv
  <2> QED
    BY <2>2, <2>3, AllAside
<1>2. ASSUME NEW c \in Ctxs, QBuf(c) \/ StreamOn(c) \/ StreamOff(c) \/ Close(c)
      PROVE  FramesInv'
  BY <1>2, QBufFrames, StreamOnFrames, StreamOffFrames, CloseFrames
<1>3. ASSUME NEW c \in Ctxs, ClientStep(c)
      PROVE  FramesInv'
  <2>1. CASE Stopped(c)
    BY <2>1, StoppedFrames
  <2>2. CASE StopTimeout(c)
    BY <2>2, StopTimeoutFrames
  <2>3. CASE StopCancelled(c)
    BY <2>3, StopCancelledFrames
  <2>4. CASE StopCancelSubmit(c) \/ StopCancelRetire(c)
    BY <2>4, StopCancelWorkFrames
  <2>5. CASE StopEnd(c)
    BY <2>5, StopEndFrames
  <2>6. CASE CloseCancelled(c) \/ Closed(c)
    BY <2>6, CloseFrames
  <2>7. CASE CancelFree(c)
    BY <2>7, CancelFreeFrames
  <2>8. CASE CancelCommitWork(c) \/ CancelDoneWork(c)
    BY <2>8, QueueFrames
  <2>9. CASE CancelEnd(c)
    BY <2>9, CancelEndFrames
  <2> QED
    BY <1>3, <2>1, <2>2, <2>3, <2>4, <2>5, <2>6, <2>7, <2>8, <2>9 DEF ClientStep
<1>4. ASSUME NEW c \in Ctxs, WorkerStep(c)
      PROVE  FramesInv'
  <2>1. CASE WorkAborted(c)
    BY <2>1, WorkAbortedFrames
  <2>2. CASE RetireHandler(c)
    BY <2>2, RetireHandlerFrames
  <2>3. CASE FenceWait(c)
    BY <2>3, FenceWaitFrames
  <2>4. CASE SubmitHandler(c)
    BY <2>4, SubmitHandlerFrames
  <2>5. CASE SubmitFails(c)
    BY <2>5, SubmitFailsFrames
  <2> QED
    BY <1>4, <2>1, <2>2, <2>3, <2>4, <2>5 DEF WorkerStep
<1>5. CASE CommitStep
  <2>1. CASE CommitWait
    BY <2>1, QueueFrames
  <2>2. CASE Kickoff
    BY <2>2, KickoffFrames
  <2>3. CASE CommitFails \/ NoSlot \/ KickoffCancelled
    BY <2>3, CommitEndsFrames
  <2>4. CASE KickoffFails
    BY <2>4, KickoffFailsFrames
  <2> QED
    BY <1>5, <2>1, <2>2, <2>3, <2>4 DEF CommitStep
<1>6. CASE HwDone
  BY <1>6, HwDoneFrames
<1>7. CASE DoneStep
  BY <1>7, QueueFrames, DoneHandlerFrames DEF DoneStep
<1> QED
  BY <1>1, <1>2, <1>3, <1>4, <1>5, <1>6, <1>7 DEF RotNext

LEMMA SameScenarioOf ==
  ASSUME [RotNext]_rotvars
  PROVE  scenario' = scenario
<1>1. CASE UNCHANGED rotvars
  BY <1>1 DEF rotvars
<1>2. ASSUME NEW c \in Ctxs,
             QBuf(c) \/ StreamOn(c) \/ StreamOff(c) \/ Close(c) \/ ClientStep(c) \/ WorkerStep(c)
      PROVE  scenario' = scenario
  BY <1>2 DEF QBuf, StreamOn, StreamOff, Close, ClientStep, Stopped, StopTimeout,
              StopCancelled, StopCancelSubmit, StopCancelRetire, StopEnd, CloseCancelled,
              Closed, CancelFree, CancelCommitWork, CancelDoneWork, CancelEnd, WorkerStep,
              WorkAborted, RetireHandler, FenceWait, SubmitHandler, SubmitFails
<1>3. CASE CommitStep \/ HwDone \/ DoneStep
  BY <1>3 DEF CommitStep, CommitWait, Kickoff, CommitFails, NoSlot, KickoffFails,
              KickoffCancelled, HwDone, DoneStep, DoneWait, DoneHandler
<1> QED
  BY <1>1, <1>2, <1>3 DEF RotNext

\* What a client is told of its frames is true, whatever the number of
\* contexts, requests, slots and frames and in whatever order its calls and
\* the three workers meet (sde_rotator_dev.c, sde_rotator_core.c and
\* sde_rotator_sync.c): while nothing fails and no done work is cancelled, a
\* signalled fence means that the core is through with the frame and that it
\* was rotated, was given back as failed or belongs to a stream being
\* stopped; no fence is left unsignalled when nothing of the context is
\* queued or in the core; a buffer given back as done was rotated, and the
\* core has no frame that was given back.  It holds for clients that are
\* orderly; the two ways not to be are those in which the code breaks it.
THEOREM RotFramesHonest == RotSpec => [](Orderly => FramesHonest)
<1>1. RotInit => (Orderly => FramesInv)
  BY RotInitFrames
<1>2. RotInv /\ (Orderly => FramesInv) /\ [RotNext]_rotvars => (Orderly => FramesInv)'
  <2> SUFFICES ASSUME RotInv, Orderly => FramesInv, [RotNext]_rotvars, Orderly'
               PROVE  FramesInv'
    OBVIOUS
  <2>1. Orderly
    BY SameScenarioOf DEF Orderly, May
  <2> QED
    BY <2>1, RotNextFrames
<1>3. RotInv /\ (Orderly => FramesInv) => (Orderly => FramesHonest)
  BY FramesAreHonest
<1>4. RotSpec => []RotInv
  BY RotSafe
<1> QED
  BY <1>1, <1>2, <1>3, <1>4, PTL DEF RotSpec
=============================================================================
