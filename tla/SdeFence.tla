------------------------------ MODULE SdeFence ------------------------------
(***************************************************************************)
(* The release/retire fence timeline of the SDE driver                     *)
(* (msm/sde/sde_fence.c).  A timeline counts commits (commit_count) and    *)
(* finished commits (done_count).  A fence is created by the atomic ioctl  *)
(* for a future value of the timeline and is signalled once done_count has *)
(* reached it.  Fences wait on ctx->fence_list_head; _sde_fence_trigger    *)
(* takes the WHOLE list private, looks at each fence, and puts back the    *)
(* ones that are not due.  Two threads run it at the same time: the ioctl  *)
(* thread (sde_fence_create) and the event or commit thread                *)
(* (sde_fence_signal).                                                     *)
(*                                                                         *)
(* The two spinlocks give the grain of atomicity: what happens under       *)
(* ctx->lock or ctx->list_lock is one step, and the gap between two        *)
(* critical sections is a place where the other threads may run.           *)
(*                                                                         *)
(* The counters are unsigned and wrap.  The state holds the number of      *)
(* commits ever made; the registers the code compares are its residues     *)
(* modulo Modulus.  The order of the list is left out: it decides only in  *)
(* which order one trigger visits its fences.                              *)
(***************************************************************************)
EXTENDS Integers, FiniteSets

CONSTANTS
  Fence,          \* storage for fence objects; a freed one is used again
  Creator,        \* threads that call sde_fence_create (atomic ioctl)
  Signaler,       \* threads that call sde_fence_signal (event, commit)
  Modulus,        \* 2^32 in the code
  Offset,         \* offsets passed to sde_fence_create
  Start,          \* commits made and done before the behaviour begins
  MaxCommits,     \* bound: commits made in one behaviour
  MaxOutstanding, \* bound: commits that are not done at one time
  NoFence

Thread == Creator \cup Signaler
Half == Modulus \div 2

ASSUME FenceAssumption ==
  /\ NoFence \notin Fence
  /\ IsFiniteSet(Fence)
  /\ Modulus \in Nat \ {0}
  /\ Offset \subseteq Nat
  /\ Start \subseteq Nat
  /\ MaxCommits \in Nat
  /\ MaxOutstanding \in Nat

\* Far less than half the range of the counters is in flight.
ASSUME WindowAssumption ==
  /\ MaxOutstanding < Half
  /\ \A o \in Offset : MaxOutstanding + o < Half

VARIABLES
  commits,   \* commit_count, before the wrap
  dones,     \* done_count, before the wrap
  owner,     \* the crtc or connector still holds its reference to ctx
  ctx_kref,  \* ctx->kref
  live,      \* allocated fences
  due,       \* fence->seqno, before the wrap
  refs,      \* fence->base.refcount
  signaled,  \* fences with DMA_FENCE_FLAG_SIGNALED_BIT
  errored,   \* fences with fence->error = -EBUSY
  list,      \* ctx->fence_list_head
  fds,       \* fences whose sync_file is still open in user space
  waiters,   \* fences another user took with sde_sync_get and waits on
  pc,        \* where each thread is inside create/signal/trigger
  local,     \* local_list_head of each thread's _sde_fence_trigger
  cur,       \* the fence a thread is working on
  value,     \* trigger_value a creator has read
  err        \* the error argument of a thread's _sde_fence_trigger

counters == <<commits, dones>>
objects  == <<owner, ctx_kref, live, due, refs>>
status   == <<signaled, errored>>
threads  == <<pc, local, cur, value, err>>
vars == <<counters, objects, status, list, fds, waiters, threads>>

-----------------------------------------------------------------------------
\* (int)(a - b) < 0 and (int)(a - b) <= 0 of two wrapped counters.
SignedLT0(a, b) == (a - b) % Modulus >= Half
\* Mutant: the counters compared without regard to the wrap.
UnsignedLE(a, b) == a <= b

SignedLE0(a, b) == (a - b) % Modulus = 0 \/ SignedLT0(a, b)

commit_count == commits % Modulus
done_count   == dones % Modulus

\* sde_fence_signaled
Reached(f) == SignedLE0(due[f] % Modulus, done_count)

\* The guard shared by the two kinds of signal: done is behind commit.
Behind == SignedLT0(done_count, commit_count)

Goto(t, l) == pc' = [pc EXCEPT ![t] = l]

\* dma_fence_put, and sde_fence_release when it drops the last reference.
PutFence(f) ==
  /\ refs' = [refs EXCEPT ![f] = @ - 1]
  /\ IF refs[f] = 1
     THEN /\ live' = live \ {f}
          /\ signaled' = signaled \ {f}
          /\ errored' = errored \ {f}
          /\ due' = [due EXCEPT ![f] = 0]
          /\ ctx_kref' = ctx_kref - 1
     ELSE UNCHANGED <<live, status, due, ctx_kref>>

-----------------------------------------------------------------------------
\* sde_fence_init starts at zero; a timeline that has run for a while and has
\* nothing outstanding is the same but for the value of its counters.
Init ==
  /\ commits \in Start /\ dones = commits
  /\ owner = TRUE /\ ctx_kref = 1
  /\ live = {} /\ signaled = {} /\ errored = {}
  /\ due = [f \in Fence |-> 0]
  /\ refs = [f \in Fence |-> 0]
  /\ list = {} /\ fds = {} /\ waiters = {}
  /\ pc = [t \in Thread |-> "idle"]
  /\ local = [t \in Thread |-> {}]
  /\ cur = [t \in Thread |-> NoFence]
  /\ value = [t \in Thread |-> 0]
  /\ err = [t \in Thread |-> FALSE]

(***************************************************************************)
(* sde_fence_prepare.  The last two conjuncts are bounds: at most          *)
(* MaxOutstanding commits are in flight, and a fence that is not signalled *)
(* is never half the counter's range old.                                  *)
(***************************************************************************)
Prepare ==
  /\ owner
  /\ commits' = commits + 1
  /\ commits < MaxCommits
  /\ commits - dones < MaxOutstanding
  /\ \A f \in live \ signaled : commits + 1 - due[f] < Half
  /\ UNCHANGED <<dones, objects, status, list, fds, waiters, threads>>

\* sde_fence_create, up to reading trigger_value under ctx->lock.
CreateRead(t, offset) ==
  /\ owner
  /\ pc[t] = "idle"
  /\ value' = [value EXCEPT ![t] = commits + offset]
  /\ Goto(t, "create")
  /\ UNCHANGED <<counters, objects, status, list, fds, waiters, local, cur, err>>

\* Mutant: the sync_file takes no reference of its own.
CreateFdSharingRef(t, f) ==
  /\ pc[t] = "create"
  /\ f \notin live
  /\ live' = live \cup {f}
  /\ due' = [due EXCEPT ![f] = value[t]]
  /\ refs' = [refs EXCEPT ![f] = 1]
  /\ ctx_kref' = ctx_kref + 1
  /\ fds' = fds \cup {f}
  /\ cur' = [cur EXCEPT ![t] = f]
  /\ value' = [value EXCEPT ![t] = 0]
  /\ Goto(t, "add")
  /\ UNCHANGED <<counters, owner, status, list, waiters, local, err>>

(***************************************************************************)
(* _sde_fence_create_fd: the fence is initialised with one reference (the  *)
(* list's), takes a reference on ctx, gets a sync_file, which takes the    *)
(* second reference, and the fd becomes visible to user space.             *)
(***************************************************************************)
CreateFd(t, f) ==
  /\ pc[t] = "create"
  /\ f \notin live
  /\ live' = live \cup {f}
  /\ due' = [due EXCEPT ![f] = value[t]]
  /\ refs' = [refs EXCEPT ![f] = 2]
  /\ ctx_kref' = ctx_kref + 1
  /\ fds' = fds \cup {f}
  /\ cur' = [cur EXCEPT ![t] = f]
  /\ value' = [value EXCEPT ![t] = 0]
  /\ Goto(t, "add")
  /\ UNCHANGED <<counters, owner, status, list, waiters, local, err>>

\* No memory, no fd or no sync_file: what was taken is put back.
CreateFail(t) ==
  /\ pc[t] = "create"
  /\ value' = [value EXCEPT ![t] = 0]
  /\ Goto(t, "idle")
  /\ UNCHANGED <<counters, objects, status, list, fds, waiters, local, cur, err>>

\* The fence joins the list, and sde_fence_create calls the trigger.
CreateAdd(t) ==
  /\ pc[t] = "add"
  /\ list' = list \cup {cur[t]}
  /\ cur' = [cur EXCEPT ![t] = NoFence]
  /\ err' = [err EXCEPT ![t] = FALSE]
  /\ Goto(t, "trigger")
  /\ UNCHANGED <<counters, objects, status, fds, waiters, local, value>>

(***************************************************************************)
(* sde_fence_signal with SDE_FENCE_SIGNAL or SDE_FENCE_SIGNAL_ERROR; an    *)
(* extra signal is only logged.                                            *)
(***************************************************************************)
Signal(t, error) ==
  /\ owner
  /\ pc[t] = "idle"
  /\ Behind
  /\ dones' = dones + 1
  /\ err' = [err EXCEPT ![t] = error]
  /\ Goto(t, "trigger")
  /\ UNCHANGED <<commits, objects, status, list, fds, waiters, local, cur, value>>

\* Mutant: the timeline is reset and the waiting fences are not looked at.
ResetNoTrigger(t) ==
  /\ owner
  /\ pc[t] = "idle"
  /\ Behind
  /\ dones' = commits
  /\ err' = [err EXCEPT ![t] = FALSE]
  /\ Goto(t, "idle")
  /\ UNCHANGED <<commits, objects, status, list, fds, waiters, local, cur, value>>

\* sde_fence_signal with SDE_FENCE_RESET_TIMELINE.
ResetTimeline(t) ==
  /\ owner
  /\ pc[t] = "idle"
  /\ Behind
  /\ dones' = commits
  /\ err' = [err EXCEPT ![t] = FALSE]
  /\ Goto(t, "trigger")
  /\ UNCHANGED <<commits, objects, status, list, fds, waiters, local, cur, value>>

\* Mutant: the shared list is walked in place.
TriggerSpliceCopy(t) ==
  /\ pc[t] = "trigger"
  /\ local' = [local EXCEPT ![t] = list]
  /\ UNCHANGED list
  /\ \/ list = {} /\ Goto(t, "idle") /\ err' = [err EXCEPT ![t] = FALSE]
     \/ list # {} /\ Goto(t, "check") /\ UNCHANGED err
  /\ UNCHANGED <<counters, objects, status, fds, waiters, cur, value>>

\* _sde_fence_trigger takes the list private under ctx->list_lock.
TriggerSplice(t) ==
  /\ pc[t] = "trigger"
  /\ local' = [local EXCEPT ![t] = list]
  /\ list' = {}
  /\ \/ list = {} /\ Goto(t, "idle") /\ err' = [err EXCEPT ![t] = FALSE]
     \/ list # {} /\ Goto(t, "check") /\ UNCHANGED err
  /\ UNCHANGED <<counters, objects, status, fds, waiters, cur, value>>

(***************************************************************************)
(* One fence under ctx->lock: the error is set first, and                  *)
(* dma_fence_is_signaled_locked signals a fence the timeline has reached.  *)
(***************************************************************************)
TriggerCheck(t, f) ==
  /\ pc[t] = "check"
  /\ f \in local[t]
  /\ errored' = IF err[t] THEN errored \cup {f} ELSE errored
  /\ cur' = [cur EXCEPT ![t] = f]
  /\ \/ /\ f \in signaled \/ Reached(f)
        /\ signaled' = signaled \cup {f}
        /\ Goto(t, "put")
     \/ /\ f \notin signaled /\ ~Reached(f)
        /\ UNCHANGED signaled
        /\ Goto(t, "move")
  /\ UNCHANGED <<counters, objects, list, fds, waiters, local, value, err>>

\* The loop and the trigger end when the private list is empty.
Advance(t) ==
  /\ local' = [local EXCEPT ![t] = @ \ {cur[t]}]
  /\ cur' = [cur EXCEPT ![t] = NoFence]
  /\ \/ local[t] = {cur[t]} /\ Goto(t, "idle") /\ err' = [err EXCEPT ![t] = FALSE]
     \/ local[t] # {cur[t]} /\ Goto(t, "check") /\ UNCHANGED err

\* A signalled fence leaves the timeline and its list reference is dropped.
TriggerPut(t) ==
  /\ pc[t] = "put"
  /\ Advance(t)
  /\ PutFence(cur[t])
  /\ UNCHANGED <<counters, owner, list, fds, waiters, value>>

\* A fence that is not due goes back on the shared list under list_lock.
TriggerMove(t) ==
  /\ pc[t] = "move"
  /\ Advance(t)
  /\ list' = list \cup {cur[t]}
  /\ UNCHANGED <<counters, objects, status, fds, waiters, value>>

-----------------------------------------------------------------------------
\* sde_sync_get on an open fd, before sde_sync_wait.
SyncGet(f) ==
  /\ f \in fds \ waiters
  /\ waiters' = waiters \cup {f}
  /\ refs' = [refs EXCEPT ![f] = @ + 1]
  /\ UNCHANGED <<counters, owner, ctx_kref, live, due, status, list, fds, threads>>

\* sde_sync_wait ends, signalled or timed out, and sde_sync_put follows.
SyncPut(f) ==
  /\ f \in waiters
  /\ waiters' = waiters \ {f}
  /\ PutFence(f)
  /\ UNCHANGED <<counters, owner, list, fds, threads>>

\* User space, or a waiter that is about to sleep, polls the fence.
Poll(f) ==
  /\ f \in fds \cup waiters
  /\ f \notin signaled
  /\ Reached(f)
  /\ signaled' = signaled \cup {f}
  /\ UNCHANGED <<counters, objects, errored, list, fds, waiters, threads>>

\* User space closes the fd.
CloseFd(f) ==
  /\ f \in fds
  /\ fds' = fds \ {f}
  /\ PutFence(f)
  /\ UNCHANGED <<counters, owner, list, waiters, threads>>

\* sde_fence_deinit, when the crtc or connector that makes the calls is gone.
Deinit ==
  /\ owner
  /\ \A t \in Thread : pc[t] = "idle"
  /\ owner' = FALSE
  /\ ctx_kref' = ctx_kref - 1
  /\ UNCHANGED <<counters, live, due, refs, status, list, fds, waiters, threads>>

CreatorStep(t) ==
  \/ \E o \in Offset : CreateRead(t, o)
  \/ \E f \in Fence : CreateFd(t, f)
  \/ CreateFail(t)
  \/ CreateAdd(t)

SignalerStep(t) ==
  \/ \E e \in BOOLEAN : Signal(t, e)
  \/ ResetTimeline(t)

TriggerStep(t) ==
  \/ TriggerSplice(t)
  \/ \E f \in Fence : TriggerCheck(t, f)
  \/ TriggerPut(t)
  \/ TriggerMove(t)

UserStep(f) == SyncGet(f) \/ SyncPut(f) \/ Poll(f) \/ CloseFd(f)

Next ==
  \/ Prepare
  \/ \E t \in Creator : CreatorStep(t)
  \/ \E t \in Signaler : SignalerStep(t)
  \/ \E t \in Thread : TriggerStep(t)
  \/ \E f \in Fence : UserStep(f)
  \/ Deinit

Spec == Init /\ [][Next]_vars

-----------------------------------------------------------------------------
Locations == {"idle", "create", "add", "trigger", "check", "put", "move"}

\* The values the timeline's state can have.
TypeOK ==
  /\ commits \in Nat /\ dones \in Nat
  /\ owner \in BOOLEAN
  /\ ctx_kref \in Nat
  /\ live \in SUBSET Fence
  /\ due \in [Fence -> Nat]
  /\ refs \in [Fence -> Nat]
  /\ signaled \in SUBSET Fence /\ errored \in SUBSET Fence
  /\ list \in SUBSET Fence /\ fds \in SUBSET Fence /\ waiters \in SUBSET Fence
  /\ pc \in [Thread -> Locations]
  /\ local \in [Thread -> SUBSET Fence]
  /\ cur \in [Thread -> Fence \cup {NoFence}]
  /\ value \in [Thread -> Nat]
  /\ err \in [Thread -> BOOLEAN]

\* The fences whose timeline reference thread t is holding: its private list,
\* and the fence it has created and not yet listed.
Held(t) == local[t] \cup (IF pc[t] = "add" THEN {cur[t]} ELSE {})

(***************************************************************************)
(* A fence is on one list at a time, the shared one or the private list of *)
(* one trigger, however create and signal interleave: were it on two, its  *)
(* list reference would be dropped twice (sde_fence.c:320-321).            *)
(***************************************************************************)
OneListPerFence ==
  /\ \A t \in Thread : Held(t) \cap list = {}
  /\ \A t, u \in Thread : t # u => Held(t) \cap Held(u) = {}

One(b) == IF b THEN 1 ELSE 0
OnTimeline(f) == f \in list \/ \E t \in Thread : f \in Held(t)

(***************************************************************************)
(* The reference count of a fence is the number of its holders: the        *)
(* timeline, the sync_file and the waiter.  None is leaked when creation   *)
(* fails or an fd is closed early, and none is dropped twice.              *)
(***************************************************************************)
FenceRefsExact ==
  \A f \in live :
    refs[f] = One(OnTimeline(f)) + One(f \in fds) + One(f \in waiters)

(***************************************************************************)
(* Nobody holds a freed fence, and every allocated fence has a holder      *)
(* (sde_fence_release frees it with the last reference).                   *)
(***************************************************************************)
NoDangling ==
  /\ \A f \in Fence : OnTimeline(f) \/ f \in fds \/ f \in waiters => f \in live
  /\ \A f \in live : refs[f] >= 1

(***************************************************************************)
(* The timeline lives as long as its owner or one of its fences            *)
(* (sde_fence_destroy): ctx->kref counts exactly these, so polling a fence *)
(* after sde_fence_deinit still finds ctx->done_count.                     *)
(***************************************************************************)
CtxRefsExact == ctx_kref = One(owner) + Cardinality(live)

(***************************************************************************)
(* The references of sde_fence.c add up in every interleaving of create,   *)
(* signal, poll, wait and close: one list per fence, exact counts of the   *)
(* fences and of the timeline, and nothing used after it was freed.        *)
(***************************************************************************)
References == OneListPerFence /\ FenceRefsExact /\ NoDangling /\ CtxRefsExact

(***************************************************************************)
(* A fence is never signalled before the commit it was created for is      *)
(* done, and done_count never passes commit_count, although the code       *)
(* compares counters that wrap (sde_fence_signaled, sde_fence_signal).     *)
(***************************************************************************)
NeverEarly ==
  /\ dones <= commits
  /\ \A f \in signaled : due[f] <= dones

(***************************************************************************)
(* Once no create or signal is in progress, every fence on the list whose  *)
(* commit is done has been signalled (sde_fence.h: sde_fence_signal        *)
(* "advance fence timeline to signal outstanding fences").                 *)
(***************************************************************************)
QuiescentSignaled ==
  (\A t \in Thread : pc[t] = "idle") =>
    \A f \in list : due[f] > dones \/ f \in signaled
=============================================================================
