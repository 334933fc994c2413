----------------------------- MODULE SdeRotator -----------------------------
(***************************************************************************)
(* The rotator (rotator/sde_rotator_dev.c, sde_rotator_core.c,             *)
(* sde_rotator_sync.c) in its default mode, early_submit: frames queued by *)
(* a client, submitted by the worker thread of its context, committed and  *)
(* awaited by the two workers of the core, and given back; streams that    *)
(* stop and contexts that close while all of this goes on.                 *)
(*                                                                         *)
(* Every action holds rot_dev->lock or the manager's lock, or both, from   *)
(* its beginning to its end, as the code does; where the code waits        *)
(* without them a thread has a place.  `locked' is the one wait under      *)
(* rot_dev->lock.  A source buffer and its destination buffer are one      *)
(* frame, a request of the core has one entry, and an entry that is        *)
(* finished leaves the core at once and not at the next submission.        *)
(***************************************************************************)
EXTENDS Integers, SequencesExt

CONSTANTS
    Ctxs,        \* contexts, one for each open file
    Requests,    \* the requests of a context, in the order of its list
    MaxActive,   \* max_active of the hardware resource
    Scenarios,   \* [faults |-> what may happen, frames |-> bound of each context,
                 \*  ot |-> OT limit that the frames of each context ask for]
    None

Faults == {"fence",    \* frames carry an input fence to wait for
           "bad",      \* such a wait fails
           "hw",       \* the core or the hardware fails a frame
           "off",      \* clients stop, start and close
           "timeout",  \* stopping takes longer than streamoff_timeout
           "overlap"}  \* clients queue frames while others are in flight

ASSUME RotAssumption ==
    /\ Requests \in Seq(Range(Requests)) /\ Requests # <<>> /\ MaxActive \in Nat \ {0}
    /\ None \notin Ctxs \cup Nat /\ None \notin Ctxs \X Nat
    /\ \A s \in Scenarios :
        s.faults \subseteq Faults /\ s.frames \in [Ctxs -> Nat] /\ s.ot \in [Ctxs -> Nat]

VARIABLES
    scenario,    \* fixed in the initial state
    ctx,         \* sde_rotator_ctx: request lists, buffers, timeline, works
    busy,        \* submission of a context that waits for an input fence
    at, target,  \* place of each client, entry it cancels
    locked,      \* context that waits with rot_dev->lock held
    entry,       \* entries in the core: id |-> record
    commitq, committing, doneq, finishing,    \* the core's two workers
    hw,          \* entries the hardware has to do
    slots,       \* num_active and pending_count of the hardware resource
    limit,       \* the OT limit that is programmed
    smmu,        \* sde_smmu_ctrl votes
    session,     \* "open", "closing" (its last entry frees it) or "closed"
    made,        \* entries made for each context
    lost,        \* entries whose done_work was cancelled
    rotated      \* frames the hardware finished

client == <<at, target, locked>>
queues == <<commitq, committing, doneq, finishing>>
resources == <<slots, limit, smmu>>
history == <<made, lost, rotated>>
rotvars == <<scenario, ctx, busy, client, entry, queues, hw, resources, session, history>>

May(fault) == fault \in scenario.faults
Request == Range(Requests)

NewContext ==
    [pending |-> <<>>, retired |-> Requests, req |-> [r \in Request |-> None],
     ready |-> <<>>, abort |-> FALSE, on |-> FALSE, next |-> 0, curr |-> 0,
     work |-> <<>>, status |-> <<>>]

RotInit ==
    /\ scenario \in Scenarios
    /\ ctx = [c \in Ctxs |-> NewContext] /\ busy = [c \in Ctxs |-> None]
    /\ at = [c \in Ctxs |-> "idle"] /\ target = [c \in Ctxs |-> None] /\ locked = None
    /\ entry = <<>> /\ commitq = <<>> /\ committing = None /\ doneq = <<>> /\ finishing = None
    /\ hw = <<>> /\ slots = [active |-> 0, pending |-> 0] /\ limit = None /\ smmu = 0
    /\ session = [c \in Ctxs |-> "open"]
    /\ made = [c \in Ctxs |-> 0] /\ lost = {} /\ rotated = {}

-----------------------------------------------------------------------------
(* A context under rot_dev->lock: x is its record.                         *)

\* kthread_queue_work: a work that is queued already stays where it is.
Enqueue(x, w) == IF w \in Range(x.work) THEN x ELSE [x EXCEPT !.work = Append(@, w)]

\* Mutant: the request is not put on the retired list.
RetireLost(x, r) == [x EXCEPT !.req[r] = None, !.pending = RemoveFirst(@, r)]

\* sde_rotator_retire_request.
Retire(x, r) ==
    [x EXCEPT !.req[r] = None, !.pending = RemoveFirst(@, r),
              !.retired = Append(RemoveFirst(@, r), r)]

\* sde_rotator_resync_timeline.
Resync(x) == IF x.next > x.curr THEN [x EXCEPT !.curr = x.next] ELSE x

\* job_ready with an empty pending list: submit a new request.
Submit(x) ==
    LET r == Head(x.retired)
    IN  Enqueue([x EXCEPT !.pending = <<r>>, !.retired = Tail(@)], <<"submit", r>>)

\* pending_count of the request is zero; one that was freed reads as anything.
Completed(id) == id \notin DOMAIN entry \/ entry[id].stage = "done"
Failed(id) == id \in DOMAIN entry /\ entry[id].failed

\* v4l2_m2m_try_schedule: what job_ready and device_run have to do.
Outcome(x) ==
    IF ~x.on \/ x.abort \/ x.ready = <<>> THEN "none"
    ELSE IF x.pending = <<>> THEN "submit"
    ELSE LET id == x.req[Head(x.pending)]
         IN  CASE id = None -> "error"
               [] id # None /\ ~Completed(id) -> "none"
               [] id # None /\ Completed(id) -> IF Failed(id) THEN "error" ELSE "done"

\* sde_rotator_device_run on the frame at the head.
DeviceRun(x, outcome) ==
    LET y == [Retire(x, Head(x.pending)) EXCEPT !.ready = Tail(@),
                                                !.status[Head(x.ready)] = outcome]
    IN  IF outcome = "error" THEN Resync(y) ELSE y

\* Mutant: job_finish does not schedule the context again.
ScheduleOnce(x) ==
    LET outcome == Outcome(x)
    IN  IF outcome \in {"error", "done"} THEN DeviceRun(x, outcome)
        ELSE IF outcome = "submit" THEN Submit(x) ELSE x

\* job_finish schedules the context again.
Schedule(x) ==
    LET outcome == Outcome(x)
        y == IF outcome \in {"error", "done"} THEN DeviceRun(x, outcome) ELSE x
    IN  IF Outcome(y) = "submit" THEN Submit(y) ELSE y

\* sde_rotator_req_finish: the entry device_run disconnects.
Finished(x) ==
    IF Outcome(x) \in {"error", "done"} THEN {x.req[Head(x.pending)]} ELSE {}

Without(ids) == [e \in DOMAIN entry \ ids |-> entry[e]]

\* c becomes x and is scheduled.
Scheduled(c, x) ==
    /\ ctx' = [ctx EXCEPT ![c] = Schedule(x)]
    /\ entry' = Without(Finished(x))

\* Entries of c that are not released yet.
InCore(c) == {e \in DOMAIN entry : e[1] = c /\ entry[e].stage # "done"}

Unreleased == UNION {InCore(c) : c \in Ctxs}

\* Those that have a slot of the hardware.
Holding == {e \in Unreleased : entry[e].stage \in {"active", "failing"}}

-----------------------------------------------------------------------------
(* The client's calls.                                                     *)

\* When clients queue: before the stream is on or when all frames are back.
MayQueue(c) == ~ctx[c].on \/ ctx[c].ready = <<>> \/ May("overlap")

\* sde_rotator_qbuf: a fence for the destination, then the buffers.
QBuf(c) ==
    LET n == ctx[c].next + 1
    IN  /\ locked = None /\ at[c] = "idle" /\ n <= scenario.frames[c]
        /\ MayQueue(c)
        /\ Scheduled(c, [ctx[c] EXCEPT !.next = n, !.ready = Append(@, n),
                                       !.status = Append(@, "queued")])
        /\ UNCHANGED <<scenario, busy, client, queues, hw, resources, session, history>>

\* sde_rotator_start_streaming.
StreamOn(c) ==
    /\ locked = None /\ at[c] = "idle" /\ ~ctx[c].on /\ ctx[c].pending = <<>>
    /\ Scheduled(c, [ctx[c] EXCEPT !.abort = FALSE, !.on = TRUE])
    /\ UNCHANGED <<scenario, busy, client, queues, hw, resources, session, history>>

\* sde_rotator_stop_streaming, up to the wait without the lock.
StreamOff(c) ==
    /\ May("off") /\ locked = None /\ at[c] = "idle" /\ ctx[c].on
    /\ ctx' = [ctx EXCEPT ![c].abort = TRUE]
    /\ at' = [at EXCEPT ![c] = "stopping"]
    /\ UNCHANGED <<scenario, busy, target, locked, entry, queues, hw, resources, session, history>>

\* sde_rotator_return_all_buffers and the end of stop_streaming.
ReturnAll(x) ==
    Resync([x EXCEPT !.ready = <<>>, !.on = FALSE,
                     !.status = [n \in DOMAIN x.status |->
                                    IF n \in Range(x.ready) THEN "error" ELSE x.status[n]]])

\* Mutant: stopping does not wait for the pending request.
StoppedEarly(c) ==
    /\ at[c] = "stopping" /\ locked = None
    /\ ctx' = [ctx EXCEPT ![c] = ReturnAll(@)]
    /\ at' = [at EXCEPT ![c] = "idle"]
    /\ UNCHANGED <<scenario, busy, target, locked, entry, queues, hw, resources, session, history>>

Stopped(c) ==
    /\ at[c] = "stopping" /\ locked = None /\ ctx[c].pending = <<>>
    /\ ctx' = [ctx EXCEPT ![c] = ReturnAll(@)]
    /\ at' = [at EXCEPT ![c] = "idle"]
    /\ UNCHANGED <<scenario, busy, target, locked, entry, queues, hw, resources, session, history>>

\* sde_rot_check_for_flush_ts: an entry of c may still be with the hardware.
Flushed(c) == ~May("hw") /\ \E e \in Range(hw) : e[1] = c

\* The wait timed out: cancel what the core has, with rot_dev->lock held.
StopTimeout(c) ==
    /\ May("timeout") /\ at[c] = "stopping" /\ locked = None
    /\ ctx[c].pending # <<>> /\ ~Flushed(c)
    /\ at' = [at EXCEPT ![c] = "stop_cancel"] /\ locked' = c
    /\ UNCHANGED <<scenario, ctx, busy, target, entry, queues, hw, resources, session, history>>

StopCancelled(c) ==
    /\ at[c] = "stop_cancel" /\ target[c] = None /\ \A e \in DOMAIN entry : e[1] # c
    /\ at' = [at EXCEPT ![c] = "stop_submit"] /\ locked' = None
    /\ UNCHANGED <<scenario, ctx, busy, target, entry, queues, hw, resources, session, history>>

\* The loop over pending_list, which holds one request at most.
Dequeue(c, kind) ==
    IF ctx[c].pending = <<>> THEN ctx
    ELSE [ctx EXCEPT ![c].work = RemoveFirst(@, <<kind, Head(ctx[c].pending)>>)]

\* kthread_cancel_work_sync of its two works, without the lock.
StopCancelSubmit(c) ==
    /\ at[c] = "stop_submit"
    /\ ctx' = Dequeue(c, "submit") /\ at' = [at EXCEPT ![c] = "stop_retire"]
    /\ UNCHANGED <<scenario, busy, target, locked, entry, queues, hw, resources, session, history>>

StopCancelRetire(c) ==
    /\ at[c] = "stop_retire" /\ busy[c] = None
    /\ ctx' = Dequeue(c, "retire") /\ at' = [at EXCEPT ![c] = "stop_end"]
    /\ UNCHANGED <<scenario, busy, target, locked, entry, queues, hw, resources, session, history>>

\* The request goes to the retired list as it is.
StopEnd(c) ==
    /\ at[c] = "stop_end" /\ locked = None
    /\ LET x == [ctx[c] EXCEPT !.pending = <<>>, !.retired = @ \o ctx[c].pending]
       IN  ctx' = [ctx EXCEPT ![c] = ReturnAll(x)]
    /\ at' = [at EXCEPT ![c] = "idle"]
    /\ UNCHANGED <<scenario, busy, target, locked, entry, queues, hw, resources, session, history>>

\* sde_rotator_ctx_release of a stopped context: sde_rotator_close_session.
Close(c) ==
    /\ May("off") /\ locked = None /\ at[c] = "idle" /\ ~ctx[c].on
    /\ session' = [session EXCEPT ![c] = IF InCore(c) # {}
                                         THEN "closing" ELSE "closed"]
    /\ at' = [at EXCEPT ![c] = "close_cancel"]
    /\ UNCHANGED <<scenario, ctx, busy, target, locked, entry, queues, hw, resources, history>>

CloseCancelled(c) ==
    /\ at[c] = "close_cancel" /\ target[c] = None /\ \A e \in DOMAIN entry : e[1] # c
    /\ locked = None /\ locked' = c
    /\ at' = [at EXCEPT ![c] = "flush"]
    /\ UNCHANGED <<scenario, ctx, busy, target, entry, queues, hw, resources, session, history>>

\* kthread_flush_worker under rot_dev->lock.
Closed(c) ==
    /\ at[c] = "flush" /\ busy[c] = None /\ ctx[c].work = <<>>
    /\ at' = [at EXCEPT ![c] = "closed"] /\ locked' = None
    /\ UNCHANGED <<scenario, ctx, busy, target, entry, queues, hw, resources, session, history>>

-----------------------------------------------------------------------------
(* The context's worker.                                                   *)

Works(c, kind) ==
    /\ locked = None /\ busy[c] = None
    /\ ctx[c].work # <<>> /\ Head(ctx[c].work)[1] = kind

Taken(c) == [ctx[c] EXCEPT !.work = Tail(@)]

\* Both handlers when the stream is stopping.
WorkAborted(c) ==
    /\ \E kind \in {"submit", "retire"} : Works(c, kind)
    /\ ctx[c].abort
    /\ ctx' = [ctx EXCEPT ![c] = Retire(Taken(c), Head(ctx[c].work)[2])]
    /\ UNCHANGED <<scenario, busy, client, entry, queues, hw, resources, session, history>>

\* sde_rotator_retire_handler.
RetireHandler(c) ==
    /\ Works(c, "retire") /\ ~ctx[c].abort
    /\ Scheduled(c, Taken(c))
    /\ UNCHANGED <<scenario, busy, client, queues, hw, resources, session, history>>

\* sde_rotator_submit_handler waits for the fence without either lock.
FenceWait(c) ==
    /\ May("fence") /\ Works(c, "submit") /\ ~ctx[c].abort /\ ctx[c].ready # <<>>
    /\ busy' = [busy EXCEPT ![c] = [req |-> Head(ctx[c].work)[2], frame |-> Head(ctx[c].ready)]]
    /\ ctx' = [ctx EXCEPT ![c] = Taken(c)]
    /\ UNCHANGED <<scenario, client, entry, queues, hw, resources, session, history>>

\* What the handler goes on with when the fence is there, or at once.
Going(c) ==
    IF busy[c] # None THEN {[x |-> ctx[c], req |-> busy[c].req, frame |-> busy[c].frame]}
    ELSE IF Works(c, "submit") /\ ~ctx[c].abort /\ (May("fence") => ctx[c].ready = <<>>)
         THEN {[x |-> Taken(c), req |-> Head(ctx[c].work)[2],
                frame |-> IF ctx[c].ready = <<>> THEN None ELSE Head(ctx[c].ready)]}
         ELSE {}

NewEntry(r, frame) == [req |-> r, frame |-> frame, stage |-> "queued", failed |-> FALSE]

\* sde_rotator_process_buffers hands the frame to the core.
SubmitHandler(c) ==
    /\ locked = None
    /\ \E g \in Going(c) :
        LET e == <<c, made[c] + 1>>
        IN  /\ g.frame # None
            /\ ctx' = [ctx EXCEPT ![c] = [g.x EXCEPT !.req[g.req] = e]]
            /\ entry' = [d \in DOMAIN entry \cup {e} |->
                            IF d = e THEN NewEntry(g.req, g.frame) ELSE entry[d]]
            /\ commitq' = Append(commitq, e)
    /\ slots' = [slots EXCEPT !.pending = @ + 1]
    /\ made' = [made EXCEPT ![c] = @ + 1] /\ busy' = [busy EXCEPT ![c] = None]
    /\ UNCHANGED <<scenario, client, committing, doneq, finishing, hw, limit, smmu, session,
                   lost, rotated>>

\* It fails: there is no frame, the fence never comes, the core refuses.
SubmitFails(c) ==
    /\ locked = None
    /\ \E g \in Going(c) :
        /\ g.frame = None \/ (May("bad") /\ busy[c] # None) \/ May("hw")
        /\ Scheduled(c, [g.x EXCEPT !.req[g.req] = None])
    /\ busy' = [busy EXCEPT ![c] = None]
    /\ UNCHANGED <<scenario, client, queues, hw, resources, session, history>>

-----------------------------------------------------------------------------
(* The core under the manager's lock.                                      *)

Dec(n) == IF n > 0 THEN n - 1 ELSE 0

\* sde_rotator_put_hw_resource.
PutSlot(s) == [s EXCEPT !.active = Dec(@)]

\* sde_rotator_unassign_queue: the last entry frees the hardware resource.
Unassign(s) ==
    [pending |-> s.pending - 1, active |-> IF s.pending = 1 THEN 0 ELSE s.active]

\* sde_rotator_signal_output and sde_rotator_release_entry, if still to do.
SignalOutput(x) == [x EXCEPT !.curr = @ + 1]
Released(e) ==
    session' = [session EXCEPT ![e[1]] = IF @ = "closing" /\ InCore(e[1]) = {e} THEN "closed" ELSE @]

\* The end of both handlers; s is left of the slots.
End(e, failed, s) ==
    /\ Released(e) /\ slots' = Unassign(s)
    /\ entry' = [entry EXCEPT ![e].stage = "done", ![e].failed = @ \/ failed]
    /\ ctx' = [ctx EXCEPT ![e[1]] = Enqueue(SignalOutput(@), <<"retire", entry[e].req>>)]

\* The OT limit that the size and rate of an entry's frame ask for.
OtLimit(e) == scenario.ot[e[1]]

\* sde_rotator_is_hw_available: another OT limit needs an idle hardware.
Available(e) == IF limit = OtLimit(e) THEN slots.active < MaxActive ELSE slots.active = 0

\* The entry sde_rotator_commit_handler is at: it waits or is to be taken.
Committable ==
    IF committing # None THEN {committing} ELSE {commitq[i] : i \in DOMAIN commitq \cap {1}}
Uncommit ==
    IF committing # None THEN committing' = None /\ commitq' = commitq
    ELSE committing' = None /\ commitq' = Tail(commitq)

CommitWait ==
    /\ committing = None /\ commitq # <<>> /\ ~Available(Head(commitq))
    /\ committing' = Head(commitq) /\ commitq' = Tail(commitq)
    /\ UNCHANGED <<scenario, ctx, busy, client, entry, doneq, finishing, hw, resources,
                   session, history>>

Kickoff ==
    /\ \E e \in Committable :
        /\ entry[e].stage = "queued" /\ Available(e)
        /\ entry' = [entry EXCEPT ![e].stage = "active"]
        /\ limit' = OtLimit(e) /\ hw' = Append(hw, e) /\ doneq' = Append(doneq, e)
    /\ Uncommit /\ slots' = [slots EXCEPT !.active = @ + 1] /\ smmu' = smmu + 1
    /\ UNCHANGED <<scenario, ctx, busy, client, finishing, session, history>>

\* Mapping or configuring fails, with the slot and the smmu vote given back.
CommitFails ==
    /\ May("hw")
    /\ \E e \in Committable :
        /\ entry[e].stage = "queued" /\ Available(e)
        /\ End(e, TRUE, slots) /\ limit' = OtLimit(e)
    /\ Uncommit
    /\ UNCHANGED <<scenario, busy, client, doneq, finishing, hw, smmu, history>>

\* No slot within hwacquire_timeout: the hardware is slow, or a slot is lost.
NoSlot ==
    /\ May("hw") \/ slots.active > Cardinality(Holding)
    /\ committing # None /\ entry[committing].stage = "queued" /\ ~Available(committing)
    /\ End(committing, TRUE, slots) /\ Uncommit
    /\ UNCHANGED <<scenario, busy, client, doneq, finishing, hw, limit, smmu, history>>

\* ops_kickoff_entry fails: the handler waits for the others, then cancels.
KickoffFails ==
    /\ May("hw")
    /\ \E e \in Committable :
        /\ entry[e].stage = "queued" /\ Available(e)
        /\ entry' = [entry EXCEPT ![e].stage = "failing"] /\ limit' = OtLimit(e)
        /\ committing' = e /\ commitq' = IF committing = None THEN Tail(commitq) ELSE commitq
    /\ slots' = [slots EXCEPT !.active = @ + 1] /\ smmu' = smmu + 1
    /\ UNCHANGED <<scenario, ctx, busy, client, doneq, finishing, hw, session, history>>

KickoffCancelled ==
    /\ committing # None /\ entry[committing].stage = "failing"
    /\ End(committing, TRUE, PutSlot(slots)) /\ Uncommit /\ smmu' = smmu - 1
    /\ UNCHANGED <<scenario, busy, client, doneq, finishing, hw, limit, history>>

\* The hardware works on its entries one after the other.
HwDone ==
    /\ hw # <<>>
    /\ LET e == Head(hw)
       IN  rotated' = IF e \in DOMAIN entry THEN rotated \cup {<<e[1], entry[e].frame>>}
                      ELSE rotated
    /\ hw' = Tail(hw)
    /\ UNCHANGED <<scenario, ctx, busy, client, entry, queues, resources, session, made, lost>>

\* sde_rotator_done_handler begins to wait for the hardware.
DoneWait ==
    /\ finishing = None /\ doneq # <<>>
    /\ finishing' = Head(doneq) /\ doneq' = Tail(doneq)
    /\ UNCHANGED <<scenario, ctx, busy, client, entry, commitq, committing, hw, resources,
                   session, history>>

DoneHandler ==
    /\ finishing # None
    /\ finishing \in Range(hw) => May("hw")      \* timeout
    /\ End(finishing, finishing \in Range(hw), PutSlot(slots))
    /\ hw' = RemoveFirst(hw, finishing) /\ finishing' = None /\ smmu' = smmu - 1
    /\ UNCHANGED <<scenario, busy, client, commitq, committing, doneq, limit, history>>

-----------------------------------------------------------------------------
(* sde_rotator_cancel_all_requests, newest request first.  The works are   *)
(* cancelled without the manager's lock.                                   *)

Newest(c) == {e \in DOMAIN entry : e[1] = c /\ \A d \in DOMAIN entry : d[1] = c => d[2] <= e[2]}
Cancelling(c) == at[c] \in {"stop_cancel", "close_cancel"}

CancelFree(c) ==
    /\ Cancelling(c) /\ target[c] = None
    /\ \E e \in Newest(c) : entry[e].stage = "done" /\ entry' = Without({e})
    /\ UNCHANGED <<scenario, ctx, busy, client, queues, hw, resources, session, history>>

CancelCommitWork(c) ==
    /\ Cancelling(c) /\ target[c] = None
    /\ \E e \in Newest(c) :
        /\ entry[e].stage # "done"
        /\ target' = [target EXCEPT ![c] = [entry |-> e, work |-> "commit"]]
        /\ commitq' = RemoveFirst(commitq, e)
    /\ UNCHANGED <<scenario, ctx, busy, at, locked, entry, committing, doneq, finishing, hw,
                   resources, session, history>>

CancelDoneWork(c) ==
    /\ target[c] # None /\ target[c].work = "commit" /\ committing # target[c].entry
    /\ LET e == target[c].entry
       IN  /\ doneq' = RemoveFirst(doneq, e)
           /\ lost' = IF e \in Range(doneq) THEN lost \cup {e} ELSE lost
    /\ target' = [target EXCEPT ![c].work = "done"]
    /\ UNCHANGED <<scenario, ctx, busy, at, locked, entry, commitq, committing, finishing, hw,
                   resources, session, made, rotated>>

\* Mutant: the entry is released although the done handler released it.
CancelEndTwice(c) ==
    /\ target[c] # None /\ target[c].work = "done" /\ finishing # target[c].entry
    /\ LET e == target[c].entry
       IN  /\ Released(e) /\ slots' = Unassign(slots) /\ entry' = Without({e})
           /\ ctx' = [ctx EXCEPT ![c] = SignalOutput(@)]
    /\ target' = [target EXCEPT ![c] = None]
    /\ UNCHANGED <<scenario, busy, at, locked, queues, hw, limit, smmu, history>>

CancelEnd(c) ==
    /\ target[c] # None /\ target[c].work = "done" /\ finishing # target[c].entry
    /\ LET e == target[c].entry
       IN  /\ IF entry[e].stage # "done"
              THEN /\ Released(e) /\ slots' = Unassign(slots)
                   /\ ctx' = [ctx EXCEPT ![c] = SignalOutput(@)]
              ELSE UNCHANGED <<session, slots, ctx>>
           /\ entry' = Without({e})
    /\ target' = [target EXCEPT ![c] = None]
    /\ UNCHANGED <<scenario, busy, at, locked, queues, hw, limit, smmu, history>>

-----------------------------------------------------------------------------
ClientStep(c) ==
    \/ Stopped(c) \/ StopTimeout(c) \/ StopCancelled(c) \/ StopCancelSubmit(c)
    \/ StopCancelRetire(c) \/ StopEnd(c) \/ CloseCancelled(c) \/ Closed(c)
    \/ CancelFree(c) \/ CancelCommitWork(c) \/ CancelDoneWork(c) \/ CancelEnd(c)
WorkerStep(c) ==
    \/ WorkAborted(c) \/ RetireHandler(c) \/ FenceWait(c) \/ SubmitHandler(c) \/ SubmitFails(c)
CommitStep ==
    CommitWait \/ Kickoff \/ CommitFails \/ NoSlot \/ KickoffFails \/ KickoffCancelled
DoneStep == DoneWait \/ DoneHandler

RotNext ==
    \/ \E c \in Ctxs : \/ QBuf(c) \/ StreamOn(c) \/ StreamOff(c) \/ Close(c)
                      \/ ClientStep(c) \/ WorkerStep(c)
    \/ CommitStep \/ HwDone \/ DoneStep

Fairness ==
    /\ \A c \in Ctxs : WF_rotvars(ClientStep(c)) /\ WF_rotvars(WorkerStep(c))
    /\ WF_rotvars(CommitStep) /\ WF_rotvars(HwDone) /\ WF_rotvars(DoneStep)

RotSpec == RotInit /\ [][RotNext]_rotvars /\ Fairness

-----------------------------------------------------------------------------
(* Properties.                                                             *)

\* The types.
RotTypeOK ==
    /\ \A c \in Ctxs :
        /\ Range(ctx[c].pending) \cup Range(ctx[c].retired) = Request
        /\ ctx[c].curr \in 0 .. ctx[c].next + made[c]
        /\ \A n \in DOMAIN ctx[c].status : ctx[c].status[n] \in {"queued", "done", "error"}
        /\ session[c] \in {"open", "closing", "closed"}
    /\ Range(doneq) \cup Range(commitq) \subseteq DOMAIN entry
    /\ \A e \in DOMAIN entry : entry[e].stage \in {"queued", "active", "failing", "done"}
    /\ locked \in Ctxs \cup {None}

\* Whatever is cancelled while the two workers are at it, each entry gives
\* its slot, its share of the hardware resource and its smmu vote back
\* once; only an entry whose done_work was cancelled in the queue keeps the
\* slot and the vote.
SlotsBalanced ==
    /\ slots.pending = Cardinality(Unreleased)
    /\ slots.active <= MaxActive
    /\ slots.active \in Cardinality(Holding) .. Cardinality(Holding) + Cardinality(lost)
    /\ smmu = Cardinality(Holding \cup lost)
    /\ \A c \in Ctxs : at[c] \in {"flush", "closed"} => session[c] = "closed" /\ InCore(c) = {}

\* A signalled fence means that the core is through with its frame, and that
\* the frame was rotated unless the stream was stopped; when nothing of a
\* context is queued or in the core no fence is left.
FencesHonest ==
    \A c \in Ctxs :
        /\ ~May("hw") /\ ~May("bad") /\ lost = {} =>
            \A n \in 1 .. ctx[c].next :
                n <= ctx[c].curr =>
                    /\ \A e \in InCore(c) : entry[e].frame # n
                    /\ <<c, n>> \in rotated \/ ctx[c].status[n] = "error" \/ ctx[c].abort
        /\ ctx[c].ready = <<>> /\ InCore(c) = {} => ctx[c].curr >= ctx[c].next

\* A frame that is given back as done was rotated, and the core has no frame
\* that was given back.
BuffersHonest ==
    \A c \in Ctxs :
        /\ \A n \in DOMAIN ctx[c].status : ctx[c].status[n] = "done" => <<c, n>> \in rotated
        /\ \A e \in InCore(c) : ctx[c].status[entry[e].frame] = "queued"

\* What a client learns of its frames, by fence and by buffer, is true
\* however stopping and cancelling meet the three workers.
FramesHonest == FencesHonest /\ BuffersHonest

\* Only a frame whose submission or rotation failed is given back as failed.
FailuresReal ==
    \A c \in Ctxs : \A n \in DOMAIN ctx[c].status :
        ctx[c].status[n] = "error" => scenario.faults \cap {"bad", "hw", "off"} # {}

\* Every frame of a running stream is given back, and stopping and closing
\* a stream come to an end.
FramesReturn ==
    \A c \in Ctxs :
        /\ ctx[c].on /\ ctx[c].ready # <<>> ~> ~ctx[c].on \/ ctx[c].ready = <<>>
        /\ at[c] \notin {"idle", "closed"} ~> at[c] \in {"idle", "closed"}
=============================================================================
