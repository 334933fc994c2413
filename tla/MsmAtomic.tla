----------------------------- MODULE MsmAtomic -----------------------------
(***************************************************************************)
(* Atomic commits (msm/msm_atomic.c): check and reservation of hardware,   *)
(* the wait for commits on the same CRTCs, planes or blocks, the swap of   *)
(* the state, and the display thread that takes it to the hardware.        *)
(*                                                                         *)
(* A display is a CRTC with its encoder and connector.  Userspace calls    *)
(* through the DRM core, which holds the modeset locks of the objects of a *)
(* commit until msm_atomic_commit returns.                                 *)
(***************************************************************************)
EXTENDS SdeRm

CONSTANTS
    Plane,
    Caller,        \* threads that commit
    Displays,      \* the displays in the order of the CRTCs
    MaxCommits,    \* bound on commits that reach msm_atomic_commit
    MaxObjects     \* bound on displays and planes a commit changes

Topologies == DOMAIN TopologyTbl
Connection == "connection_mutex"
Resource == Display \cup Plane \cup Blk
CommitId == 1 .. MaxCommits

PartialFunctions(S, T) == UNION {[R -> T] : R \in SUBSET S}
ModeSets == PartialFunctions(Display, Topologies \cup {None})
Moves == PartialFunctions(Plane, Display \cup {None})

\* A commit, as msm_atomic_commit keeps it in struct msm_commit.
CommitRec ==
    [id: CommitId, crtcs: SUBSET Display, modes: ModeSets, moves: Moves, rm: State,
     nonblock: BOOLEAN, mask: SUBSET Resource, uses: SUBSET Resource]

ASSUME AtomicAssumption ==
    /\ MaxCommits \in Nat /\ MaxObjects \in Nat
    /\ Displays \in Seq(Display)
    /\ ToSet(Displays) = Display /\ IsInjective(Displays)
    /\ Display \cap Plane = {} /\ Display \cap Blk = {} /\ Plane \cap Blk = {}
    /\ None \notin Resource /\ None \notin CommitRec /\ Connection \notin Resource

VARIABLES
    topology,     \* committed topology of a display, None if it is off
    stage,        \* committed display of a plane, None if it is unused
    rsvp,         \* committed state of the resource manager (rm->obj.state)
    version,      \* and how often it was replaced
    commits,      \* number of commits so far
    call,         \* place of a caller in msm_atomic_commit
    commit,       \* the commit of a caller
    pending,      \* pending_crtcs, pending_planes and pending_rm
    queue,        \* commits queued on the display threads
    work,         \* place of a display thread
    current,      \* the commit it works on
    iter,         \* version of the state it walks through
    mixers,       \* blocks a display uses
    pipes         \* planes a display fetches

vars == <<topology, stage, rsvp, version, commits, call, commit, pending, queue,
          work, current, iter, mixers, pipes>>

swstate == <<topology, stage, rsvp, version>>
callers == <<commits, call, commit>>
threads == <<queue, work, current, iter>>
hardware == <<mixers, pipes>>

Init ==
    /\ topology = [d \in Display |-> None] /\ stage = [p \in Plane |-> None]
    /\ rsvp = [b \in Blk |-> None] /\ version = 0
    /\ commits = 0 /\ call = [t \in Caller |-> "idle"] /\ commit = [t \in Caller |-> None]
    /\ pending = {}
    /\ queue = [d \in Display |-> <<>>] /\ work = [d \in Display |-> "idle"]
    /\ current = [d \in Display |-> None] /\ iter = [d \in Display |-> 0]
    /\ mixers = [d \in Display |-> {}] /\ pipes = [d \in Display |-> {}]

-----------------------------------------------------------------------------
(* The atomic check.  A commit changes the topology of some displays and   *)
(* the display of some planes; a plane that moves brings its old display   *)
(* into the commit, a display that goes off loses its planes.              *)

\* sde_encoder_virt_atomic_check of one display; None: an earlier one failed.
RmStep(modes, s, d) ==
    IF s = None \/ d \notin DOMAIN modes \/ modes[d] = None
      THEN s ELSE MakeNextRsvp(s, d, modes[d])

\* Mutant: what was reserved before is not released.
RmCheckKeeps(modes) ==
    LET upto[n \in 0 .. Len(Displays)] ==
            IF n = 0 THEN rsvp ELSE RmStep(modes, upto[n - 1], Displays[n])
    IN upto[Len(Displays)]

\* sde_connector_atomic_check releases the blocks of every display with a
\* mode set, then sde_encoder_virt_atomic_check reserves anew.
RmCheck(modes) ==
    LET upto[n \in 0 .. Len(Displays)] ==
            IF n = 0 THEN ReleaseRsvp(rsvp, DOMAIN modes)
                     ELSE RmStep(modes, upto[n - 1], Displays[n])
    IN upto[Len(Displays)]

\* What a commit is made of: rm is the reservation it was checked with, mask
\* what start_atomic waits for, uses what it works on.
NewCommit(modes, moves, rm, nonblock) ==
    LET crtcs == DOMAIN modes
                   \cup {moves[p] : p \in DOMAIN moves} \cup {stage[p] : p \in DOMAIN moves}
        objects == (crtcs \ {None}) \cup DOMAIN moves
    IN [id |-> commits + 1, crtcs |-> crtcs \ {None}, modes |-> modes, moves |-> moves,
        rm |-> rm, nonblock |-> nonblock,
        mask |-> objects \cup ResourceMask(rsvp, rm, DOMAIN modes),
        uses |-> objects \cup {b \in Blk : rsvp[b] \in crtcs \ {None}
                                           \/ rm[b] \in crtcs \ {None}}]

Locks(k) == k.crtcs \cup DOMAIN k.moves
                \cup (IF DOMAIN k.modes = {} THEN {} ELSE {Connection})

Held(t) == IF call[t] = "idle" THEN {} ELSE Locks(commit[t])

\* Legal commits: planes go to displays that are on afterwards, and leave
\* displays that go off.
Legal(modes, moves) ==
    LET on(d) == IF d \in DOMAIN modes THEN modes[d] # None ELSE topology[d] # None
    IN /\ Cardinality(DOMAIN modes \cup DOMAIN moves) \in 1 .. MaxObjects
       /\ \A d \in DOMAIN modes : topology[d] # None \/ modes[d] # None
       /\ \A p \in DOMAIN moves : moves[p] # None => on(moves[p])
       /\ \A p \in DOMAIN moves : moves[p] # None \/ stage[p] # None
       /\ \A p \in Plane \ DOMAIN moves : stage[p] # None => on(stage[p])

Check(t) ==
    /\ call[t] = "idle" /\ commits < MaxCommits
    /\ \E modes \in ModeSets : \E moves \in {m \in Moves : Legal(modes, m)} :
       \E rm \in {RmCheck(modes)} \ {None} : \E nonblock \in BOOLEAN :
         /\ commit' = [commit EXCEPT ![t] = NewCommit(modes, moves, rm, nonblock)]
         /\ \A o \in Caller : Held(o) \cap Locks(commit'[t]) = {}
    /\ call' = [call EXCEPT ![t] = "start"] /\ commits' = commits + 1
    /\ UNCHANGED <<swstate, pending, threads, hardware>>

-----------------------------------------------------------------------------
(* msm_atomic_commit.                                                      *)

\* Mutant: CRTCs are not waited for.
StartNoCrtc(t) ==
    /\ call[t] = "start" /\ pending \cap (commit[t].mask \ Display) = {}
    /\ pending' = pending \cup commit[t].mask
    /\ call' = [call EXCEPT ![t] = "swap"]
    /\ UNCHANGED <<swstate, commits, commit, threads, hardware>>

\* start_atomic: no commit on any of these is pending.
StartAtomic(t) ==
    /\ call[t] = "start" /\ pending \cap commit[t].mask = {}
    /\ pending' = pending \cup commit[t].mask
    /\ call' = [call EXCEPT ![t] = "swap"]
    /\ UNCHANGED <<swstate, commits, commit, threads, hardware>>

\* A signal ends the wait and the call; nothing was marked.
Interrupted(t) ==
    /\ call[t] = "start" /\ pending \cap commit[t].mask # {}
    /\ call' = [call EXCEPT ![t] = "idle"] /\ commit' = [commit EXCEPT ![t] = None]
    /\ UNCHANGED <<swstate, commits, pending, threads, hardware>>

\* The thread of the first CRTC in the commit takes it.
ThreadOf(k) == First(Displays, {i \in DOMAIN Displays : Displays[i] \in k.crtcs})

\* drm_atomic_helper_swap_state and msm_atomic_commit_dispatch.
SwapAndDispatch(t) ==
    LET k == commit[t] IN
    /\ call[t] = "swap"
    /\ topology' = [d \in Display |-> IF d \in DOMAIN k.modes THEN k.modes[d] ELSE topology[d]]
    /\ stage' = [p \in Plane |-> IF p \in DOMAIN k.moves THEN k.moves[p] ELSE stage[p]]
    /\ IF DOMAIN k.modes = {} THEN UNCHANGED <<rsvp, version>>
                              ELSE rsvp' = k.rm /\ version' = version + 1
    /\ queue' = [queue EXCEPT ![ThreadOf(k)] = Append(@, k)]
    /\ call' = [call EXCEPT ![t] = IF k.nonblock THEN "idle" ELSE "flush"]
    /\ commit' = [commit EXCEPT ![t] = IF k.nonblock THEN None ELSE k]
    /\ UNCHANGED <<commits, pending, work, current, iter, hardware>>

InFlight == (UNION {ToSet(queue[d]) : d \in Display})
                \cup ({current[d] : d \in Display} \ {None})

\* kthread_flush_work of a blocking commit.
Flushed(t) ==
    /\ call[t] = "flush" /\ \A k \in InFlight : k.id # commit[t].id
    /\ call' = [call EXCEPT ![t] = "idle"] /\ commit' = [commit EXCEPT ![t] = None]
    /\ UNCHANGED <<swstate, commits, pending, threads, hardware>>

-----------------------------------------------------------------------------
(* complete_commit in a display thread.                                    *)

Step(d, from, to) == work[d] = from /\ work' = [work EXCEPT ![d] = to]

Enabled(k) == {c \in DOMAIN k.modes : k.modes[c] # None}

\* Displays with a mode set let go of blocks and planes (msm_disable_outputs).
DisableOutputs(k) ==
    /\ mixers' = [c \in Display |-> IF c \in DOMAIN k.modes THEN {} ELSE mixers[c]]
    /\ pipes' = [c \in Display |-> IF c \in DOMAIN k.modes THEN {} ELSE pipes[c]]

\* The thread takes the oldest commit and turns displays off.
Dequeue(d) ==
    LET k == Head(queue[d]) IN
    /\ queue[d] # <<>> /\ Step(d, "idle", IF Enabled(k) = {} THEN "commit" ELSE "setup")
    /\ current' = [current EXCEPT ![d] = k]
    /\ queue' = [queue EXCEPT ![d] = Tail(@)]
    /\ DisableOutputs(k)
    /\ UNCHANGED <<swstate, callers, pending, iter>>

\* _sde_crtc_setup_mixers walks through the lists of the state it finds and
\* takes the blocks of its encoders, one call of sde_rm_get_hw after the other.
FirstGetHw(d) ==
    /\ Step(d, "setup", "iterate")
    /\ iter' = [iter EXCEPT ![d] = version]
    /\ UNCHANGED <<swstate, callers, pending, queue, current, hardware>>

NextGetHw(d) ==
    /\ iter[d] = version
    /\ Step(d, "iterate", "commit")
    /\ mixers' = [c \in Display |->
                    IF c \in Enabled(current[d]) THEN BlocksOf(rsvp, c) ELSE mixers[c]]
    /\ UNCHANGED <<swstate, callers, pending, queue, current, iter, pipes>>

\* The state was replaced between two calls: the walk goes on in the old list
\* and does not meet the head of the new one.
LoseList(d) ==
    /\ iter[d] # version
    /\ Step(d, "iterate", "lost")
    /\ UNCHANGED <<swstate, callers, pending, queue, current, iter, hardware>>

\* drm_atomic_helper_commit_planes and the flush.
CommitPlanes(d) ==
    LET k == current[d] IN
    /\ Step(d, "commit", "end")
    /\ pipes' = [c \in Display |->
                   IF c \in k.crtcs THEN {p \in Plane : stage[p] = c} ELSE pipes[c]]
    /\ UNCHANGED <<swstate, callers, pending, queue, current, iter, mixers>>

\* Mutant: the planes stay marked.
EndKeepsPlanes(d) ==
    /\ Step(d, "end", "idle")
    /\ pending' = pending \ (current[d].mask \ Plane)
    /\ current' = [current EXCEPT ![d] = None]
    /\ UNCHANGED <<swstate, callers, queue, iter, hardware>>

\* commit_destroy: end_atomic.
EndAtomic(d) ==
    /\ Step(d, "end", "idle")
    /\ pending' = pending \ current[d].mask
    /\ current' = [current EXCEPT ![d] = None]
    /\ UNCHANGED <<swstate, callers, queue, iter, hardware>>

-----------------------------------------------------------------------------
CallerStep(t) == StartAtomic(t) \/ SwapAndDispatch(t) \/ Flushed(t)

ThreadStep(d) ==
    \/ Dequeue(d) \/ FirstGetHw(d) \/ NextGetHw(d) \/ LoseList(d)
    \/ CommitPlanes(d) \/ EndAtomic(d)

Next ==
    \/ \E t \in Caller : Check(t) \/ Interrupted(t) \/ CallerStep(t)
    \/ \E d \in Display : ThreadStep(d)

\* Threads go on when they can; nobody has to commit, and no signal has to
\* come.
Spec ==
    /\ Init /\ [][Next]_vars
    /\ \A t \in Caller : WF_vars(CallerStep(t))
    /\ \A d \in Display : WF_vars(ThreadStep(d))

-----------------------------------------------------------------------------
(* Properties.                                                             *)

TypeOK ==
    /\ topology \in [Display -> Topologies \cup {None}]
    /\ stage \in [Plane -> Display \cup {None}]
    /\ rsvp \in State /\ version \in Nat /\ commits \in 0 .. MaxCommits
    /\ call \in [Caller -> {"idle", "start", "swap", "flush"}]
    /\ pending \subseteq Resource
    /\ \A d \in Display : Len(queue[d]) <= 1
    /\ work \in [Display -> {"idle", "setup", "iterate", "commit", "end", "lost"}]
    /\ mixers \in [Display -> SUBSET Blk] /\ pipes \in [Display -> SUBSET Plane]

Busy == (UNION {k.crtcs : k \in InFlight})
            \cup (UNION {commit[t].crtcs : t \in {t \in Caller : call[t] = "swap"}})

\* A block that moves from one display to another is not programmed for the
\* second before the thread of the first has let go of it, nor is a plane
\* fetched by two displays, although each thread looks at the committed state
\* only when its turn comes (complete_commit).
NoSharing ==
    \A c, d \in Display :
        c # d => mixers[c] \cap mixers[d] = {} /\ pipes[c] \cap pipes[d] = {}

\* Once its commits have ended, a display uses what the committed state says,
\* whatever other commits were swapped in meanwhile, and never shares it with
\* another on the way.
HwFollowsState ==
    /\ NoSharing
    /\ \A d \in Display \ Busy :
         /\ mixers[d] = BlocksOf(rsvp, d)
         /\ pipes[d] = {p \in Plane : stage[p] = d}

Fits(s, d, top) ==
    LET mine == BlocksOf(s, d)
        lms == mine \cap ToSet(LmList)
    IN IF top = None THEN mine = {}
       ELSE /\ Cardinality(lms) = TopologyTbl[top].num_lm
            /\ Cardinality(mine \cap ToSet(DscList)) = TopologyTbl[top].num_comp_enc
            /\ \A lm \in lms : Connected(lm) \subseteq mine

\* A display that is on has as many mixers and compressors as its topology
\* says (sde_crtc.c reports `allocated mixers != topology mixers'), each with
\* the blocks it is connected to, and one that is off has none.
RsvpFits == \A d \in Display : Fits(rsvp, d, topology[d])

\* Commits work on their CRTCs, planes and blocks alone: the display threads
\* and masks implement the abstract specification.
Uses(id) ==
    (UNION {k.uses : k \in {k \in InFlight : k.id = id}})
        \cup (UNION {commit[t].uses : t \in {t \in Caller : call[t] = "swap" /\ commit[t].id = id}})

EC == INSTANCE ExclusiveCommits
        WITH Commit <- CommitId, holds <- [id \in CommitId |-> Uses(id)]

Exclusive == EC!Spec

\* A commit that passed the check returns to its caller, unless a display
\* thread got lost in a list.
CommitReturns ==
    \A t \in Caller :
        call[t] # "idle" ~> (call[t] = "idle" \/ \E d \in Display : work[d] = "lost")
=============================================================================
