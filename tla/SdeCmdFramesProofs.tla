------------------------ MODULE SdeCmdFramesProofs ------------------------
(***************************************************************************)
(* Proofs about SdeCmdFrames: types in every fault mode; and, as long as   *)
(* no transfer hangs, that no fence is early and that every frame is       *)
(* reported once the display is at rest.                                   *)
(***************************************************************************)
EXTENDS SdeCmdFrames, NatLemmas, FiniteSetTheorems, TLAPS

\* Frames that events 1 .. n of a queue report.
Done(s, n) == Count("done", s, n)

Event == {FrameDone, {"retire"}}

Before == {"wait", "flush", "kick"}   \* prepared, not kicked off

\* The numbers the accounts of frames are made of.
Reported == Done(fevents, Len(fevents))
InFlight == IF busy # {} \/ handler["irq"] # None THEN 1 ELSE 0
Preparing == IF disp \in Before THEN 1 ELSE 0
Kicking == IF disp = "kick" THEN 1 ELSE 0
Working == IF worker # None THEN 1 ELSE 0
Releasing == IF worker = FrameDone THEN 1 ELSE 0
Retiring == IF worker = {"retire"} THEN 1 ELSE 0

-----------------------------------------------------------------------------
(* The invariant.                                                          *)

\* Nothing of a frame is on the hardware or in its handlers.
Idle == ~trig /\ hw = {} /\ latch \cap Phys = {} /\ handler["irq"] = None

\* An encoder is in one place of the frame it counts: started, transferring,
\* done, or in the handler.
Once ==
    \A p \in Phys :
        /\ trig \/ p \in hw \cup latch \/ handler["irq"] = p => kickoff_cnt[p] = 1
        /\ trig => p \notin hw \cup latch /\ handler["irq"] # p
        /\ p \in hw => p \notin latch /\ handler["irq"] # p
        /\ p \in latch => handler["irq"] # p

\* A frame is kicked off only when the one before is over on every encoder,
\* and the master has then reported its retire fence.
Counters ==
    /\ disp = "wait" => \A p \in Phys \ waits : kickoff_cnt[p] = 0
    /\ disp \in {"flush", "kick", "count"} => \A p \in Phys : kickoff_cnt[p] = 0
    /\ disp = "start" => \A p \in Phys : kickoff_cnt[p] = 1
    /\ disp # "count" => retire_cnt <= kickoff_cnt[Master]
    /\ handler["irq"] = Master => retire_cnt = 0
    /\ disp \in Before => kicked < MaxFrames[fault]
    /\ disp \in {"off_wait", "off_flush"} => "off" \in fault
    /\ needs_reset => disp \in {"wait", "off_wait"}
    /\ disp \in {"flush", "kick", "count", "start"} => Idle
    /\ ~needs_reset => Once

\* While no transfer hangs: a frame is over on an encoder when that has left
\* the busy mask and its handler has come back, and the mask holds the encoders
\* that are started, transferring or done.
Flight ==
    /\ handler["disp"] = None /\ ~needs_reset
    /\ handler["irq"] \notin busy
    /\ disp # "count" =>
         \A p \in Phys : kickoff_cnt[p] = B(p \in busy \/ handler["irq"] = p)
    /\ disp = "off_wait" => \A p \in Phys \ waits : kickoff_cnt[p] = 0
    /\ disp = "off_flush" => \A p \in Phys : kickoff_cnt[p] = 0
    /\ disp \in {"count", "start"} => busy = Phys
    /\ disp \notin {"count", "start"} /\ ~trig => busy = hw \cup (latch \cap Phys)
    /\ retire_cnt <= B(Master \in busy)

\* The events on their way: a retire event is followed by the frame done of its
\* frame, so the CRTC still counts that frame, and the pool never runs out.
Queue ==
    /\ fevents \in Seq(Event) /\ worker \in Event \cup {None}
    /\ frame_pending = InFlight + Kicking + Reported
    /\ \A i \in 1 .. Len(fevents) :
         "retire" \in fevents[i] => frame_pending > Done(fevents, i)
    /\ worker = {"retire"} => frame_pending > 0
    /\ Len(fevents) + Working + retire_cnt + InFlight <= 3
    /\ disp = "kick" => Len(fevents) + Working <= 1

\* Every frame kicked off is signalled, on its way, or still to be reported.
Balance ==
    /\ prepared = kicked + Preparing
    /\ released <= prepared
    /\ kicked <= released + Reported + Releasing + InFlight
    /\ "off" \notin fault => kicked = released + Reported + Releasing + InFlight
    /\ kicked = retired + (Len(fevents) - Reported) + Retiring + retire_cnt

IInv ==
    /\ TypeOK /\ Counters
    /\ "timeout" \notin fault => Flight /\ Queue /\ Balance

-----------------------------------------------------------------------------
(* Types and counters, in every fault mode.                                *)

Places == {"free", "wait", "flush", "kick", "count", "start", "ctl", "off_wait", "off_flush"}

\* Posting keeps the queue a queue of events.
LEMMA PostType ==
  ASSUME EventsTypeOK, NEW e \in SUBSET Flag, Post(e)
  PROVE  fevents' \in Seq(SUBSET Flag)
  BY DEF EventsTypeOK, Post

LEMMA RetireEventType ==
  ASSUME NEW p PROVE RetireEvent(p) \in SUBSET Flag
  BY DEF RetireEvent, Flag

LEMMA FrameDoneType == FrameDone \in SUBSET Flag /\ {} \in SUBSET Flag /\ FrameDone # {}
  BY DEF FrameDone, Flag

\* The parts of the type invariant that an action changes.
LEMMA TypeStep == TypeOK /\ Counters /\ [Next]_vars => TypeOK'
<1> SUFFICES ASSUME TypeOK, Counters, [Next]_vars PROVE TypeOK'
  OBVIOUS
<1> USE CmdAssumption DEF TypeOK, counts, hardware, events, fences, Context
<1>0. EventsTypeOK /\ MaxFrames[fault] \in Nat
  OBVIOUS
<1>1. CASE PrepareCommit
  BY <1>1 DEF PrepareCommit, EventsTypeOK
<1>2. CASE Disable
  BY <1>2 DEF Disable, EventsTypeOK
<1>3. ASSUME NEW p \in Phys, WaitForIdle(p)  PROVE TypeOK'
  BY <1>3 DEF WaitForIdle, EventsTypeOK
<1>4. ASSUME NEW p \in Phys, PpDoneTimeout(p)  PROVE TypeOK'
  <2>1. fevents' \in Seq(SUBSET Flag)
    BY <1>4, PostType, RetireEventType DEF PpDoneTimeout
  <2>2. handler' \in [Context -> Phys \cup {None}] /\ busy' \subseteq Phys
    BY <1>4 DEF PpDoneTimeout, FrameDoneClear
  <2>3. kickoff_cnt' \in [Phys -> 0 .. 1] /\ retire_cnt' \in 0 .. 1 /\ ctlstart_cnt' \in Nat
    BY <1>4 DEF PpDoneTimeout, Dec
  <2> QED  BY <1>4, <2>1, <2>2, <2>3 DEF PpDoneTimeout, EventsTypeOK
<1>5. CASE PpDoneTimeoutEnd
  <2>1. fevents' \in Seq(SUBSET Flag)
    BY <1>5, PostType, FrameDoneType DEF PpDoneTimeoutEnd, FrameDoneTest
  <2> QED  BY <1>5, <2>1 DEF PpDoneTimeoutEnd, FrameDoneTest, EventsTypeOK
<1>6. CASE PrepareForKickoff
  BY <1>6 DEF PrepareForKickoff, EventsTypeOK
<1>7. CASE CommitKickoff
  BY <1>7 DEF CommitKickoff, EventsTypeOK
<1>8. CASE KickoffFlush
  BY <1>8 DEF KickoffFlush, EventsTypeOK, Counters, Before
<1>9. CASE KickoffCount
  BY <1>9 DEF KickoffCount, EventsTypeOK, Counters
<1>10. CASE KickoffStart
  BY <1>10 DEF KickoffStart, EventsTypeOK
<1>11. CASE WaitForCtlStart
  BY <1>11 DEF WaitForCtlStart, EventsTypeOK
<1>12. CASE CtlStartTimeout
  <2>1. fevents' \in Seq(SUBSET Flag)
    BY <1>12, PostType, RetireEventType DEF CtlStartTimeout
  <2>2. retire_cnt' \in 0 .. 1 /\ ctlstart_cnt' \in Nat
    BY <1>12 DEF CtlStartTimeout, Dec
  <2> QED  BY <1>12, <2>1, <2>2 DEF CtlStartTimeout, EventsTypeOK
<1>13. CASE DisableIrqs
  BY <1>13 DEF DisableIrqs, EventsTypeOK
<1>14. CASE CrtcDisable
  BY <1>14 DEF CrtcDisable, ResetFences, EventsTypeOK
<1>15. ASSUME NEW p \in Phys, PpDoneBegin(p)  PROVE TypeOK'
  <2>1. fevents' \in Seq(SUBSET Flag)
    BY <1>15, PostType, RetireEventType DEF PpDoneBegin
  <2>2. handler' \in [Context -> Phys \cup {None}] /\ busy' \subseteq Phys
    BY <1>15 DEF PpDoneBegin, FrameDoneClear
  <2>3. kickoff_cnt' \in [Phys -> 0 .. 1] /\ retire_cnt' \in 0 .. 1 /\ ctlstart_cnt' \in Nat
    BY <1>15 DEF PpDoneBegin, Dec
  <2>4. latch' \subseteq Phys \cup {"ctl", "rd"}
    BY <1>15 DEF PpDoneBegin, Irq
  <2> QED  BY <1>15, <2>1, <2>2, <2>3, <2>4 DEF PpDoneBegin, EventsTypeOK
<1>16. CASE PpDoneEnd
  <2>1. fevents' \in Seq(SUBSET Flag)
    BY <1>16, PostType, FrameDoneType DEF PpDoneEnd, FrameDoneTest
  <2>2. handler' \in [Context -> Phys \cup {None}]
    BY <1>16 DEF PpDoneEnd, FrameDoneTest
  <2>3. kickoff_cnt' \in [Phys -> 0 .. 1]
    BY <1>16 DEF PpDoneEnd, Dec
  <2> QED  BY <1>16, <2>1, <2>2, <2>3 DEF PpDoneEnd, EventsTypeOK
<1>17. CASE RdPtrIrq
  <2>1. fevents' \in Seq(SUBSET Flag) /\ retire_cnt' \in 0 .. 1 /\ rd_ptr_cnt' \in Nat
    BY <1>17, PostType, RetireEventType DEF RdPtrIrq, EventsTypeOK, Dec
  <2> QED  BY <1>17, <2>1 DEF RdPtrIrq, Irq, EventsTypeOK
<1>18. CASE CtlStartIrq
  <2>1. fevents' \in Seq(SUBSET Flag)
    BY <1>18, PostType, RetireEventType DEF CtlStartIrq, EventsTypeOK
  <2>2. retire_cnt' \in 0 .. 1 /\ rd_ptr_cnt' \in Nat /\ ctlstart_cnt' \in Nat
    BY <1>18 DEF CtlStartIrq, Dec
  <2> QED  BY <1>18, <2>1, <2>2 DEF CtlStartIrq, Irq, EventsTypeOK
<1>19. CASE WorkBegin
  <2>1. worker' \in SUBSET Flag /\ fevents' \in Seq(SUBSET Flag) /\ frame_pending' \in Nat
    BY <1>19 DEF WorkBegin, FrameEventWork, EventsTypeOK, Dec
  <2> QED  BY <1>19, <2>1 DEF WorkBegin, FrameEventWork, EventsTypeOK
<1>20. CASE WorkEnd
  <2>1. released' \in Nat /\ retired' \in Nat
    BY <1>20 DEF WorkEnd, SignalFences, Signal, EventsTypeOK
  <2> QED  BY <1>20, <2>1 DEF WorkEnd, SignalFences, EventsTypeOK
<1>21. CASE HwStart
  <2>1. latch' \subseteq latch \cup {"ctl"}
    BY <1>21 DEF HwStart
  <2>2. latch' \subseteq Phys \cup {"ctl", "rd"} /\ started' \in Nat
    BY <1>21, <2>1 DEF HwStart
  <2> QED  BY <1>21, <2>2 DEF HwStart, EventsTypeOK
<1>22. ASSUME NEW p \in Phys, HwDone(p)  PROVE TypeOK'
  BY <1>22 DEF HwDone, EventsTypeOK
<1>23. CASE HwTe
  BY <1>23 DEF HwTe, EventsTypeOK
<1>24. CASE UNCHANGED vars
  BY <1>24 DEF vars, EventsTypeOK
<1> QED
  BY <1>1, <1>2, <1>3, <1>4, <1>5, <1>6, <1>7, <1>8, <1>9, <1>10, <1>11, <1>12,
     <1>13, <1>14,
     <1>15, <1>16, <1>17, <1>18, <1>19, <1>20, <1>21, <1>22, <1>23, <1>24
  DEF Next, DispStep, IrqStep, EventStep, HwStep

LEMMA CountersStep == TypeOK /\ Counters /\ [Next]_vars => Counters'
<1> SUFFICES ASSUME TypeOK, Counters, [Next]_vars PROVE Counters'
  OBVIOUS
<1> USE CmdAssumption DEF TypeOK, counts, hardware, Context, Counters, Once, Idle
<1>1. CASE PrepareCommit
  BY <1>1 DEF PrepareCommit, Before
<1>2. CASE Disable
  BY <1>2 DEF Disable, Before
<1>3. ASSUME NEW p \in Phys, WaitForIdle(p)  PROVE Counters'
  BY <1>3 DEF WaitForIdle
<1>4. ASSUME NEW p \in Phys, PpDoneTimeout(p)  PROVE Counters'
  <2>1. /\ needs_reset' /\ UNCHANGED <<disp, fault, kicked>> /\ disp \in {"wait", "off_wait"}
        /\ handler'["irq"] = handler["irq"]
        /\ waits' = IF disp = "wait" THEN waits \ {p} ELSE {}
    BY <1>4 DEF PpDoneTimeout, FrameDoneClear, Waiting
  <2>2. /\ kickoff_cnt'[p] = IF disp = "wait" THEN 0 ELSE Dec(kickoff_cnt[p])
        /\ \A q \in Phys \ {p} : kickoff_cnt'[q] = kickoff_cnt[q]
        /\ retire_cnt' = IF p = Master THEN Dec(retire_cnt) ELSE retire_cnt
    BY <1>4 DEF PpDoneTimeout
  <2>3. retire_cnt' <= kickoff_cnt'[Master]
    <3>1. p = Master => retire_cnt' = 0  BY <2>2 DEF Dec
    <3>2. kickoff_cnt'[Master] >= 0  BY <2>2 DEF Dec
    <3> QED  BY <2>1, <2>2, <3>1, <3>2
  <2>4. handler'["irq"] = Master => retire_cnt' = 0
    BY <2>1, <2>2 DEF Dec
  <2>5. disp = "wait" => \A q \in Phys \ waits' : kickoff_cnt'[q] = 0
    BY <2>1, <2>2
  <2> QED  BY <2>1, <2>3, <2>4, <2>5
<1>5. CASE PpDoneTimeoutEnd
  BY <1>5 DEF PpDoneTimeoutEnd, FrameDoneTest
<1>6. CASE PrepareForKickoff
  BY <1>6 DEF PrepareForKickoff, Before
<1>7. CASE CommitKickoff
  BY <1>7 DEF CommitKickoff, Before
<1>8. CASE KickoffFlush
  BY <1>8 DEF KickoffFlush, Before
<1>9. CASE KickoffCount
  BY <1>9 DEF KickoffCount, Before
<1>10. CASE KickoffStart
  BY <1>10 DEF KickoffStart, Before
<1>11. CASE WaitForCtlStart
  BY <1>11 DEF WaitForCtlStart, Before
<1>12. CASE CtlStartTimeout
  BY <1>12 DEF CtlStartTimeout, Dec, Before
<1>13. CASE DisableIrqs
  BY <1>13 DEF DisableIrqs, Before
<1>14. CASE CrtcDisable
  BY <1>14 DEF CrtcDisable, Before
<1>15. ASSUME NEW p \in Phys, PpDoneBegin(p)  PROVE Counters'
  BY <1>15 DEF PpDoneBegin, Irq, FrameDoneClear, Dec
<1>16. CASE PpDoneEnd
  BY <1>16 DEF PpDoneEnd, FrameDoneTest, Dec
<1>17. CASE RdPtrIrq
  BY <1>17 DEF RdPtrIrq, Irq, Dec
<1>18. CASE CtlStartIrq
  BY <1>18 DEF CtlStartIrq, Irq
<1>19. CASE WorkBegin
  BY <1>19 DEF WorkBegin
<1>20. CASE WorkEnd
  BY <1>20 DEF WorkEnd
<1>21. CASE HwStart
  BY <1>21 DEF HwStart
<1>22. ASSUME NEW p \in Phys, HwDone(p)  PROVE Counters'
  BY <1>22 DEF HwDone
<1>23. CASE HwTe
  BY <1>23 DEF HwTe
<1>24. CASE UNCHANGED vars
  BY <1>24 DEF vars
<1> QED
  BY <1>1, <1>2, <1>3, <1>4, <1>5, <1>6, <1>7, <1>8, <1>9, <1>10, <1>11, <1>12,
     <1>13, <1>14, <1>15, <1>16, <1>17, <1>18, <1>19, <1>20, <1>21, <1>22, <1>23,
     <1>24
  DEF Next, DispStep, IrqStep, EventStep, HwStep

-----------------------------------------------------------------------------
(* The place of the frame, while no transfer hangs.                        *)

LEMMA FlightStep ==
  TypeOK /\ Counters /\ "timeout" \notin fault /\ Flight /\ [Next]_vars => Flight'
<1> SUFFICES ASSUME TypeOK, Counters, "timeout" \notin fault, Flight, [Next]_vars PROVE Flight'
  OBVIOUS
<1>0. Once
  BY DEF Counters, Flight
<1> USE CmdAssumption, <1>0 DEF TypeOK, counts, hardware, Context, Counters, Once,
        Idle, Flight, B
<1>1. CASE PrepareCommit
  BY <1>1 DEF PrepareCommit
<1>2. CASE Disable
  BY <1>2 DEF Disable
<1>3. ASSUME NEW p \in Phys, WaitForIdle(p)  PROVE Flight'
  BY <1>3 DEF WaitForIdle
<1>4. ASSUME NEW p \in Phys, PpDoneTimeout(p)  PROVE Flight'
  BY <1>4 DEF PpDoneTimeout
<1>5. CASE PpDoneTimeoutEnd
  BY <1>5 DEF PpDoneTimeoutEnd
<1>6. CASE PrepareForKickoff
  BY <1>6 DEF PrepareForKickoff
<1>7. CASE CommitKickoff
  BY <1>7 DEF CommitKickoff
<1>8. CASE KickoffFlush
  BY <1>8 DEF KickoffFlush
<1>9. CASE KickoffCount
  BY <1>9 DEF KickoffCount
<1>10. CASE KickoffStart
  BY <1>10 DEF KickoffStart
<1>11. CASE WaitForCtlStart
  BY <1>11 DEF WaitForCtlStart
<1>12. CASE CtlStartTimeout
  BY <1>12 DEF CtlStartTimeout, Dec
<1>13. CASE DisableIrqs
  BY <1>13 DEF DisableIrqs
<1>14. CASE CrtcDisable
  BY <1>14 DEF CrtcDisable
<1>15. ASSUME NEW p \in Phys, PpDoneBegin(p)  PROVE Flight'
  BY <1>15 DEF PpDoneBegin, Irq, FrameDoneClear, Dec
<1>16. CASE PpDoneEnd
  BY <1>16 DEF PpDoneEnd, FrameDoneTest, Dec
<1>17. CASE RdPtrIrq
  BY <1>17 DEF RdPtrIrq, Irq, Dec
<1>18. CASE CtlStartIrq
  BY <1>18 DEF CtlStartIrq, Irq
<1>19. CASE WorkBegin
  BY <1>19 DEF WorkBegin
<1>20. CASE WorkEnd
  BY <1>20 DEF WorkEnd
<1>21. CASE HwStart
  BY <1>21 DEF HwStart
<1>22. ASSUME NEW p \in Phys, HwDone(p)  PROVE Flight'
  BY <1>22 DEF HwDone
<1>23. CASE HwTe
  BY <1>23 DEF HwTe
<1>24. CASE UNCHANGED vars
  BY <1>24 DEF vars
<1> QED
  BY <1>1, <1>2, <1>3, <1>4, <1>5, <1>6, <1>7, <1>8, <1>9, <1>10, <1>11, <1>12,
     <1>13, <1>14, <1>15, <1>16, <1>17, <1>18, <1>19, <1>20, <1>21, <1>22, <1>23,
     <1>24
  DEF Next, DispStep, IrqStep, EventStep, HwStep

-----------------------------------------------------------------------------
(* The accounts of frames and events, while no transfer hangs.             *)

LEMMA EventFacts ==
  /\ None \notin Event /\ "done" \in FrameDone /\ "done" \notin {"retire"}
  /\ "retire" \notin FrameDone /\ "release" \in FrameDone /\ "release" \notin {"retire"}
  /\ {} \notin Event /\ FrameDone # {"retire"}
  BY CmdAssumption DEF Event, FrameDone, Flag

LEMMA Numbers ==
  TypeOK => /\ Len(fevents) \in Nat /\ Reported \in Nat /\ Reported <= Len(fevents)
            /\ InFlight \in {0, 1} /\ Preparing \in {0, 1} /\ Kicking \in {0, 1}
            /\ Working \in {0, 1} /\ Releasing \in {0, 1} /\ Retiring \in {0, 1}
            /\ retire_cnt \in {0, 1} /\ kicked \in Nat /\ frame_pending \in Nat
            /\ prepared \in Nat /\ released \in Nat /\ retired \in Nat
<1> SUFFICES ASSUME TypeOK
             PROVE  /\ Len(fevents) \in Nat /\ Reported \in Nat /\ Reported <= Len(fevents)
                    /\ retire_cnt \in {0, 1} /\ kicked \in Nat /\ frame_pending \in Nat
                    /\ prepared \in Nat /\ released \in Nat /\ retired \in Nat
  BY DEF InFlight, Preparing, Kicking, Working, Releasing, Retiring
<1>1. Len(fevents) \in Nat
  BY DEF TypeOK, EventsTypeOK
<1>2. Reported \in 0 .. Len(fevents)
  BY <1>1, CountFinite DEF Reported, Done
<1>3. MaxFrames[fault] \in Nat
  BY CmdAssumption DEF TypeOK
<1> QED  BY <1>1, <1>2, <1>3 DEF TypeOK, EventsTypeOK

LEMMA NumbersNext ==
  TypeOK' => /\ Len(fevents') \in Nat /\ Reported' \in Nat /\ Reported' <= Len(fevents')
             /\ InFlight' \in {0, 1} /\ retire_cnt' \in {0, 1} /\ Kicking' \in {0, 1}
             /\ released' \in Nat /\ retired' \in Nat
<1> SUFFICES ASSUME TypeOK'
             PROVE  /\ Len(fevents') \in Nat /\ Reported' \in Nat /\ Reported' <= Len(fevents')
                    /\ retire_cnt' \in {0, 1} /\ released' \in Nat /\ retired' \in Nat
  BY DEF InFlight, Kicking
<1>1. Len(fevents') \in Nat
  BY DEF TypeOK, EventsTypeOK
<1>2. Reported' \in 0 .. Len(fevents')
  BY <1>1, CountFinite DEF Reported, Done
<1> QED  BY <1>1, <1>2 DEF TypeOK, EventsTypeOK

\* Steps that neither post nor take an event.
LEMMA Quiet1 ==
  ASSUME Queue, Balance, UNCHANGED <<fault, events, fences, kicked>>, retire_cnt' = retire_cnt,
         InFlight' = InFlight, Kicking' = Kicking, Preparing' = Preparing
  PROVE  Queue' /\ Balance'
<1>1. /\ Working' = Working /\ Releasing' = Releasing /\ Retiring' = Retiring
      /\ Reported' = Reported /\ fevents' = fevents /\ worker' = worker
      /\ frame_pending' = frame_pending /\ UNCHANGED <<prepared, released, retired>>
  BY DEF events, fences, Working, Releasing, Retiring, Reported
<1>2. disp' = "kick" <=> disp = "kick"
  BY DEF Kicking
<1>3. Queue'
  BY <1>1, <1>2 DEF Queue
<1> QED  BY <1>1, <1>3 DEF Balance

\* The pool has room for an event that a frame in flight still owes.
LEMMA Posted ==
  ASSUME Queue, TypeOK, NEW e \in Event, Post(e), retire_cnt + InFlight > 0
  PROVE  /\ fevents' = Append(fevents, e) /\ fevents' \in Seq(Event)
         /\ Len(fevents') = Len(fevents) + 1 /\ fevents'[Len(fevents) + 1] = e
         /\ \A i \in 1 .. Len(fevents) : fevents'[i] = fevents[i]
         /\ \A i \in 0 .. Len(fevents) : Done(fevents', i) = Done(fevents, i)
         /\ Reported' = Reported + IF "done" \in e THEN 1 ELSE 0
<1>1. e # {} /\ fevents \in Seq(Event)
  BY EventFacts DEF Queue
<1>2. Len(fevents) + Working < PoolSize
  BY Numbers, CmdAssumption, PoolAssumption DEF Queue
<1>3. B(worker # None) = Working
  BY DEF B, Working
<1>4. ~(e = {} \/ Len(fevents) + B(worker # None) >= PoolSize)
  BY <1>1, <1>2, <1>3, Numbers, PoolAssumption
<1>5. fevents' = Append(fevents, e)
  BY <1>4 DEF Post
<1>6. Len(fevents') = Len(fevents) + 1
  BY <1>1, <1>5
<1> QED  BY <1>1, <1>5, <1>6, CountAppend DEF Reported, Done

\* The retire fence of the frame in flight is reported, if it was not before.
LEMMA RetireReported ==
  ASSUME TypeOK, TypeOK', Counters, Flight, Queue, Balance, Post(RetireEvent(Master)),
         retire_cnt' = Dec(retire_cnt), UNCHANGED <<fault, frame_pending, worker, fences, kicked>>,
         InFlight' = InFlight, Kicking' = Kicking, Preparing' = Preparing
  PROVE  Queue' /\ Balance'
<1>1. CASE retire_cnt = 0
  <2>1. fevents' = fevents /\ retire_cnt' = retire_cnt
    BY <1>1 DEF RetireEvent, Post, Dec
  <2> QED  BY <2>1, Quiet1 DEF events
<1>2. CASE retire_cnt = 1
  <2>1. RetireEvent(Master) = {"retire"} /\ retire_cnt' = 0 /\ {"retire"} \in Event
    BY <1>2 DEF RetireEvent, Dec, Event
  <2>2. InFlight = 1
    BY <1>2 DEF Flight, InFlight, B
  <2>3. /\ fevents' \in Seq(Event) /\ Len(fevents') = Len(fevents) + 1
        /\ fevents'[Len(fevents) + 1] = {"retire"}
        /\ \A i \in 1 .. Len(fevents) : fevents'[i] = fevents[i]
        /\ \A i \in 0 .. Len(fevents) : Done(fevents', i) = Done(fevents, i)
        /\ Reported' = Reported
    BY <2>1, <2>2, <1>2, Posted, EventFacts, Numbers, SMTT(30)
  <2>4. /\ Working' = Working /\ Releasing' = Releasing /\ Retiring' = Retiring
        /\ UNCHANGED <<frame_pending, worker, prepared, released, retired>>
        /\ disp' = "kick" <=> disp = "kick"
    BY DEF fences, Working, Releasing, Retiring, Kicking
  <2>5. frame_pending > Reported
    BY <2>2, Numbers DEF Queue
  <2>6. \A i \in 1 .. Len(fevents') : "retire" \in fevents'[i] => frame_pending' > Done(fevents', i)
    <3> SUFFICES ASSUME NEW i \in 1 .. Len(fevents'), "retire" \in fevents'[i]
                 PROVE  frame_pending' > Done(fevents', i)
      OBVIOUS
    <3>1. CASE i = Len(fevents) + 1
      BY <3>1, <2>3, <2>4, <2>5 DEF Reported
    <3>2. CASE i \in 1 .. Len(fevents)
      BY <3>2, <2>3, <2>4 DEF Queue
    <3> QED  BY <3>1, <3>2, <2>3, Numbers
  <2>7. disp' = "kick" => Len(fevents') + Working' <= 1
    <3>1. Master \in Phys  BY CmdAssumption
    <3>2. disp # "kick"
      BY <1>2, <3>1 DEF Counters
    <3> QED  BY <2>4, <3>2
  <2>8. Queue'
    BY <1>2, <2>1, <2>2, <2>3, <2>4, <2>6, <2>7, Numbers DEF Queue
  <2>9. Balance'
    BY <1>2, <2>1, <2>2, <2>3, <2>4, Numbers DEF Balance
  <2> QED  BY <2>8, <2>9
<1> QED  BY <1>1, <1>2, Numbers

\* The last encoder reports the frame.
LEMMA DoneReported ==
  ASSUME TypeOK, TypeOK', Flight, Queue, Balance, Post(FrameDone), disp # "kick",
         UNCHANGED <<fault, disp, retire_cnt, frame_pending, worker, fences, kicked>>,
         retire_cnt = 0, InFlight = 1, InFlight' = 0
  PROVE  Queue' /\ Balance'
<1>1. FrameDone \in Event  BY DEF Event
<1>2. /\ fevents' \in Seq(Event) /\ Len(fevents') = Len(fevents) + 1
      /\ fevents'[Len(fevents) + 1] = FrameDone
      /\ \A i \in 1 .. Len(fevents) : fevents'[i] = fevents[i]
      /\ \A i \in 0 .. Len(fevents) : Done(fevents', i) = Done(fevents, i)
      /\ Reported' = Reported + 1
  BY <1>1, Posted, EventFacts, Numbers
<1>3. /\ Working' = Working /\ Releasing' = Releasing /\ Retiring' = Retiring
      /\ Kicking' = Kicking /\ Preparing' = Preparing
      /\ UNCHANGED <<fault, kicked, retire_cnt, prepared, released, retired>>
  BY DEF fences, Working, Releasing, Retiring, Kicking, Preparing
<1>4. \A i \in 1 .. Len(fevents') : "retire" \in fevents'[i] => frame_pending' > Done(fevents', i)
  <2> SUFFICES ASSUME NEW i \in 1 .. Len(fevents'), "retire" \in fevents'[i]
               PROVE  frame_pending' > Done(fevents', i)
    OBVIOUS
  <2>1. i # Len(fevents) + 1
    BY <1>2, EventFacts
  <2>2. i \in 1 .. Len(fevents)
    BY <2>1, <1>2, Numbers
  <2> QED  BY <2>2, <1>2 DEF Queue
<1>5. Queue'
  BY <1>2, <1>3, <1>4, Numbers DEF Queue
<1>6. Balance'
  <2>1. kicked' = retired' + (Len(fevents') - Reported') + Retiring' + retire_cnt'
    BY <1>2, <1>3, Numbers DEF Balance
  <2>2. released' + Reported' + Releasing' + InFlight'
          = released + Reported + Releasing + InFlight
    <3>1. Reported' = Reported + 1 /\ released' = released /\ Releasing' = Releasing
      BY <1>2, <1>3
    <3> QED  BY <3>1, Numbers
  <2> QED  BY <1>3, <2>1, <2>2 DEF Balance
<1> QED  BY <1>5, <1>6

\* A frame the CRTC counts no more has no event left in the queue.
LEMMA NonePending ==
  ASSUME TypeOK, Queue, frame_pending = 0
  PROVE  fevents = <<>> /\ worker # {"retire"}
<1>1. Reported = 0
  BY Numbers DEF Queue
<1>2. ASSUME Len(fevents) # 0  PROVE FALSE
  <2> DEFINE n == Len(fevents)
  <2>1. n \in Nat /\ n - 1 \in Nat /\ (n - 1) + 1 = n /\ n \in 1 .. n
    BY <1>2, Numbers
  <2>2. Done(fevents, (n - 1) + 1)
          = Done(fevents, n - 1) + IF "done" \in fevents[(n - 1) + 1] THEN 1 ELSE 0
    BY <2>1, CountStep DEF Done
  <2>3. Done(fevents, n - 1) \in 0 .. n - 1
    BY <2>1, CountFinite DEF Done
  <2>4. Done(fevents, n) = 0
    BY <1>1 DEF Reported
  <2>5. fevents[n] \in Event
    BY <2>1 DEF Queue
  <2> HIDE DEF n
  <2>6. "done" \notin fevents[n]
    BY <2>1, <2>2, <2>3, <2>4
  <2>7. "retire" \in fevents[n]
    BY <2>5, <2>6, EventFacts DEF Event
  <2>8. frame_pending > Done(fevents, n)
    BY <2>1, <2>7 DEF Queue, n
  <2> QED  BY <2>4, <2>8
<1>3. fevents \in Seq(Event)  BY DEF Queue
<1> QED  BY <1>2, <1>3 DEF Queue

\* The event thread takes the oldest event.
LEMMA Taken ==
  ASSUME TypeOK, TypeOK', Queue, Balance, FrameEventWork,
         UNCHANGED <<fault, disp, retire_cnt, kicked, InFlight>>
  PROVE  Queue' /\ Balance'
<1> DEFINE d == IF "done" \in Head(fevents) THEN 1 ELSE 0
<1>1. /\ worker = None /\ fevents # <<>> /\ worker' = Head(fevents) /\ fevents' = Tail(fevents)
      /\ fevents \in Seq(Event) /\ UNCHANGED <<prepared, released, retired>>
      /\ frame_pending' = IF "done" \in worker' THEN Dec(frame_pending) ELSE frame_pending
  BY DEF FrameEventWork, Queue, fences
<1>2. /\ fevents' \in Seq(Event) /\ Len(fevents') = Len(fevents) - 1 /\ Len(fevents) \in Nat \ {0}
      /\ Head(fevents) = fevents[1] /\ fevents[1] \in Event
      /\ \A i \in 1 .. Len(fevents) - 1 : fevents'[i] = fevents[i + 1]
  BY <1>1
<1>3. \A n \in 0 .. Len(fevents) - 1 : Done(fevents, n + 1) = Done(fevents', n) + d
  BY <1>1, CountTail DEF Done
<1>4. Reported = Reported' + d
  <2>1. Len(fevents) - 1 \in 0 .. Len(fevents) - 1 /\ (Len(fevents) - 1) + 1 = Len(fevents)
    BY <1>2
  <2>2. Done(fevents, (Len(fevents) - 1) + 1) = Done(fevents', Len(fevents) - 1) + d
    BY <1>3, <2>1
  <2> HIDE DEF d
  <2> QED  BY <1>2, <2>1, <2>2 DEF Reported
<1>5. /\ Kicking' = Kicking /\ Preparing' = Preparing /\ Working = 0 /\ Working' = 1
      /\ Releasing = 0 /\ Retiring = 0 /\ Releasing' = d /\ Retiring' = 1 - d
      /\ d \in {0, 1}
  BY <1>1, <1>2, EventFacts DEF Kicking, Preparing, Working, Releasing, Retiring,
     Event
<1>6. frame_pending' = frame_pending - d
  <2>1. frame_pending >= d
    BY <1>4, <1>5, Numbers, NumbersNext, SMTT(30) DEF Queue
  <2>2. d = 1 <=> "done" \in worker'
    BY <1>1
  <2> HIDE DEF d
  <2> QED  BY <1>1, <1>5, <2>1, <2>2, Numbers DEF Dec
<1> HIDE DEF d
<1>7. \A i \in 1 .. Len(fevents') : "retire" \in fevents'[i] => frame_pending' > Done(fevents', i)
  <2> SUFFICES ASSUME NEW i \in 1 .. Len(fevents'), "retire" \in fevents'[i]
               PROVE  frame_pending' > Done(fevents', i)
    OBVIOUS
  <2>1. i \in Nat /\ i \in 0 .. Len(fevents) - 1 /\ i + 1 \in 1 .. Len(fevents)
    BY <1>2
  <2>2. frame_pending > Done(fevents, i + 1)
    BY <1>2, <2>1 DEF Queue
  <2>3. Done(fevents, i + 1) = Done(fevents', i) + d /\ Done(fevents', i) \in 0 .. i
    BY <1>3, <2>1, CountFinite DEF Done
  <2> QED  BY <1>5, <1>6, <2>1, <2>2, <2>3, Numbers
<1>8. worker' = {"retire"} => frame_pending' > 0
  <2> SUFFICES ASSUME worker' = {"retire"}  PROVE frame_pending' > 0
    OBVIOUS
  <2>1. "retire" \in fevents[1] /\ d = 0
    BY <1>1, <1>2 DEF d
  <2>2. frame_pending > Done(fevents, 1) /\ Done(fevents, 1) \in 0 .. 1
    <3>1. 1 \in Nat /\ 1 \in 1 .. Len(fevents)  BY <1>2
    <3>2. Done(fevents, 1) \in 0 .. 1  BY <3>1, CountFinite DEF Done
    <3> QED  BY <2>1, <3>1, <3>2 DEF Queue
  <2> QED  BY <1>6, <2>1, <2>2, Numbers
<1>9. Queue'
  <2>1. frame_pending' = InFlight' + Kicking' + Reported'
    <3>1. frame_pending = InFlight + Kicking + Reported  BY DEF Queue
    <3>2. InFlight' = InFlight /\ Kicking' = Kicking /\ Reported' = Reported - d
      BY <1>4, <1>5, Numbers, NumbersNext
    <3> QED  BY <3>1, <3>2, <1>5, <1>6, Numbers
  <2>2. Len(fevents') + Working' + retire_cnt' + InFlight' <= 3
    BY <1>2, <1>5, Numbers DEF Queue
  <2>3. disp' = "kick" => Len(fevents') + Working' <= 1
    BY <1>2, <1>5, Numbers DEF Queue
  <2> QED  BY <1>1, <1>2, <1>7, <1>8, <2>1, <2>2, <2>3 DEF Queue
<1>10. Balance'
  <2>1. released' + Reported' + Releasing' + InFlight' = released + Reported + Releasing + InFlight
    BY <1>1, <1>4, <1>5, Numbers, NumbersNext
  <2>2. (Len(fevents') - Reported') + Retiring' = (Len(fevents) - Reported) + Retiring
    BY <1>2, <1>4, <1>5, Numbers, NumbersNext, SMTT(30)
  <2>3. kicked' = retired' + (Len(fevents') - Reported') + Retiring' + retire_cnt'
    <3>1. kicked = retired + (Len(fevents) - Reported) + Retiring + retire_cnt  BY DEF Balance
    <3>2. PICK m, n, t : /\ m = Len(fevents) - Reported /\ n = Len(fevents') - Reported'
                         /\ t = Retiring'
      OBVIOUS
    <3>3. m \in Int /\ n \in Int /\ t \in Int /\ Retiring \in Int
      BY <3>2, <1>5, Numbers, NumbersNext
    <3>4. n + t = m + Retiring /\ kicked = retired + m + Retiring + retire_cnt
      BY <2>2, <3>1, <3>2
    <3>5. retired \in Int /\ retire_cnt \in Int
      BY Numbers
    <3>6. kicked = retired + n + t + retire_cnt
      BY <3>3, <3>4, <3>5
    <3> QED  BY <1>1, <3>2, <3>6
  <2> QED  BY <1>1, <1>5, <2>1, <2>3 DEF Balance
<1> QED  BY <1>9, <1>10

\* It signals the fences of the event: none is beyond what was prepared.
LEMMA Worked ==
  ASSUME TypeOK, TypeOK', Queue, Balance, SignalFences,
         UNCHANGED <<fault, disp, retire_cnt, kicked, InFlight>>
  PROVE  Queue' /\ Balance'
<1>1. /\ worker \in Event /\ worker' = None /\ UNCHANGED <<frame_pending, fevents, prepared>>
      /\ released' = IF "release" \in worker THEN Signal(released) ELSE released
      /\ retired' = IF "retire" \in worker THEN Signal(retired) ELSE retired
  BY DEF SignalFences, Queue
<1>2. /\ Kicking' = Kicking /\ Preparing' = Preparing /\ Working = 1 /\ Working' = 0
      /\ Releasing' = 0 /\ Retiring' = 0 /\ Reported' = Reported
      /\ disp' = disp /\ retire_cnt' = retire_cnt /\ InFlight' = InFlight
  BY <1>1, EventFacts
  DEF Kicking, Preparing, Working, Releasing, Retiring, Event, Reported
<1>3. Queue'
  <2>1. Len(fevents) + Working' + retire_cnt + InFlight <= 3
    BY <1>2, Numbers DEF Queue
  <2>2. disp = "kick" => Len(fevents) + Working' <= 1
    BY <1>2, Numbers DEF Queue
  <2>3. worker' # {"retire"} /\ worker' \in Event \cup {None}
    BY <1>1, EventFacts DEF Event
  <2> QED  BY <1>1, <1>2, <2>1, <2>2, <2>3 DEF Queue
<1>4. CASE worker = FrameDone
  <2>1. Releasing = 1 /\ Retiring = 0 /\ released' = Signal(released) /\ retired' = retired
    BY <1>1, <1>4, EventFacts DEF Releasing, Retiring
  <2>2. released < prepared => released' = released + 1
    BY <2>1 DEF Signal
  <2>3. released >= prepared => released' = released
    BY <2>1, Numbers DEF Signal
  <2>4. released' <= prepared /\ kicked <= prepared
    BY <2>2, <2>3, Numbers DEF Balance
  <2>5. kicked <= released' + Reported + InFlight
    BY <2>1, <2>2, <2>3, <2>4, Numbers, SMTT(30) DEF Balance
  <2>6. "off" \notin fault => kicked = released' + Reported + InFlight
    <3> SUFFICES ASSUME "off" \notin fault  PROVE kicked = released' + Reported + InFlight
      OBVIOUS
    <3>1. kicked = released + Reported + 1 + InFlight  BY <2>1 DEF Balance
    <3>2. released < prepared  BY <2>4, <3>1, Numbers
    <3> QED  BY <2>2, <3>1, <3>2, Numbers
  <2>7. kicked' = retired' + (Len(fevents') - Reported') + Retiring' + retire_cnt'
    BY <1>1, <1>2, <2>1, Numbers DEF Balance
  <2>8. /\ kicked' <= released' + Reported' + Releasing' + InFlight'
        /\ "off" \notin fault' => kicked' = released' + Reported' + Releasing' + InFlight'
    BY <1>1, <1>2, <2>4, <2>5, <2>6, Numbers, NumbersNext
  <2>9. released' <= prepared' /\ prepared' = kicked' + Preparing'
    BY <1>1, <1>2, <2>4 DEF Balance
  <2> QED  BY <1>3, <2>7, <2>8, <2>9 DEF Balance
<1>5. CASE worker = {"retire"}
  <2>1. Releasing = 0 /\ Retiring = 1 /\ released' = released /\ retired' = Signal(retired)
    BY <1>1, <1>5, EventFacts DEF Releasing, Retiring
  <2>2. retired < prepared
    BY <2>1, Numbers DEF Balance
  <2>3. retired' = retired + 1
    BY <2>1, <2>2 DEF Signal
  <2> QED  BY <1>1, <1>2, <1>3, <2>1, <2>3, Numbers DEF Balance
<1> QED  BY <1>1, <1>4, <1>5 DEF Event

\* The display thread: frames are prepared, kicked off, flushed, reset.
LEMMA FramePrepared ==
  ASSUME TypeOK, Queue, Balance, PrepareCommit  PROVE Queue' /\ Balance'
<1>1. /\ disp = "free" /\ disp' = "wait" /\ prepared' = prepared + 1
      /\ UNCHANGED <<fault, kicked, retire_cnt, busy, handler, frame_pending, fevents, worker,
                     released, retired>>
  BY DEF PrepareCommit, counts, events
<1>2. /\ Kicking = 0 /\ Kicking' = 0 /\ Preparing = 0 /\ Preparing' = 1
      /\ InFlight' = InFlight /\ Working' = Working /\ Releasing' = Releasing
      /\ Retiring' = Retiring /\ Reported' = Reported
  BY <1>1 DEF Kicking, Preparing, InFlight, Working, Releasing, Retiring, Reported,
     Before
<1>3. Queue'
  BY <1>1, <1>2 DEF Queue
<1>4. prepared' = kicked' + Preparing' /\ released' <= prepared'
  BY <1>1, <1>2, Numbers DEF Balance
<1> QED  BY <1>1, <1>2, <1>3, <1>4 DEF Balance

\* Before a frame is kicked off, nothing of the one before is in flight.
LEMMA NoneInFlight ==
  ASSUME TypeOK, Counters, Flight, disp \in {"flush", "kick", "off_flush"}
  PROVE  InFlight = 0 /\ retire_cnt = 0
<1>1. Master \in Phys /\ None \notin Phys
  BY CmdAssumption
<1>2. \A p \in Phys : kickoff_cnt[p] = 0
  BY DEF Counters, Flight
<1>3. \A p \in Phys : p \notin busy /\ handler["irq"] # p
  BY <1>2 DEF Flight, B
<1>4. busy = {} /\ handler["irq"] = None
  BY <1>3 DEF TypeOK, Context
<1> QED  BY <1>1, <1>2, <1>4 DEF InFlight, Counters, TypeOK

LEMMA FramePending ==
  ASSUME TypeOK, TypeOK', Counters, Flight, Queue, Balance, CommitKickoff  PROVE Queue' /\ Balance'
<1>1. /\ disp = "flush" /\ disp' = "kick" /\ frame_pending' = frame_pending + 1 /\ Flushed
      /\ UNCHANGED <<fault, kicked, retire_cnt, busy, handler, fevents, worker,
                     prepared, released, retired>>
  BY DEF CommitKickoff, counts, fences
<1>2. InFlight = 0 /\ retire_cnt = 0
  BY <1>1, NoneInFlight
<1>3. /\ Kicking = 0 /\ Kicking' = 1 /\ Preparing' = Preparing
      /\ InFlight' = InFlight /\ Working' = Working /\ Releasing' = Releasing
      /\ Retiring' = Retiring /\ Reported' = Reported
  BY <1>1 DEF Kicking, Preparing, InFlight, Working, Releasing, Retiring, Reported,
     Before
<1>4. fevents = <<>>
  BY <1>1, NonePending DEF Flushed
<1>5. Len(fevents') = 0 /\ \A i \in 1 .. Len(fevents') : FALSE
  BY <1>1, <1>4
<1>6. Queue'
  <2>1. frame_pending' = InFlight' + Kicking' + Reported'
    BY <1>1, <1>2, <1>3, Numbers DEF Queue
  <2>2. Len(fevents') + Working' + retire_cnt' + InFlight' <= 3 /\ Len(fevents') + Working' <= 1
    BY <1>1, <1>2, <1>3, <1>5, Numbers
  <2>3. worker' = {"retire"} => frame_pending' > 0
    BY <1>1, Numbers
  <2> QED  BY <1>1, <1>5, <2>1, <2>2, <2>3 DEF Queue
<1> QED  BY <1>1, <1>3, <1>6 DEF Balance

LEMMA FrameKicked ==
  ASSUME TypeOK, TypeOK', Counters, Flight, Queue, Balance, KickoffFlush  PROVE Queue' /\ Balance'
<1>1. /\ disp = "kick" /\ disp' = "count" /\ busy' = Phys /\ retire_cnt' = retire_cnt + 1
      /\ kicked' = kicked + 1
      /\ UNCHANGED <<fault, handler, frame_pending, fevents, worker, prepared, released, retired>>
  BY DEF KickoffFlush, events, fences
<1>2. InFlight = 0 /\ retire_cnt = 0
  BY <1>1, NoneInFlight
<1>3. /\ Kicking = 1 /\ Kicking' = 0 /\ Preparing = 1 /\ Preparing' = 0
      /\ InFlight' = 1 /\ Working' = Working /\ Releasing' = Releasing
      /\ Retiring' = Retiring /\ Reported' = Reported
  BY <1>1, CmdAssumption
  DEF Kicking, Preparing, InFlight, Working, Releasing, Retiring, Reported, Before
<1>4. Queue'
  <2>1. frame_pending' = InFlight' + Kicking' + Reported'
    BY <1>1, <1>2, <1>3, Numbers DEF Queue
  <2>2. Len(fevents') + Working' + retire_cnt' + InFlight' <= 3
    BY <1>1, <1>2, <1>3, Numbers DEF Queue
  <2> QED  BY <1>1, <2>1, <2>2 DEF Queue
<1>5. prepared' = kicked' + Preparing' /\ released' <= prepared'
  BY <1>1, <1>3, Numbers DEF Balance
<1>6. /\ kicked' <= released' + Reported' + Releasing' + InFlight'
      /\ "off" \notin fault => kicked' = released' + Reported' + Releasing' + InFlight'
  BY <1>1, <1>2, <1>3, Numbers DEF Balance
<1>7. kicked' = retired' + (Len(fevents') - Reported') + Retiring' + retire_cnt'
  BY <1>1, <1>2, <1>3, Numbers DEF Balance
<1> QED  BY <1>1, <1>4, <1>5, <1>6, <1>7 DEF Balance

LEMMA FencesReset ==
  ASSUME TypeOK, TypeOK', Counters, Flight, Queue, Balance, CrtcDisable  PROVE Queue' /\ Balance'
<1>1. /\ disp = "off_flush" /\ disp' = "free" /\ Flushed /\ frame_pending' = 0
      /\ released' = prepared /\ retired' = prepared
      /\ UNCHANGED <<fault, kicked, retire_cnt, busy, handler, fevents, worker, prepared>>
  BY DEF CrtcDisable, ResetFences, counts
<1>2. InFlight = 0 /\ retire_cnt = 0 /\ "off" \in fault
  BY <1>1, NoneInFlight DEF Counters
<1>3. fevents = <<>> /\ worker # {"retire"}
  BY <1>1, NonePending, EventFacts DEF Flushed, Event
<1>4. Len(fevents) = 0 /\ Reported = 0
  BY <1>3, Numbers
<1>5. /\ Kicking' = 0 /\ Preparing = 0 /\ Preparing' = 0 /\ InFlight' = InFlight
      /\ Working' = Working /\ Releasing' = Releasing /\ Retiring' = 0 /\ Reported' = Reported
  BY <1>1, <1>3 DEF Kicking, Preparing, InFlight, Working, Releasing, Retiring,
     Reported, Before
<1>6. Queue'
  <2>1. frame_pending' = InFlight' + Kicking' + Reported'
    BY <1>1, <1>2, <1>4, <1>5
  <2>2. Len(fevents') + Working' + retire_cnt' + InFlight' <= 3
    BY <1>1, <1>2, <1>4, <1>5, Numbers
  <2>3. \A i \in 1 .. Len(fevents') : FALSE
    BY <1>1, <1>4
  <2> QED  BY <1>1, <1>3, <2>1, <2>2, <2>3 DEF Queue
<1>7. kicked = prepared
  BY <1>5, Numbers DEF Balance
<1> QED  BY <1>1, <1>2, <1>4, <1>5, <1>6, <1>7, Numbers DEF Balance

\* The handlers.
LEMMA EncoderDone ==
  ASSUME TypeOK, TypeOK', Counters, Flight, Queue, Balance, NEW p \in Phys, PpDoneBegin(p)
  PROVE  Queue' /\ Balance'
<1>1. /\ handler["irq"] = None /\ p \in latch /\ Post(RetireEvent(p)) /\ FrameDoneClear("irq", p)
      /\ UNCHANGED <<fault, disp, kicked, frame_pending, worker, fences>>
      /\ retire_cnt' = IF p = Master THEN Dec(retire_cnt) ELSE retire_cnt
  BY DEF PpDoneBegin, Irq
<1>2. p \in busy
  <2>1. ~trig /\ disp \notin {"count", "start"}
    BY <1>1 DEF Counters, Flight, Once, Idle
  <2> QED  BY <1>1, <2>1 DEF Flight
<1>3. InFlight = 1 /\ InFlight' = 1
  BY <1>1, <1>2, CmdAssumption DEF InFlight, FrameDoneClear, TypeOK, Context
<1>4. Kicking' = Kicking /\ Preparing' = Preparing
  BY <1>1 DEF Kicking, Preparing
<1>5. CASE p = Master
  BY <1>1, <1>3, <1>4, <1>5, RetireReported
<1>6. CASE p # Master
  <2>1. fevents' = fevents /\ retire_cnt' = retire_cnt
    BY <1>1, <1>6 DEF RetireEvent, Post
  <2> QED  BY <1>1, <1>3, <1>4, <2>1, Quiet1 DEF events
<1> QED  BY <1>5, <1>6

LEMMA FrameTested ==
  ASSUME TypeOK, TypeOK', Counters, Flight, Queue, Balance, PpDoneEnd
  PROVE  Queue' /\ Balance'
<1>1. /\ handler["irq"] # None /\ FrameDoneTest("irq")
      /\ UNCHANGED <<fault, disp, kicked, retire_cnt, busy, frame_pending, worker, fences>>
  BY DEF PpDoneEnd
<1>2. InFlight = 1 /\ handler'["irq"] = None
  BY <1>1 DEF InFlight, FrameDoneTest, TypeOK, Context
<1>3. Kicking' = Kicking /\ Preparing' = Preparing /\ disp # "kick"
  BY <1>1 DEF Kicking, Preparing, Counters, Idle
<1>4. CASE busy = {}
  <2>1. InFlight' = 0 /\ Post(FrameDone) /\ retire_cnt = 0
    BY <1>1, <1>2, <1>4, Numbers DEF InFlight, FrameDoneTest, Flight, B
  <2> QED  BY <1>1, <1>2, <1>3, <2>1, DoneReported
<1>5. CASE busy # {}
  <2>1. InFlight' = 1 /\ fevents' = fevents
    BY <1>1, <1>5 DEF InFlight, FrameDoneTest, Post
  <2> QED  BY <1>1, <1>2, <1>3, <2>1, Quiet1 DEF events
<1> QED  BY <1>4, <1>5

LEMMA AccountsStep ==
  TypeOK /\ Counters /\ "timeout" \notin fault /\ Flight /\ Queue /\ Balance /\ [Next]_vars
    => Queue' /\ Balance'
<1> SUFFICES ASSUME TypeOK, Counters, "timeout" \notin fault, Flight, Queue, Balance, [Next]_vars
             PROVE  Queue' /\ Balance'
  OBVIOUS
<1>0. TypeOK'
  BY TypeStep
<1> USE DEF Kicking, Preparing, InFlight, Before, counts, hardware
<1>1. CASE PrepareCommit
  BY <1>1, FramePrepared
<1>2. CASE Disable
  BY <1>2, Quiet1 DEF Disable
<1>3. ASSUME NEW p \in Phys, WaitForIdle(p)  PROVE Queue' /\ Balance'
  BY <1>3, Quiet1 DEF WaitForIdle
<1>4. ASSUME NEW p \in Phys, PpDoneTimeout(p)  PROVE Queue' /\ Balance'
  BY <1>4 DEF PpDoneTimeout
<1>5. CASE PpDoneTimeoutEnd
  BY <1>5 DEF PpDoneTimeoutEnd, Flight
<1>6. CASE PrepareForKickoff
  BY <1>6, Quiet1 DEF PrepareForKickoff
<1>7. CASE CommitKickoff
  BY <1>0, <1>7, FramePending
<1>8. CASE KickoffFlush
  BY <1>0, <1>8, FrameKicked
<1>9. CASE KickoffCount
  BY <1>9, Quiet1 DEF KickoffCount
<1>10. CASE KickoffStart
  BY <1>10, Quiet1 DEF KickoffStart
<1>11. CASE WaitForCtlStart
  BY <1>11, Quiet1 DEF WaitForCtlStart
<1>12. CASE CtlStartTimeout
  BY <1>0, <1>12, RetireReported DEF CtlStartTimeout
<1>13. CASE DisableIrqs
  BY <1>13, Quiet1 DEF DisableIrqs
<1>14. CASE CrtcDisable
  BY <1>0, <1>14, FencesReset
<1>15. ASSUME NEW p \in Phys, PpDoneBegin(p)  PROVE Queue' /\ Balance'
  BY <1>0, <1>15, EncoderDone
<1>16. CASE PpDoneEnd
  BY <1>0, <1>16, FrameTested
<1>17. CASE RdPtrIrq
  <2>1. UNCHANGED <<fault, disp, handler, busy, frame_pending, worker, fences, kicked>>
    BY <1>17 DEF RdPtrIrq
  <2>2. CASE rd_ptr_cnt > 0
    BY <1>0, <1>17, <2>1, <2>2, RetireReported DEF RdPtrIrq
  <2>3. CASE ~(rd_ptr_cnt > 0)
    BY <1>17, <2>1, <2>3, Quiet1 DEF RdPtrIrq, events
  <2> QED  BY <2>2, <2>3
<1>18. CASE CtlStartIrq
  <2>1. UNCHANGED <<fault, disp, handler, busy, frame_pending, worker, fences, kicked>>
    BY <1>18 DEF CtlStartIrq
  <2>2. \/ Post(RetireEvent(Master)) /\ retire_cnt > 0 /\ retire_cnt' = retire_cnt - 1
        \/ UNCHANGED <<fevents, retire_cnt>>
    BY <1>18 DEF CtlStartIrq
  <2>3. CASE Post(RetireEvent(Master)) /\ retire_cnt > 0 /\ retire_cnt' = retire_cnt - 1
    BY <1>0, <2>1, <2>3, RetireReported DEF Dec
  <2>4. CASE UNCHANGED <<fevents, retire_cnt>>
    BY <2>1, <2>4, Quiet1 DEF events
  <2> QED  BY <2>2, <2>3, <2>4
<1>19. CASE WorkBegin
  BY <1>0, <1>19, Taken DEF WorkBegin
<1>20. CASE WorkEnd
  BY <1>0, <1>20, Worked DEF WorkEnd
<1>21. CASE HwStart
  BY <1>21, Quiet1 DEF HwStart
<1>22. ASSUME NEW p \in Phys, HwDone(p)  PROVE Queue' /\ Balance'
  BY <1>22, Quiet1 DEF HwDone
<1>23. CASE HwTe
  BY <1>23, Quiet1 DEF HwTe
<1>24. CASE UNCHANGED vars
  BY <1>24, Quiet1 DEF vars
<1> QED
  BY <1>1, <1>2, <1>3, <1>4, <1>5, <1>6, <1>7, <1>8, <1>9, <1>10, <1>11, <1>12,
     <1>13, <1>14,
     <1>15, <1>16, <1>17, <1>18, <1>19, <1>20, <1>21, <1>22, <1>23, <1>24
  DEF Next, DispStep, IrqStep, EventStep, HwStep

LEMMA InvInit == Init => IInv
<1> SUFFICES ASSUME Init PROVE IInv
  OBVIOUS
<1>1. MaxFrames[fault] \in Nat
  BY CmdAssumption DEF Init
<1>2. fevents = <<>> /\ fevents \in Seq(Event) /\ fevents \in Seq(SUBSET Flag) /\ Len(fevents) = 0
  BY DEF Init, EventsInit
<1>3. TypeOK
  <2>1. EventsTypeOK
    BY <1>2 DEF Init, EventsInit, EventsTypeOK
  <2>2. kickoff_cnt \in [Phys -> 0 .. 1] /\ handler \in [Context -> Phys \cup {None}]
    BY DEF Init
  <2>3. kicked \in 0 .. MaxFrames[fault]
    BY <1>1 DEF Init
  <2>4. te_seen \in BOOLEAN /\ needs_reset \in BOOLEAN /\ trig \in BOOLEAN
    BY DEF Init
  <2>5. /\ fault \in FaultModes /\ disp = "free" /\ waits \subseteq Phys /\ busy \subseteq Phys
        /\ hw \subseteq Phys /\ latch \subseteq Phys \cup {"ctl", "rd"}
    BY DEF Init
  <2>6. /\ retire_cnt \in 0 .. 1 /\ ctlstart_cnt \in Nat /\ rd_ptr_cnt \in Nat
        /\ started \in Nat
    BY DEF Init
  <2> QED  BY <2>1, <2>2, <2>3, <2>4, <2>5, <2>6 DEF TypeOK
<1>4. Counters
  BY CmdAssumption DEF Init, Counters, Once, Idle, Before, Context
<1>5. Flight
  BY CmdAssumption DEF Init, Flight, B, Context
<1>6. Reported = 0
  BY <1>2, <1>3, Numbers
<1>7. /\ InFlight = 0 /\ Kicking = 0 /\ Preparing = 0 /\ Working = 0 /\ Releasing = 0
      /\ Retiring = 0
  BY EventFacts DEF Init, EventsInit, Context, InFlight, Kicking, Preparing,
     Working, Releasing,
                    Retiring, Before, Event
<1>8. Queue
  BY <1>2, <1>6, <1>7, EventFacts DEF Init, EventsInit, Queue, Event
<1>9. Balance
  BY <1>2, <1>6, <1>7 DEF Init, EventsInit, Balance
<1> QED  BY <1>3, <1>4, <1>5, <1>8, <1>9 DEF IInv

LEMMA InvStep == IInv /\ [Next]_vars => IInv'
<1> SUFFICES ASSUME IInv, [Next]_vars PROVE IInv'
  OBVIOUS
<1>1. TypeOK' /\ Counters'
  BY TypeStep, CountersStep DEF IInv
<1>2. fault' = fault
  BY DEF Next, DispStep, IrqStep, EventStep, HwStep, vars, PrepareCommit, Disable,
     WaitForIdle,
         PpDoneTimeout, PpDoneTimeoutEnd, PrepareForKickoff, CommitKickoff, KickoffFlush,
         KickoffCount, KickoffStart, WaitForCtlStart, CtlStartTimeout, DisableIrqs, CrtcDisable,
         PpDoneBegin, PpDoneEnd, RdPtrIrq, CtlStartIrq, WorkBegin, WorkEnd, HwStart, HwDone, HwTe
<1>3. "timeout" \notin fault => Flight' /\ Queue' /\ Balance'
  BY FlightStep, AccountsStep DEF IInv
<1> QED  BY <1>1, <1>2, <1>3 DEF IInv

\* What the invariant says of the fences.
LEMMA InvImplies == IInv => TypeOK /\ FencesNotEarly /\ QuietSignaled
<1> SUFFICES ASSUME IInv PROVE FencesNotEarly /\ QuietSignaled
  BY DEF IInv
<1>1. TypeOK /\ ("timeout" \notin fault => Flight /\ Queue /\ Balance)
  BY DEF IInv
<1>2. ReleaseNotEarly
  <2> SUFFICES ASSUME fault \subseteq {"noctl"}
               PROVE  released <= kicked - B(Transferring /\ busy # {})
    BY DEF ReleaseNotEarly
  <2>1. "off" \notin fault /\ "timeout" \notin fault
    OBVIOUS
  <2>2. kicked = released + Reported + Releasing + InFlight
    BY <1>1, <2>1 DEF Balance
  <2>3. released <= kicked - InFlight
    BY <1>1, <2>2, Numbers
  <2>4. CASE Transferring /\ busy # {}
    BY <1>1, <2>3, <2>4 DEF InFlight, B
  <2>5. CASE ~(Transferring /\ busy # {})
    BY <1>1, <2>3, <2>5, Numbers DEF B
  <2> QED  BY <2>4, <2>5
<1>3. RetireAfterKickoff
  BY <1>1, Numbers DEF RetireAfterKickoff, Balance
<1>4. QuietSignaled
  <2> SUFFICES ASSUME Quiet, "timeout" \notin fault
               PROVE  released = prepared /\ retired = prepared /\ frame_pending = 0
    BY DEF QuietSignaled
  <2>1. /\ disp = "free" /\ fevents = <<>> /\ worker = None
        /\ ~trig /\ hw = {} /\ latch \subseteq {"rd"} /\ handler["irq"] = None
    BY DEF Quiet
  <2>2. busy = {}
    BY <1>1, <2>1, CmdAssumption DEF Flight
  <2>3. Len(fevents) = 0 /\ Reported = 0 /\ retire_cnt = 0
    BY <1>1, <2>1, <2>2, Numbers DEF Flight, B
  <2>4. /\ InFlight = 0 /\ Kicking = 0 /\ Preparing = 0 /\ Releasing = 0 /\ Retiring = 0
    BY <2>1, <2>2, EventFacts
    DEF InFlight, Kicking, Preparing, Releasing, Retiring, Before, Event
  <2> QED  BY <1>1, <2>3, <2>4, Numbers DEF Queue, Balance
<1> QED  BY <1>2, <1>3, <1>4 DEF FencesNotEarly

LEMMA InvAlways == Spec => []IInv
  BY InvInit, InvStep, PTL DEF Spec

-----------------------------------------------------------------------------
(* The theorems.                                                           *)

\* Every variable keeps its type, in every fault mode: among others a physical
\* encoder never counts two frames in flight, and at most one retire fence is owed.
THEOREM CmdTypes == Spec => []TypeOK
  BY InvAlways, InvImplies, PTL

\* No fence of a command mode display is signalled early: buffers come back when
\* every encoder has sent the frame, and a retire fence after the kickoff, whichever
\* of ping-pong done, read pointer, CTL start and time-out counted it down.
THEOREM CmdFencesNotEarly == Spec => []FencesNotEarly
  BY InvAlways, InvImplies, PTL

\* Once the display is at rest every frame prepared is signalled on both fences and
\* the CRTC counts none, whatever was lost or reset on the way; a transfer that
\* hangs is the exception.
THEOREM CmdQuietSignaled == Spec => []QuietSignaled
  BY InvAlways, InvImplies, PTL
=============================================================================
