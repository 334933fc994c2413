------------------------ MODULE SdeVidFramesProofs ------------------------
(***************************************************************************)
(* Proofs about SdeVidFrames: types in every scenario; and, as long as     *)
(* vsyncs come, that no fence and no commit reports a frame before the     *)
(* hardware has taken it, and that the sources of a stopping interface     *)
(* stay until it has stopped.                                              *)
(***************************************************************************)
EXTENDS SdeVidFrames, NatLemmas, FiniteSetTheorems, TLAPS

-----------------------------------------------------------------------------
(* The invariant.                                                          *)

\* Places from the flush of a frame to the end of its wait.
Kickoff == {"count", "post", "wait"}
\* Places at which the display is on: the timing engine runs, or will once
\* the first frame is flushed.
Going == {"free", "flush", "kick", "count", "post", "wait", "wait_done", "tx", "tx_done", "stop"}

\* The retire fence of a frame is counted down before its wait ends, so that the
\* next one finds none pending; the callback runs only while registered.
Counters ==
    /\ disp \notin Kickoff => retire_cnt = 0
    /\ disp \in {"post", "wait"} /\ pending = 0 => retire_cnt = 0
    /\ handler["disp"] # None => retire_cnt = 0 /\ disp \in DOMAIN After
    /\ disp \in {"flush", "kick"} => kicked < scenario.frames
    /\ irq = "callback" <=> handler["irq"] # None
    /\ irq = "callback" => registered
    /\ disp \in {"crtc", "off"} => ~registered

\* While vsyncs come: a flush is taken before its wait ends, the engine runs
\* from the first frame on.
Flushes ==
    /\ ~flush => shown = kicked
    /\ flush => kicked - 1 <= shown /\ retire_cnt = 1 /\ disp \in Kickoff
    /\ disp \in {"post", "wait"} /\ pending = 0 => ~flush
    /\ handler["disp"] # None => ~flush
    /\ disp \in Going => timing = "on" \/ enabling
    /\ enabling => disp \in {"free", "flush", "kick", "count", "post"}

\* No interrupt of a vsync from before the stop is left to be handled.
Handled == irq = "callback" \/ (irq = "idle" /\ ~status)

\* The first wait may end by a vsync from before the stop, the second does not.
Stopping ==
    /\ disp \in {"stop1", "status", "stop2"} => timing # "on"
    /\ handler["disp"] # None => timing # "stopping"
    /\ disp = "stop1" /\ pending = 0 /\ timing # "off" => Handled
    /\ disp = "status" /\ timing # "off" => Handled
    /\ disp = "stop2" /\ timing # "off" => Handled /\ pending > 0
    /\ disp \in {"disable", "mask", "unregister", "crtc", "off"} => timing = "off"

\* Events with x on their way: queued, with the event thread, in a callback.
Has(event, x) == IF event # None /\ x \in event THEN 1 ELSE 0
Queued(x) == Count(x, fevents, Len(fevents))
OnWay(x) == Queued(x) + Has(worker, x) + Has(handler["irq"], x) + Has(handler["disp"], x)

\* A frame counts for a fence once: when it is signalled, on its way, or not
\* counted down yet.
Reports ==
    /\ prepared = kicked + B(disp \in {"flush", "kick"})
    /\ ~stale => /\ released + OnWay("release") <= kicked - retire_cnt
                 /\ retired + OnWay("retire") <= kicked - retire_cnt

IInv ==
    /\ TypeOK /\ Counters
    /\ ~Fault("hang") => Flushes /\ Stopping /\ Reports

-----------------------------------------------------------------------------
(* Types and counters, in every scenario.                                  *)

LEMMA PostType ==
  ASSUME EventsTypeOK, NEW e \in SUBSET Flag, Post(e)
  PROVE  fevents' \in Seq(SUBSET Flag)
  BY DEF EventsTypeOK, Post

LEMMA FlagType == {"release", "retire"} \in SUBSET Flag /\ {} \in SUBSET Flag /\ {"done"} \in SUBSET Flag
  BY DEF Flag

\* The callback in context c.
LEMMA CallbackType ==
  ASSUME TypeOK, NEW c \in Context, VblankIrq(c)
  PROVE  /\ handler' \in [Context -> (SUBSET Flag) \cup {None}] /\ handler'[c] # None
         /\ \A d \in Context \ {c} : handler'[d] = handler[d]
         /\ handler'[c] = IF ~flush /\ retire_cnt > 0 THEN {"release", "retire"} ELSE {}
         /\ pending' = IF flush THEN pending ELSE Dec(pending)
         /\ retire_cnt' = IF flush THEN retire_cnt ELSE Dec(retire_cnt)
  BY FlagType, VidAssumption DEF TypeOK, VblankIrq

LEMMA CountType ==
  ASSUME TypeOK
  PROVE  Dec(pending) \in Nat /\ Dec(retire_cnt) \in 0 .. 1 /\ Dec(retire_cnt) = 0
  BY DEF TypeOK, Dec

LEMMA TypeStep == TypeOK /\ Counters /\ [Next]_vars => TypeOK'
<1> SUFFICES ASSUME TypeOK, Counters, [Next]_vars PROVE TypeOK'
  OBVIOUS
<1>0. EventsTypeOK /\ scenario.frames \in Nat /\ scenario.offs \in Nat
  BY VidAssumption DEF TypeOK
<1> USE DEF TypeOK, counts, interrupt, frames, events, fences, Context, Phys
<1>1. CASE Enable
  BY <1>1 DEF Enable, EventsTypeOK
<1>2. CASE PrepareCommit
  BY <1>2 DEF PrepareCommit, EventsTypeOK
<1>3. CASE Disable
  <2>1. offs' \in 0 .. scenario.offs
    BY <1>0, <1>3 DEF Disable
  <2> QED  BY <1>3, <2>1 DEF Disable, EventsTypeOK
<1>4. CASE CommitKickoff
  BY <1>4 DEF CommitKickoff, EventsTypeOK
<1>5. CASE KickoffFlush
  <2>1. kicked' \in 0 .. scenario.frames /\ shown' \in 0 .. kicked'
    BY <1>0, <1>5 DEF KickoffFlush, Counters
  <2>2. retire_cnt' \in 0 .. 1 /\ busy' \subseteq Phys'
    BY <1>5 DEF KickoffFlush, Counters, Kickoff
  <2> QED  BY <1>5, <2>1, <2>2 DEF KickoffFlush, EventsTypeOK
<1>6. CASE KickoffCount
  BY <1>6 DEF KickoffCount, EventsTypeOK
<1>7. CASE PostKickoff
  BY <1>7 DEF PostKickoff, EventsTypeOK
<1>8. CASE WaitForIrq
  <2>1. disp' \in {"wait_done", "tx_done", "status", "disable"}
    BY <1>8 DEF WaitForIrq, Waiting, After
  <2> QED  BY <1>8, <2>1 DEF WaitForIrq, EventsTypeOK
<1>9. CASE IrqLate
  <2>1. VblankIrq("disp") /\ handler' \in [Context -> (SUBSET Flag) \cup {None}]
    BY <1>9, CallbackType DEF IrqLate
  <2>2. pending' \in Nat /\ retire_cnt' \in 0 .. 1
    BY <2>1, CountType DEF VblankIrq
  <2>3. /\ status' = FALSE
        /\ UNCHANGED <<scenario, disp, busy, enabling, registered, irq, timing, flush, enabled,
                       frames, events, fences>>
    BY <1>9 DEF IrqLate
  <2>4. EventsTypeOK'
    BY <2>3 DEF EventsTypeOK
  <2>5. /\ scenario' \in Scenarios /\ status' \in BOOLEAN /\ shown' \in 0 .. kicked'
        /\ kicked' \in 0 .. scenario'.frames /\ offs' \in 0 .. scenario'.offs /\ busy' \subseteq Phys'
    BY <2>3
  <2> QED  BY <2>1, <2>2, <2>3, <2>4, <2>5
<1>10. CASE IrqLateEnd
  <2>1. handler["disp"] \in SUBSET Flag /\ disp \in DOMAIN After
    BY <1>10 DEF IrqLateEnd, Counters
  <2>2. fevents' \in Seq(SUBSET Flag)
    BY <1>10, <2>1, PostType DEF IrqLateEnd, VblankPost
  <2>3. handler' \in [Context -> (SUBSET Flag) \cup {None}]
    BY <1>10 DEF IrqLateEnd, VblankPost
  <2>4. disp' \in {"wait_done", "tx_done", "status", "disable"}
    BY <1>10, <2>1 DEF IrqLateEnd, After
  <2>5. UNCHANGED <<scenario, counts, registered, irq, timing, flush, enabled, status, frames,
                    frame_pending, worker, fences>>
    BY <1>10 DEF IrqLateEnd
  <2>6. EventsTypeOK'
    BY <2>2, <2>5 DEF EventsTypeOK
  <2> QED  BY <2>3, <2>4, <2>5, <2>6
<1>11. CASE VblankDone
  <2>1. fevents' \in Seq(SUBSET Flag)
    BY <1>11, PostType, FlagType DEF VblankDone, FrameDone
  <2>2. busy' \subseteq Phys
    BY <1>11 DEF VblankDone, FrameDone
  <2> QED  BY <1>11, <2>1, <2>2 DEF VblankDone, EventsTypeOK
<1>12. CASE WaitTimeout
  <2>1. CASE disp \in {"wait", "tx"}
    <3>1. ({"done"} \cup IF retire_cnt > 0 THEN {"release", "retire"} ELSE {}) \in SUBSET Flag
      BY DEF Flag
    <3>2. fevents' \in Seq(SUBSET Flag) /\ busy' \subseteq Phys
      BY <1>12, <2>1, <3>1, PostType, FlagType DEF WaitTimeout, FrameDone
    <3>3. retire_cnt' \in 0 .. 1 /\ disp' \in {"free", "stop"} /\ pending' = pending
      BY <1>12, <2>1, CountType DEF WaitTimeout
    <3> QED  BY <1>12, <3>2, <3>3 DEF WaitTimeout, EventsTypeOK
  <2>2. CASE disp \notin {"wait", "tx"}
    <3>1. disp' \in {"wait_done", "tx_done", "status", "disable"}
      BY <1>12, <2>2 DEF WaitTimeout, Waiting, After
    <3>2. pending' = 0 /\ UNCHANGED <<retire_cnt, busy, fevents>>
      BY <1>12, <2>2 DEF WaitTimeout
    <3> QED  BY <1>12, <3>1, <3>2 DEF WaitTimeout, EventsTypeOK
  <2> QED  BY <2>1, <2>2
<1>13. CASE StopTiming
  BY <1>13 DEF StopTiming, EventsTypeOK
<1>14. CASE ReadStatus
  BY <1>14 DEF ReadStatus, EventsTypeOK
<1>15. CASE PhysDisable
  BY <1>15 DEF PhysDisable, EventsTypeOK
<1>16. CASE MaskIrq
  BY <1>16 DEF MaskIrq, EventsTypeOK
<1>17. CASE UnregisterIrq
  BY <1>17 DEF UnregisterIrq, EventsTypeOK
<1>18. CASE CrtcDisable
  BY <1>18 DEF CrtcDisable, EventsTypeOK, ResetFences
<1>19. CASE IrqRead
  BY <1>19, ZenonT(30) DEF IrqRead, EventsTypeOK
<1>20. CASE IrqDispatch
  <2>1. CASE registered
    <3>1. VblankIrq("irq") /\ handler' \in [Context -> (SUBSET Flag) \cup {None}]
      BY <1>20, <2>1, CallbackType DEF IrqDispatch
    <3>2. pending' \in Nat /\ retire_cnt' \in 0 .. 1
      BY <3>1, CountType DEF VblankIrq
    <3> QED  BY <1>20, <2>1, <3>1, <3>2 DEF IrqDispatch, EventsTypeOK
  <2>2. CASE ~registered
    BY <1>20, <2>2, ZenonT(30) DEF IrqDispatch, EventsTypeOK
  <2> QED  BY <2>1, <2>2
<1>21. CASE IrqEnd
  <2>1. handler["irq"] \in SUBSET Flag
    BY <1>21 DEF IrqEnd, Counters
  <2>2. fevents' \in Seq(SUBSET Flag)
    BY <1>21, <2>1, PostType DEF IrqEnd, VblankPost
  <2>3. handler' \in [Context -> (SUBSET Flag) \cup {None}]
    BY <1>21 DEF IrqEnd, VblankPost
  <2>4. /\ irq' = "idle" /\ status' = FALSE
        /\ UNCHANGED <<scenario, disp, counts, registered, timing, flush, enabled, frames,
                       frame_pending, worker, fences>>
    BY <1>21 DEF IrqEnd
  <2>5. EventsTypeOK'
    BY <2>2, <2>4 DEF EventsTypeOK
  <2> QED  BY <2>3, <2>4, <2>5, ZenonT(30)
<1>22. CASE WorkBegin
  <2>1. worker' \in SUBSET Flag /\ fevents' \in Seq(SUBSET Flag) /\ frame_pending' \in Nat
    BY <1>22 DEF WorkBegin, FrameEventWork, EventsTypeOK, Dec
  <2> QED  BY <1>22, <2>1 DEF WorkBegin, FrameEventWork, EventsTypeOK
<1>23. CASE WorkEnd
  <2>1. released' \in Nat /\ retired' \in Nat
    BY <1>23 DEF WorkEnd, SignalFences, Signal, EventsTypeOK
  <2> QED  BY <1>23, <2>1 DEF WorkEnd, SignalFences, EventsTypeOK
<1>24. CASE HwVsync
  <2>1. /\ UNCHANGED <<scenario, disp, counts, interrupt, enabled, kicked, offs, stale, events,
                       fences>>
        /\ status' = TRUE /\ flush' = FALSE /\ timing' \in {"off", "on", "stopping"}
    BY <1>24 DEF HwVsync
  <2>2. shown' \in 0 .. kicked
    BY <1>0, <1>24 DEF HwVsync
  <2>3. EventsTypeOK'
    BY <2>1 DEF EventsTypeOK
  <2> QED  BY <2>1, <2>2, <2>3
<1>25. CASE UNCHANGED vars
  BY <1>25 DEF vars, EventsTypeOK
<1> QED
  BY <1>1, <1>2, <1>3, <1>4, <1>5, <1>6, <1>7, <1>8, <1>9, <1>10, <1>11, <1>12,
     <1>13, <1>14,
     <1>15, <1>16, <1>17, <1>18, <1>19, <1>20, <1>21, <1>22, <1>23, <1>24, <1>25
  DEF Next, DispStep, IrqStep, EventStep

LEMMA CountersStep == TypeOK /\ Counters /\ [Next]_vars => Counters'
<1> SUFFICES ASSUME TypeOK, Counters, [Next]_vars PROVE Counters'
  OBVIOUS
<1> USE VidAssumption DEF TypeOK, counts, interrupt, frames, Context, Counters,
        Kickoff, After
<1>1. CASE Enable
  BY <1>1 DEF Enable
<1>2. CASE PrepareCommit
  BY <1>2 DEF PrepareCommit
<1>3. CASE Disable
  BY <1>3 DEF Disable
<1>4. CASE CommitKickoff
  BY <1>4 DEF CommitKickoff
<1>5. CASE KickoffFlush
  BY <1>5 DEF KickoffFlush
<1>6. CASE KickoffCount
  BY <1>6 DEF KickoffCount
<1>7. CASE PostKickoff
  BY <1>7 DEF PostKickoff
<1>8. CASE WaitForIrq
  BY <1>8 DEF WaitForIrq, Waiting
<1>9. CASE IrqLate
  BY <1>9, CallbackType, CountType DEF IrqLate, Waiting
<1>10. CASE IrqLateEnd
  BY <1>10 DEF IrqLateEnd, VblankPost
<1>11. CASE VblankDone
  BY <1>11 DEF VblankDone, FrameDone
<1>12. CASE WaitTimeout
  BY <1>12 DEF WaitTimeout, Waiting, Dec
<1>13. CASE StopTiming
  BY <1>13 DEF StopTiming
<1>14. CASE ReadStatus
  BY <1>14 DEF ReadStatus
<1>15. CASE PhysDisable
  BY <1>15 DEF PhysDisable
<1>16. CASE MaskIrq
  BY <1>16 DEF MaskIrq, IrqLocked
<1>17. CASE UnregisterIrq
  BY <1>17 DEF UnregisterIrq, IrqLocked
<1>18. CASE CrtcDisable
  BY <1>18 DEF CrtcDisable
<1>19. CASE IrqRead
  BY <1>19 DEF IrqRead
<1>20. CASE IrqDispatch
  <2>1. CASE registered
    BY <1>20, <2>1, CallbackType, CountType DEF IrqDispatch
  <2>2. CASE ~registered
    BY <1>20, <2>2 DEF IrqDispatch
  <2> QED  BY <2>1, <2>2
<1>21. CASE IrqEnd
  BY <1>21 DEF IrqEnd, VblankPost
<1>22. CASE WorkBegin
  BY <1>22 DEF WorkBegin
<1>23. CASE WorkEnd
  BY <1>23 DEF WorkEnd
<1>24. CASE HwVsync
  BY <1>24 DEF HwVsync
<1>25. CASE UNCHANGED vars
  BY <1>25 DEF vars
<1> QED
  BY <1>1, <1>2, <1>3, <1>4, <1>5, <1>6, <1>7, <1>8, <1>9, <1>10, <1>11, <1>12,
     <1>13, <1>14,
     <1>15, <1>16, <1>17, <1>18, <1>19, <1>20, <1>21, <1>22, <1>23, <1>24, <1>25
  DEF Next, DispStep, IrqStep, EventStep

-----------------------------------------------------------------------------
(* The flush and the timing engine, while vsyncs come.                     *)

LEMMA FlushesStep ==
  TypeOK /\ Counters /\ ~Fault("hang") /\ Flushes /\ Stopping /\ [Next]_vars
    => Flushes'
<1> SUFFICES ASSUME TypeOK, Counters, ~Fault("hang"), Flushes, Stopping, [Next]_vars PROVE Flushes'
  OBVIOUS
<1> USE VidAssumption DEF TypeOK, counts, interrupt, frames, Context, Counters,
        Kickoff, Going, After, Flushes, Stopping
<1>1. CASE Enable
  BY <1>1 DEF Enable
<1>2. CASE PrepareCommit
  BY <1>2 DEF PrepareCommit
<1>3. CASE Disable
  BY <1>3 DEF Disable
<1>4. CASE CommitKickoff
  BY <1>4 DEF CommitKickoff
<1>5. CASE KickoffFlush
  BY <1>5 DEF KickoffFlush
<1>6. CASE KickoffCount
  BY <1>6 DEF KickoffCount
<1>7. CASE PostKickoff
  BY <1>7 DEF PostKickoff
<1>8. CASE WaitForIrq
  BY <1>8 DEF WaitForIrq, Waiting
<1>9. CASE IrqLate
  BY <1>9, CallbackType, CountType DEF IrqLate, Waiting, IrqLocked
<1>10. CASE IrqLateEnd
  BY <1>10 DEF IrqLateEnd, VblankPost
<1>11. CASE VblankDone
  BY <1>11 DEF VblankDone, FrameDone
<1>12. CASE WaitTimeout
  BY <1>12 DEF WaitTimeout, Waiting, FrameDone
<1>13. CASE StopTiming
  BY <1>13 DEF StopTiming
<1>14. CASE ReadStatus
  BY <1>14 DEF ReadStatus
<1>15. CASE PhysDisable
  BY <1>15 DEF PhysDisable
<1>16. CASE MaskIrq
  BY <1>16 DEF MaskIrq, IrqLocked
<1>17. CASE UnregisterIrq
  BY <1>17 DEF UnregisterIrq, IrqLocked
<1>18. CASE CrtcDisable
  BY <1>18 DEF CrtcDisable
<1>19. CASE IrqRead
  BY <1>19 DEF IrqRead
<1>20. CASE IrqDispatch
  <2>1. CASE registered
    BY <1>20, <2>1, CallbackType, CountType DEF IrqDispatch
  <2>2. CASE ~registered
    BY <1>20, <2>2 DEF IrqDispatch
  <2> QED  BY <2>1, <2>2
<1>21. CASE IrqEnd
  BY <1>21 DEF IrqEnd, VblankPost
<1>22. CASE WorkBegin
  BY <1>22 DEF WorkBegin
<1>23. CASE WorkEnd
  BY <1>23 DEF WorkEnd
<1>24. CASE HwVsync
  BY <1>24 DEF HwVsync
<1>25. CASE UNCHANGED vars
  BY <1>25 DEF vars
<1> QED
  BY <1>1, <1>2, <1>3, <1>4, <1>5, <1>6, <1>7, <1>8, <1>9, <1>10, <1>11, <1>12,
     <1>13, <1>14,
     <1>15, <1>16, <1>17, <1>18, <1>19, <1>20, <1>21, <1>22, <1>23, <1>24, <1>25
  DEF Next, DispStep, IrqStep, EventStep

LEMMA StoppingStep ==
  TypeOK /\ Counters /\ ~Fault("hang") /\ Flushes /\ Stopping /\ [Next]_vars
    => Stopping'
<1> SUFFICES ASSUME TypeOK, Counters, ~Fault("hang"), Flushes, Stopping, [Next]_vars PROVE Stopping'
  OBVIOUS
<1> USE VidAssumption DEF TypeOK, counts, interrupt, frames, Context, Counters,
        Going, Handled, After, Flushes, Stopping
<1>1. CASE Enable
  BY <1>1 DEF Enable
<1>2. CASE PrepareCommit
  BY <1>2 DEF PrepareCommit
<1>3. CASE Disable
  BY <1>3 DEF Disable
<1>4. CASE CommitKickoff
  BY <1>4 DEF CommitKickoff
<1>5. CASE KickoffFlush
  BY <1>5 DEF KickoffFlush
<1>6. CASE KickoffCount
  BY <1>6 DEF KickoffCount
<1>7. CASE PostKickoff
  BY <1>7 DEF PostKickoff
<1>8. CASE WaitForIrq
  BY <1>8 DEF WaitForIrq, Waiting
<1>9. CASE IrqLate
  BY <1>9, CallbackType, CountType DEF IrqLate, Waiting, IrqLocked
<1>10. CASE IrqLateEnd
  BY <1>10 DEF IrqLateEnd, VblankPost
<1>11. CASE VblankDone
  BY <1>11 DEF VblankDone, FrameDone
<1>12. CASE WaitTimeout
  BY <1>12 DEF WaitTimeout, Waiting, FrameDone
<1>13. CASE StopTiming
  BY <1>13 DEF StopTiming
<1>14. CASE ReadStatus
  BY <1>14 DEF ReadStatus
<1>15. CASE PhysDisable
  BY <1>15 DEF PhysDisable
<1>16. CASE MaskIrq
  BY <1>16 DEF MaskIrq, IrqLocked
<1>17. CASE UnregisterIrq
  BY <1>17 DEF UnregisterIrq, IrqLocked
<1>18. CASE CrtcDisable
  BY <1>18 DEF CrtcDisable
<1>19. CASE IrqRead
  BY <1>19 DEF IrqRead
<1>20. CASE IrqDispatch
  <2>1. CASE registered
    BY <1>20, <2>1, CallbackType, CountType DEF IrqDispatch
  <2>2. CASE ~registered
    BY <1>20, <2>2 DEF IrqDispatch
  <2> QED  BY <2>1, <2>2
<1>21. CASE IrqEnd
  BY <1>21 DEF IrqEnd, VblankPost
<1>22. CASE WorkBegin
  BY <1>22 DEF WorkBegin
<1>23. CASE WorkEnd
  BY <1>23 DEF WorkEnd
<1>24. CASE HwVsync
  BY <1>24 DEF HwVsync
<1>25. CASE UNCHANGED vars
  BY <1>25 DEF vars
<1> QED
  BY <1>1, <1>2, <1>3, <1>4, <1>5, <1>6, <1>7, <1>8, <1>9, <1>10, <1>11, <1>12,
     <1>13, <1>14,
     <1>15, <1>16, <1>17, <1>18, <1>19, <1>20, <1>21, <1>22, <1>23, <1>24, <1>25
  DEF Next, DispStep, IrqStep, EventStep

-----------------------------------------------------------------------------
(* The reports, while vsyncs come.                                         *)

Fenced == {"release", "retire"}

LEMMA WayTypes ==
  ASSUME TypeOK, NEW x
  PROVE  /\ Queued(x) \in Nat /\ Has(worker, x) \in {0, 1}
         /\ Has(handler["irq"], x) \in {0, 1} /\ Has(handler["disp"], x) \in {0, 1}
         /\ OnWay(x) \in Nat /\ retire_cnt \in {0, 1} /\ kicked \in Nat
         /\ prepared \in Nat /\ released \in Nat /\ retired \in Nat
<1>1. Len(fevents) \in Nat
  BY DEF TypeOK, EventsTypeOK
<1>2. Queued(x) \in 0 .. Len(fevents)
  BY <1>1, CountFinite DEF Queued
<1>3. /\ Has(worker, x) \in {0, 1} /\ Has(handler["irq"], x) \in {0, 1}
      /\ Has(handler["disp"], x) \in {0, 1}
  BY DEF Has
<1>4. OnWay(x) \in Nat
  BY <1>1, <1>2, <1>3 DEF OnWay
<1>5. scenario.frames \in Nat
  BY VidAssumption DEF TypeOK
<1> QED  BY <1>1, <1>2, <1>3, <1>4, <1>5 DEF TypeOK, EventsTypeOK

LEMMA WayNumbers ==
  TypeOK => OnWay("release") \in Nat /\ OnWay("retire") \in Nat /\ retire_cnt \in {0, 1}
  BY WayTypes

LEMMA WayNext ==
  ASSUME TypeOK'
  PROVE  (\A x : OnWay(x)' \in Nat) /\ retire_cnt' \in {0, 1}
<1>1. Len(fevents') \in Nat /\ retire_cnt' \in {0, 1}
  BY DEF TypeOK, EventsTypeOK
<1>2. ASSUME NEW x PROVE OnWay(x)' \in Nat
  <2>1. Count(x, fevents', Len(fevents')) \in 0 .. Len(fevents')
    BY <1>1, CountFinite
  <2>2. /\ Has(worker', x) \in {0, 1} /\ Has(handler'["irq"], x) \in {0, 1}
        /\ Has(handler'["disp"], x) \in {0, 1}
    BY DEF Has
  <2>3. OnWay(x)' = Count(x, fevents', Len(fevents')) + Has(worker', x)
                      + Has(handler'["irq"], x) + Has(handler'["disp"], x)
    BY DEF OnWay, Queued, Has
  <2> QED  BY <1>1, <2>1, <2>2, <2>3
<1> QED  BY <1>1, <1>2

\* A posted event counts once, or not at all if the pool is empty.
LEMMA PostedOnce ==
  ASSUME TypeOK, NEW e \in SUBSET Flag, Post(e), NEW x
  PROVE  Count(x, fevents', Len(fevents')) <= Queued(x) + Has(e, x)
<1>1. e # None /\ fevents \in Seq(SUBSET Flag) /\ Queued(x) \in Nat
  BY VidAssumption, WayTypes DEF TypeOK, EventsTypeOK
<1>2. CASE fevents' = fevents
  BY <1>1, <1>2 DEF Queued, Has
<1>3. CASE fevents' = Append(fevents, e)
  <2>1. Len(fevents') = Len(fevents) + 1
    BY <1>1, <1>3
  <2>2. Count(x, fevents', Len(fevents')) = Queued(x) + IF x \in e THEN 1 ELSE 0
    BY <1>1, <1>3, <2>1, CountAppend DEF Queued
  <2> QED  BY <1>1, <2>2 DEF Has
<1> QED  BY <1>2, <1>3 DEF Post

\* The callback moves a retire fence from the count to its event.
LEMMA CallbackWay ==
  ASSUME TypeOK, NEW c \in Context, VblankIrq(c), handler[c] = None,
         UNCHANGED <<fevents, worker>>, NEW x \in Fenced
  PROVE  OnWay(x)' + retire_cnt' <= OnWay(x) + retire_cnt
<1>1. Queued(x)' = Queued(x) /\ Has(worker, x)' = Has(worker, x)
  BY DEF Queued, Has
<1>2. {"release", "retire"} # None /\ {} # None
  BY VidAssumption, FlagType
<1>3. /\ handler'[c] = IF ~flush /\ retire_cnt > 0 THEN {"release", "retire"} ELSE {}
      /\ retire_cnt' = IF flush THEN retire_cnt ELSE Dec(retire_cnt)
      /\ \A d \in Context \ {c} : handler'[d] = handler[d]
  BY CallbackType
<1>4. Has(handler[c], x) = 0 /\ Has(handler'[c], x) + retire_cnt' <= retire_cnt
  <2>1. Has(handler[c], x) = 0  BY DEF Has
  <2>2. CASE flush \/ retire_cnt = 0
    <3>1. handler'[c] = {} /\ retire_cnt' = retire_cnt /\ retire_cnt \in {0, 1}
      BY <1>3, <2>2, WayTypes DEF Dec
    <3> QED  BY <2>1, <3>1 DEF Has
  <2>3. CASE ~flush /\ retire_cnt = 1
    <3>1. handler'[c] = {"release", "retire"} /\ retire_cnt' = 0
      BY <1>3, <2>3 DEF Dec
    <3> QED  BY <1>2, <2>1, <2>3, <3>1 DEF Has, Fenced
  <2> QED  BY <2>2, <2>3, WayTypes
<1>5. OnWay(x)' = Queued(x) + Has(worker, x) + Has(handler'["irq"], x) + Has(handler'["disp"], x)
  BY <1>1 DEF OnWay, Has
<1>6. Has(handler'["irq"], x) \in {0, 1} /\ Has(handler'["disp"], x) \in {0, 1}
  BY DEF Has
<1>7. retire_cnt' \in {0, 1}
  BY <1>3, CountType, WayTypes
<1>8. CASE c = "irq"
  <2>1. handler'["disp"] = handler["disp"]  BY <1>3, <1>8 DEF Context
  <2> QED  BY <1>4, <1>5, <1>6, <1>7, <1>8, <2>1, WayTypes DEF OnWay
<1>9. CASE c = "disp"
  <2>1. handler'["irq"] = handler["irq"]  BY <1>3, <1>9 DEF Context
  <2> QED  BY <1>4, <1>5, <1>6, <1>7, <1>9, <2>1, WayTypes DEF OnWay
<1> QED  BY <1>8, <1>9 DEF Context

\* Its end moves the event to the queue.
LEMMA PostWay ==
  ASSUME TypeOK, NEW c \in Context, VblankPost(c), handler[c] # None, worker' = worker, NEW x
  PROVE  OnWay(x)' <= OnWay(x)
<1>1. handler[c] \in SUBSET Flag
  BY DEF TypeOK
<1>2. Queued(x)' <= Queued(x) + Has(handler[c], x)
  BY <1>1, PostedOnce DEF VblankPost, Queued
<1>3. handler'[c] = None /\ \A d \in Context \ {c} : handler'[d] = handler[d]
  BY DEF VblankPost, TypeOK
<1>4. Has(handler'[c], x) = 0
  BY <1>3 DEF Has
<1>5. OnWay(x)' = Queued(x)' + Has(worker, x) + Has(handler'["irq"], x) + Has(handler'["disp"], x)
  BY DEF OnWay, Has
<1>6. Queued(x)' \in Nat
  <2>1. fevents' \in Seq(SUBSET Flag)
    BY <1>1, PostType DEF VblankPost, TypeOK
  <2>2. Len(fevents') \in Nat  BY <2>1
  <2>3. Count(x, fevents', Len(fevents')) \in 0 .. Len(fevents')
    BY <2>2, CountFinite
  <2> QED  BY <2>2, <2>3 DEF Queued
<1>7. PICK q \in Nat : q = Queued(x)'
  BY <1>6
<1>8. CASE c = "irq"
  <2>1. handler'["disp"] = handler["disp"]  BY <1>3, <1>8 DEF Context
  <2> QED  BY <1>2, <1>4, <1>5, <1>7, <1>8, <2>1, WayTypes DEF OnWay
<1>9. CASE c = "disp"
  <2>1. handler'["irq"] = handler["irq"]  BY <1>3, <1>9 DEF Context
  <2> QED  BY <1>2, <1>4, <1>5, <1>7, <1>9, <2>1, WayTypes DEF OnWay
<1> QED  BY <1>8, <1>9 DEF Context

\* The event thread takes the oldest event.
LEMMA TakenWay ==
  ASSUME TypeOK, FrameEventWork, handler' = handler, NEW x
  PROVE  OnWay(x)' <= OnWay(x)
<1> DEFINE d == IF x \in Head(fevents) THEN 1 ELSE 0
<1>1. /\ worker = None /\ fevents # <<>> /\ worker' = Head(fevents) /\ fevents' = Tail(fevents)
      /\ fevents \in Seq(SUBSET Flag)
  BY DEF FrameEventWork, TypeOK, EventsTypeOK
<1>2. /\ Len(fevents') = Len(fevents) - 1 /\ Len(fevents) - 1 \in Nat
      /\ Head(fevents) \in SUBSET Flag /\ d \in {0, 1}
  BY <1>1
<1>3. Queued(x) = Queued(x)' + d
  <2>1. Len(fevents) - 1 \in 0 .. Len(fevents) - 1 /\ (Len(fevents) - 1) + 1 = Len(fevents)
    BY <1>1, <1>2
  <2>2. Count(x, fevents, (Len(fevents) - 1) + 1) = Count(x, fevents', Len(fevents) - 1) + d
    BY <1>1, <2>1, CountTail
  <2> HIDE DEF d
  <2> QED  BY <1>2, <2>1, <2>2 DEF Queued
<1>4. Has(worker, x) = 0 /\ Has(worker', x) = d
  BY <1>1, <1>2, VidAssumption DEF Has
<1>5. Queued(x)' \in Nat
  <2>1. Count(x, fevents', Len(fevents')) \in 0 .. Len(fevents')
    BY <1>2, CountFinite
  <2> QED  BY <1>2, <2>1 DEF Queued
<1>6. OnWay(x)' = Queued(x)' + Has(worker', x) + Has(handler["irq"], x) + Has(handler["disp"], x)
  BY DEF OnWay, Has
<1>7. PICK q \in Nat : q = Queued(x)'
  BY <1>5
<1> HIDE DEF d
<1> QED  BY <1>2, <1>3, <1>4, <1>6, <1>7, WayTypes DEF OnWay

\* What leaves the accounts as they are.
LEMMA Kept ==
  ASSUME TypeOK, TypeOK', Reports, UNCHANGED <<fences, kicked, stale>>,
         disp' \in {"flush", "kick"} <=> disp \in {"flush", "kick"},
         \A x \in Fenced : OnWay(x)' + retire_cnt' <= OnWay(x) + retire_cnt
  PROVE  Reports'
<1>1. PICK m, n, r : m = OnWay("release")' /\ n = OnWay("retire")' /\ r = retire_cnt'
  OBVIOUS
<1>2. m \in Nat /\ n \in Nat /\ r \in Nat
  <2>1. OnWay("release")' \in Nat /\ OnWay("retire")' \in Nat /\ retire_cnt' \in {0, 1}
    BY WayNext
  <2> QED  BY <1>1, <2>1
<1>3. m + r <= OnWay("release") + retire_cnt /\ n + r <= OnWay("retire") + retire_cnt
  BY <1>1 DEF Fenced
<1>4. prepared' = kicked' + B(disp' \in {"flush", "kick"})
  BY DEF Reports, fences, B
<1>5. ASSUME ~stale'
      PROVE  /\ released' + m <= kicked' - r
             /\ retired' + n <= kicked' - r
  BY <1>2, <1>3, <1>5, WayTypes DEF Reports, fences
<1> QED  BY <1>1, <1>4, <1>5 DEF Reports

LEMMA Untouched ==
  ASSUME TypeOK, TypeOK', Reports, UNCHANGED <<fences, kicked, stale, fevents, worker, handler, retire_cnt>>,
         disp' \in {"flush", "kick"} <=> disp \in {"flush", "kick"}
  PROVE  Reports'
<1>1. ASSUME NEW x PROVE OnWay(x)' + retire_cnt' <= OnWay(x) + retire_cnt
  <2>1. OnWay(x)' = OnWay(x)
    BY DEF OnWay, Queued, Has
  <2> QED  BY <2>1, WayTypes
<1> QED  BY <1>1, Kept

LEMMA FrameKicked ==
  ASSUME TypeOK, TypeOK', Counters, Reports, KickoffFlush  PROVE Reports'
<1>1. /\ disp = "kick" /\ disp' = "count" /\ retire_cnt' = retire_cnt + 1 /\ kicked' = kicked + 1
      /\ UNCHANGED <<stale, fevents, worker, handler, prepared, released, retired>>
  BY DEF KickoffFlush, interrupt, events, fences
<1>2. \A x : OnWay(x)' = OnWay(x)
  BY <1>1 DEF OnWay, Queued, Has
<1>3. prepared' = kicked' + B(disp' \in {"flush", "kick"})
  BY <1>1, WayTypes DEF Reports, B
<1>4. ASSUME ~stale'
      PROVE  /\ released + OnWay("release") <= kicked' - retire_cnt'
             /\ retired + OnWay("retire") <= kicked' - retire_cnt'
  BY <1>1, <1>4, WayTypes, WayNumbers DEF Reports
<1> QED  BY <1>1, <1>2, <1>3, <1>4 DEF Reports

\* Without an event on its way, a reset leaves nothing to report twice.
LEMMA FencesReset ==
  ASSUME TypeOK, Counters, Reports, CrtcDisable  PROVE Reports'
<1>1. /\ disp = "crtc" /\ disp' = "off" /\ released' = prepared /\ retired' = prepared
      /\ stale' = (stale \/ fevents # <<>> \/ worker # None)
      /\ UNCHANGED <<kicked, retire_cnt, handler, fevents, worker, prepared>>
  BY DEF CrtcDisable, ResetFences, counts, interrupt
<1>2. prepared = kicked /\ prepared' = kicked' + B(disp' \in {"flush", "kick"})
  BY <1>1, WayTypes DEF Reports, B
<1>3. retire_cnt = 0 /\ handler["irq"] = None /\ handler["disp"] = None
  BY <1>1 DEF Counters, Kickoff, After
<1>4. ASSUME ~stale', NEW x  PROVE OnWay(x)' = 0
  <2>1. fevents' = <<>> /\ worker' = None
    BY <1>1, <1>4
  <2>2. Len(fevents') = 0
    BY <2>1
  <2>3. Count(x, fevents', 0) \in 0 .. 0
    BY CountFinite
  <2>4. Queued(x)' = 0
    BY <2>2, <2>3 DEF Queued
  <2>5. /\ Has(worker', x) = 0 /\ Has(handler'["irq"], x) = 0 /\ Has(handler'["disp"], x) = 0
    BY <1>1, <1>3, <2>1 DEF Has
  <2>6. OnWay(x)' = Queued(x)' + Has(worker', x) + Has(handler'["irq"], x) + Has(handler'["disp"], x)
    BY DEF OnWay, Has
  <2> QED  BY <2>4, <2>5, <2>6
<1>5. ASSUME ~stale'
      PROVE  /\ released' + OnWay("release")' <= kicked' - retire_cnt'
             /\ retired' + OnWay("retire")' <= kicked' - retire_cnt'
  BY <1>1, <1>2, <1>3, <1>4, <1>5, WayTypes
<1> QED  BY <1>2, <1>5 DEF Reports

\* The event thread signals the fences of its event.
LEMMA Worked ==
  ASSUME TypeOK, TypeOK', Reports, SignalFences,
         UNCHANGED <<disp, kicked, stale, handler, retire_cnt>>
  PROVE  Reports'
<1>1. /\ worker # None /\ worker' = None /\ UNCHANGED <<fevents, prepared>>
      /\ released' = IF "release" \in worker THEN Signal(released) ELSE released
      /\ retired' = IF "retire" \in worker THEN Signal(retired) ELSE retired
  BY DEF SignalFences
<1>2. /\ released' <= released + Has(worker, "release") /\ released' \in Nat
      /\ retired' <= retired + Has(worker, "retire") /\ retired' \in Nat
  BY <1>1, WayTypes DEF Has, Signal
<1>3. ASSUME NEW x PROVE OnWay(x)' = OnWay(x) - Has(worker, x)
  <2>1. /\ Queued(x)' = Queued(x) /\ Has(worker', x) = 0 /\ handler' = handler
    BY <1>1 DEF Queued, Has
  <2>2. OnWay(x)' = Queued(x)' + Has(worker', x) + Has(handler'["irq"], x) + Has(handler'["disp"], x)
    BY DEF OnWay, Has
  <2> QED  BY <2>1, <2>2, WayTypes DEF OnWay
<1>4. prepared' = kicked' + B(disp' \in {"flush", "kick"})
  BY <1>1 DEF Reports, B
<1>5. ASSUME ~stale'
      PROVE  /\ released' + OnWay("release")' <= kicked' - retire_cnt'
             /\ retired' + OnWay("retire")' <= kicked' - retire_cnt'
  <2>1. /\ OnWay("release")' = OnWay("release") - Has(worker, "release")
        /\ OnWay("retire")' = OnWay("retire") - Has(worker, "retire")
    BY <1>3
  <2>2. /\ released + OnWay("release") <= kicked - retire_cnt
        /\ retired + OnWay("retire") <= kicked - retire_cnt
    BY <1>5 DEF Reports
  <2>3. Has(worker, "release") \in {0, 1} /\ Has(worker, "retire") \in {0, 1}
    BY WayTypes
  <2>4. released' + (OnWay("release") - Has(worker, "release")) <= kicked - retire_cnt
    BY <1>2, <2>2, <2>3, WayTypes, WayNumbers
  <2>5. retired' + (OnWay("retire") - Has(worker, "retire")) <= kicked - retire_cnt
    BY <1>2, <2>2, <2>3, WayTypes, WayNumbers
  <2> QED  BY <2>1, <2>4, <2>5
<1> QED  BY <1>4, <1>5 DEF Reports

LEMMA ReportsStep ==
  TypeOK /\ Counters /\ ~Fault("hang") /\ Flushes /\ Stopping /\ Reports /\ [Next]_vars => Reports'
<1> SUFFICES ASSUME TypeOK, Counters, ~Fault("hang"), Flushes, Stopping, Reports, [Next]_vars
             PROVE  Reports'
  OBVIOUS
<1>0. TypeOK'
  BY TypeStep
<1> USE <1>0 DEF counts, interrupt, frames, events, fences, Context
<1>1. CASE Enable
  BY <1>1, Untouched DEF Enable
<1>2. CASE PrepareCommit
  <2>1. /\ disp = "free" /\ disp' = "flush" /\ prepared' = prepared + 1
        /\ UNCHANGED <<released, retired, kicked, stale, fevents, worker, handler, retire_cnt>>
    BY <1>2 DEF PrepareCommit
  <2>2. \A x : OnWay(x)' = OnWay(x)
    BY <2>1 DEF OnWay, Queued, Has
  <2>3. prepared' = kicked' + B(disp' \in {"flush", "kick"})
    BY <2>1, WayTypes DEF Reports, B
  <2> QED  BY <2>1, <2>2, <2>3 DEF Reports
<1>3. CASE Disable
  BY <1>3, Untouched DEF Disable
<1>4. CASE CommitKickoff
  BY <1>4, Untouched DEF CommitKickoff
<1>5. CASE KickoffFlush
  BY <1>5, FrameKicked
<1>6. CASE KickoffCount
  BY <1>6, Untouched DEF KickoffCount
<1>7. CASE PostKickoff
  BY <1>7, Untouched DEF PostKickoff
<1>8. CASE WaitForIrq
  <2>1. disp \notin {"flush", "kick"} /\ disp' \notin {"flush", "kick"}
    BY <1>8 DEF WaitForIrq, Waiting, After
  <2> QED  BY <1>8, <2>1, Untouched DEF WaitForIrq
<1>9. CASE IrqLate
  <2>1. /\ VblankIrq("disp") /\ handler["disp"] = None
        /\ UNCHANGED <<fences, kicked, stale, disp, fevents, worker>>
    BY <1>9 DEF IrqLate, Waiting
  <2>2. \A x \in Fenced : OnWay(x)' + retire_cnt' <= OnWay(x) + retire_cnt
    BY <2>1, CallbackWay
  <2> QED  BY <2>1, <2>2, Kept
<1>10. CASE IrqLateEnd
  <2>1. /\ VblankPost("disp") /\ handler["disp"] # None
        /\ UNCHANGED <<fences, kicked, stale, worker, retire_cnt>>
    BY <1>10 DEF IrqLateEnd
  <2>2. disp \notin {"flush", "kick"} /\ disp' \notin {"flush", "kick"}
    BY <1>10 DEF IrqLateEnd, Counters, After
  <2>3. \A x \in Fenced : OnWay(x)' + retire_cnt' <= OnWay(x) + retire_cnt
    <3> SUFFICES ASSUME NEW x \in Fenced PROVE OnWay(x)' + retire_cnt <= OnWay(x) + retire_cnt
      BY <2>1
    <3>1. OnWay(x)' <= OnWay(x)
      BY <2>1, PostWay
    <3>2. OnWay(x)' \in Nat
      BY <1>0, WayNext
    <3> QED  BY <3>1, <3>2, WayTypes
  <2> QED  BY <2>1, <2>2, <2>3, Kept
<1>11. CASE VblankDone
  <2>1. /\ Post({"done"}) \/ Post({})
        /\ UNCHANGED <<fences, kicked, stale, worker, handler, retire_cnt>>
    BY <1>11 DEF VblankDone, FrameDone
  <2>2. disp \notin {"flush", "kick"} /\ disp' \notin {"flush", "kick"}
    BY <1>11 DEF VblankDone
  <2>3. \A x \in Fenced : OnWay(x)' + retire_cnt' <= OnWay(x) + retire_cnt
    <3> SUFFICES ASSUME NEW x \in Fenced PROVE OnWay(x)' + retire_cnt' <= OnWay(x) + retire_cnt
      OBVIOUS
    <3>1. Count(x, fevents', Len(fevents')) <= Queued(x)
      <4>1. Has({"done"}, x) = 0 /\ Has({}, x) = 0
        BY DEF Has, Fenced
      <4>2. Count(x, fevents', Len(fevents')) <= Queued(x) + 0
        BY <2>1, <4>1, FlagType, PostedOnce
      <4> QED  BY <4>2, WayTypes
    <3>2. OnWay(x)' = Count(x, fevents', Len(fevents')) + Has(worker, x) + Has(handler["irq"], x)
                        + Has(handler["disp"], x)
      BY <2>1 DEF OnWay, Has, Queued
    <3>3. Count(x, fevents', Len(fevents')) \in Nat
      <4>1. Len(fevents') \in Nat
        BY <1>0 DEF TypeOK, EventsTypeOK
      <4>2. Count(x, fevents', Len(fevents')) \in 0 .. Len(fevents')
        BY <4>1, CountFinite
      <4> QED  BY <4>1, <4>2
    <3>4. PICK q \in Nat : q = Count(x, fevents', Len(fevents'))
      BY <3>3
    <3>5. OnWay(x)' <= OnWay(x)
      BY <3>1, <3>2, <3>4, WayTypes DEF OnWay
    <3>6. OnWay(x)' \in Nat
      BY <1>0, WayNext
    <3> QED  BY <2>1, <3>5, <3>6, WayTypes
  <2> QED  BY <2>1, <2>2, <2>3, Kept
<1>12. CASE WaitTimeout
  <2>1. disp \in DOMAIN After /\ timing = "off"
    BY <1>12 DEF WaitTimeout, Waiting
  <2>2. disp \notin {"wait", "tx"}
    BY <2>1 DEF Flushes, Going
  <2>3. disp' \notin {"flush", "kick"} /\ disp \notin {"flush", "kick"}
    BY <1>12, <2>1, <2>2 DEF WaitTimeout, After
  <2> QED  BY <1>12, <2>2, <2>3, Untouched DEF WaitTimeout
<1>13. CASE StopTiming
  BY <1>13, Untouched DEF StopTiming
<1>14. CASE ReadStatus
  BY <1>14, Untouched DEF ReadStatus
<1>15. CASE PhysDisable
  BY <1>15, Untouched DEF PhysDisable
<1>16. CASE MaskIrq
  BY <1>16, Untouched DEF MaskIrq
<1>17. CASE UnregisterIrq
  BY <1>17, Untouched DEF UnregisterIrq
<1>18. CASE CrtcDisable
  BY <1>18, FencesReset
<1>19. CASE IrqRead
  BY <1>19, Untouched DEF IrqRead
<1>20. CASE IrqDispatch
  <2>1. CASE registered
    <3>1. /\ VblankIrq("irq") /\ handler["irq"] = None
          /\ UNCHANGED <<fences, kicked, stale, disp, fevents, worker>>
      BY <1>20, <2>1 DEF IrqDispatch, Counters
    <3>2. \A x \in Fenced : OnWay(x)' + retire_cnt' <= OnWay(x) + retire_cnt
      BY <3>1, CallbackWay
    <3> QED  BY <3>1, <3>2, Kept
  <2>2. CASE ~registered
    BY <1>20, <2>2, Untouched DEF IrqDispatch
  <2> QED  BY <2>1, <2>2
<1>21. CASE IrqEnd
  <2>1. /\ VblankPost("irq") /\ handler["irq"] # None
        /\ UNCHANGED <<fences, kicked, stale, disp, worker, retire_cnt>>
    BY <1>21 DEF IrqEnd, Counters
  <2>2. \A x \in Fenced : OnWay(x)' + retire_cnt' <= OnWay(x) + retire_cnt
    <3> SUFFICES ASSUME NEW x \in Fenced PROVE OnWay(x)' + retire_cnt <= OnWay(x) + retire_cnt
      BY <2>1
    <3>1. OnWay(x)' <= OnWay(x)
      BY <2>1, PostWay
    <3>2. OnWay(x)' \in Nat
      BY <1>0, WayNext
    <3> QED  BY <3>1, <3>2, WayTypes
  <2> QED  BY <2>1, <2>2, Kept
<1>22. CASE WorkBegin
  <2>1. FrameEventWork /\ UNCHANGED <<fences, kicked, stale, disp, handler, retire_cnt>>
    BY <1>22 DEF WorkBegin, FrameEventWork
  <2>2. \A x \in Fenced : OnWay(x)' + retire_cnt' <= OnWay(x) + retire_cnt
    <3> SUFFICES ASSUME NEW x \in Fenced PROVE OnWay(x)' + retire_cnt <= OnWay(x) + retire_cnt
      BY <2>1
    <3>1. OnWay(x)' <= OnWay(x)
      BY <2>1, TakenWay
    <3>2. OnWay(x)' \in Nat
      BY <1>0, WayNext
    <3> QED  BY <3>1, <3>2, WayTypes
  <2> QED  BY <2>1, <2>2, Kept
<1>23. CASE WorkEnd
  BY <1>23, Worked DEF WorkEnd
<1>24. CASE HwVsync
  BY <1>24, Untouched DEF HwVsync
<1>25. CASE UNCHANGED vars
  BY <1>25, Untouched DEF vars
<1> QED
  BY <1>1, <1>2, <1>3, <1>4, <1>5, <1>6, <1>7, <1>8, <1>9, <1>10, <1>11, <1>12,
     <1>13, <1>14,
     <1>15, <1>16, <1>17, <1>18, <1>19, <1>20, <1>21, <1>22, <1>23, <1>24, <1>25
  DEF Next, DispStep, IrqStep, EventStep

LEMMA InvInit == Init => IInv
<1> SUFFICES ASSUME Init PROVE IInv
  OBVIOUS
<1>1. scenario.frames \in Nat /\ scenario.offs \in Nat
  BY VidAssumption DEF Init
<1>2. fevents \in Seq(SUBSET Flag) /\ Len(fevents) = 0
  BY DEF Init, EventsInit
<1>3. TypeOK
  <2>1. EventsTypeOK
    BY <1>2 DEF Init, EventsInit, EventsTypeOK
  <2>2. handler \in [Context -> (SUBSET Flag) \cup {None}] /\ busy \subseteq Phys
    BY DEF Init
  <2>3. kicked \in 0 .. scenario.frames /\ shown \in 0 .. kicked /\ offs \in 0 .. scenario.offs
    BY <1>1 DEF Init
  <2>4. /\ enabling \in BOOLEAN /\ registered \in BOOLEAN /\ flush \in BOOLEAN
        /\ enabled \in BOOLEAN /\ status \in BOOLEAN /\ stale \in BOOLEAN
    BY DEF Init
  <2>5. /\ scenario \in Scenarios /\ disp = "off" /\ irq = "idle" /\ timing = "off"
        /\ pending \in Nat /\ retire_cnt \in 0 .. 1
    BY DEF Init
  <2> QED  BY <2>1, <2>2, <2>3, <2>4, <2>5 DEF TypeOK
<1>4. Counters
  BY DEF Init, Counters, Kickoff, Context
<1>5. Flushes
  BY DEF Init, Flushes, Going, Context
<1>6. Stopping
  BY DEF Init, Stopping, Context
<1>7. Reports
  <2>1. ASSUME NEW x PROVE OnWay(x) = 0
    <3>1. Queued(x) = 0
      <4>1. Count(x, fevents, 0) \in 0 .. 0
        BY CountFinite
      <4> QED  BY <1>2, <4>1 DEF Queued
    <3>2. worker = None /\ handler["irq"] = None /\ handler["disp"] = None
      BY DEF Init, EventsInit, Context
    <3> QED  BY <3>1, <3>2 DEF OnWay, Has
  <2> QED  BY <2>1 DEF Init, EventsInit, Reports, B
<1> QED  BY <1>3, <1>4, <1>5, <1>6, <1>7 DEF IInv

LEMMA InvStep == IInv /\ [Next]_vars => IInv'
<1> SUFFICES ASSUME IInv, [Next]_vars PROVE IInv'
  OBVIOUS
<1>1. TypeOK' /\ Counters'
  BY TypeStep, CountersStep DEF IInv
<1>2. scenario' = scenario
  BY DEF Next, DispStep, IrqStep, EventStep, vars, Enable, PrepareCommit, Disable,
     CommitKickoff,
         KickoffFlush, KickoffCount, PostKickoff, WaitForIrq, IrqLate, IrqLateEnd, VblankDone,
         WaitTimeout, StopTiming, ReadStatus, PhysDisable, MaskIrq, UnregisterIrq, CrtcDisable,
         IrqRead, IrqDispatch, IrqEnd, WorkBegin, WorkEnd, HwVsync
<1>3. ~Fault("hang") => Flushes' /\ Stopping' /\ Reports'
  BY FlushesStep, StoppingStep, ReportsStep DEF IInv
<1> QED  BY <1>1, <1>2, <1>3 DEF IInv, Fault

\* What the invariant says of the fences and of the stop.
LEMMA InvImplies == IInv => TypeOK /\ ReportsNotEarly /\ OffIsLatched
<1> SUFFICES ASSUME IInv, ~Fault("hang")
             PROVE  /\ ~stale => released <= shown /\ retired <= shown
                    /\ disp = "wait_done" => shown = kicked
                    /\ disp \in {"mask", "unregister", "crtc", "off"} => timing = "off"
  BY DEF IInv, ReportsNotEarly, OffIsLatched
<1>1. TypeOK /\ Flushes /\ Stopping /\ Reports
  BY DEF IInv
<1>2. shown \in Nat /\ kicked - retire_cnt <= shown
  <2>1. shown \in Nat /\ kicked \in Nat /\ retire_cnt \in {0, 1}
    BY <1>1, WayTypes DEF TypeOK
  <2> QED  BY <1>1, <2>1 DEF Flushes
<1>3. ~stale => released <= shown /\ retired <= shown
  BY <1>1, <1>2, WayTypes, WayNumbers DEF Reports
<1>4. disp = "wait_done" => shown = kicked
  BY <1>1 DEF Flushes, Kickoff
<1> QED  BY <1>1, <1>3, <1>4 DEF Stopping

LEMMA InvAlways == Spec => []IInv
  BY InvInit, InvStep, PTL DEF Spec

-----------------------------------------------------------------------------
(* The theorems.                                                           *)

\* Every variable keeps its type in every scenario, whatever is late or hangs: among
\* others at most one retire fence of a video encoder is ever pending.
THEOREM VidTypes == Spec => []TypeOK
  BY InvAlways, InvImplies, PTL

\* Fences and commits of a video mode display never report a frame the hardware has
\* not taken, for any number of frames and any pool: whichever of the late interrupt,
\* the interrupt handler and the display thread runs the vsync callback.
THEOREM VidReportsNotEarly == Spec => []ReportsNotEarly
  BY InvAlways, InvImplies, PTL

\* The sources of a stopping interface stay until ENABLE=0 has latched: of the two
\* waits at least one ends with a vsync from after the stop.
THEOREM VidOffIsLatched == Spec => []OffIsLatched
  BY InvAlways, InvImplies, PTL
=============================================================================
