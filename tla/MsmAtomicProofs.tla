-------------------------- MODULE MsmAtomicProofs --------------------------
(***************************************************************************)
(* Proofs about atomic commits and the blocks they reserve, for any set of *)
(* displays, planes, blocks, callers and commits.                          *)
(*                                                                         *)
(* First what a reservation of SdeRm takes: free blocks only (Given), and  *)
(* what a check leaves alone (Checked).  Then the commits: those at work   *)
(* are marked for disjoint sets of resources, and a commit changes only    *)
(* what is in its own set.  From that follow that the hardware ends up as  *)
(* the committed state says, that every commit uses its resources alone    *)
(* (ExclusiveCommits), and that the reservations fit the topologies.       *)
(***************************************************************************)
EXTENDS MsmAtomic, NatLemmas, TLAPS

-----------------------------------------------------------------------------
(* The reservation of blocks.                                              *)

\* The first entry of a list is at one of the places it was looked for.
LEMMA FirstIn ==
  ASSUME NEW list, NEW places, places \subseteq Nat, places # {}
  PROVE  \E i \in places : First(list, places) = list[i]
<1>1. \E i \in places : \A j \in places : i <= j
  BY Least
<1> QED
  BY <1>1 DEF First

\* Sets of mixers whose blocks a display can reserve, and of blocks it can.
Free(s, e) == {b \in Blk : ~ReservedByOther(s, e, b)}
FreeLms(s, e) == {lms \in SUBSET ToSet(LmList) :
                    \A lm \in lms : Connected(lm) \subseteq Free(s, e)}

FreeDscs(s, e) == Free(s, e) \cap ToSet(DscList)

LEMMA CheckLmFree ==
  ASSUME NEW s, NEW e, NEW r, NEW i \in DOMAIN LmList, NEW primary,
         CheckLm(s, e, r, LmList[i], primary)
  PROVE  LmList[i] \in ToSet(LmList) /\ Connected(LmList[i]) \subseteq Free(s, e)
<1>1. LmList[i] \in ToSet(LmList)
  BY DEF ToSet
<1>2. Connected(LmList[i]) \subseteq Blk
  BY <1>1 DEF Blk
<1> QED
  BY <1>1, <1>2 DEF CheckLm, Free

LEMMA LmStepFree ==
  ASSUME NEW s, NEW e, NEW r, NEW taken \in FreeLms(s, e), NEW i \in DOMAIN LmList
  PROVE  LmStep(s, e, r, taken, LmList[i]) \in FreeLms(s, e)
<1> DEFINE lm == LmList[i]
           peers == {j \in DOMAIN LmList :
                       /\ LmList[j] # lm /\ LmList[j] \notin taken
                       /\ CheckLm(s, e, r, LmList[j], lm)}
<1>1. CheckLm(s, e, r, lm, None) => taken \cup {lm} \in FreeLms(s, e)
  BY CheckLmFree DEF FreeLms
<1>2. ASSUME CheckLm(s, e, r, lm, None), peers # {}
      PROVE  taken \cup {lm, First(LmList, peers)} \in FreeLms(s, e)
  <2>1. peers \subseteq Nat
    BY RmAssumption
  <2>2. PICK j \in peers : First(LmList, peers) = LmList[j]
    BY <1>2, <2>1, FirstIn
  <2>3. LmList[j] \in ToSet(LmList) /\ Connected(LmList[j]) \subseteq Free(s, e)
    BY CheckLmFree
  <2> QED
    BY <1>1, <1>2, <2>2, <2>3 DEF FreeLms
<1> QED
  BY <1>1, <1>2 DEF LmStep

LEMMA LmPassFree ==
  ASSUME NEW s, NEW e, NEW r, NEW taken \in FreeLms(s, e)
  PROVE  LmPass(s, e, r, taken) \in FreeLms(s, e)
<1> DEFINE L == Len(LmList)
           A == FreeLms(s, e)
           G == [n \in 1 .. L |-> [x \in A |-> LmStep(s, e, r, x, LmList[n])]]
           Is(f) == f = [n \in 0 .. L |-> IF n = 0 THEN taken
                                          ELSE LmStep(s, e, r, f[n - 1], LmList[n])]
           upto == CHOOSE f : Is(f)
<1>1. L \in Nat /\ DOMAIN LmList = 1 .. L
  BY RmAssumption
<1>2. taken \in A /\ \A n \in 1 .. L : \A x \in A : G[n][x] \in A
  BY <1>1, LmStepFree
<1>3. PICK f : Iterates(f, L, A, taken, G)
  <2>1. L \in Nat
    BY <1>1
  <2>2. taken \in A
    BY <1>2
  <2>3. Stays(L, A, G)
    BY <1>2 DEF Stays
  <2> HIDE DEF A, G, L
  <2> QED
    BY <2>1, <2>2, <2>3, Iterated
<1>4. Is(f)
  <2> SUFFICES ASSUME NEW n \in 0 .. L
               PROVE  f[n] = IF n = 0 THEN taken ELSE LmStep(s, e, r, f[n - 1], LmList[n])
    BY <1>3 DEF Iterates
  <2>1. CASE n # 0
    <3>1. n \in 1 .. L /\ n - 1 \in 0 .. L
      BY <1>1, <2>1
    <3> QED
      BY <1>3, <2>1, <3>1 DEF Iterates
  <2> QED
    BY <1>3, <2>1 DEF Iterates
<1>5. Is(upto)
  BY <1>4
<1>6. upto[0] \in A
  <2>1. 0 \in 0 .. L
    BY <1>1
  <2> HIDE DEF upto, L, A
  <2>2. upto[0] = taken
    BY <1>5, <2>1
  <2> QED
    BY <1>2, <2>2
<1>7. ASSUME NEW n \in 1 .. L, upto[n - 1] \in A PROVE upto[n] \in A
  <2>1. n \in 0 .. L /\ n # 0
    BY <1>1
  <2>2. upto[n] = LmStep(s, e, r, upto[n - 1], LmList[n])
    <3> HIDE DEF upto
    <3> QED
      BY <1>5, <2>1
  <2> QED
    <3>1. n \in DOMAIN LmList
      BY <1>1
    <3> HIDE DEF upto
    <3>2. LmStep(s, e, r, upto[n - 1], LmList[n]) \in A
      BY <1>7, <3>1, LmStepFree
    <3> QED
      BY <2>2, <3>2
<1>8. upto[L] \in A
  <2> HIDE DEF A, L, upto
  <2> QED
    BY <1>1, <1>6, <1>7, Carried
<1>9. LmPass(s, e, r, taken) = upto[L]
  BY DEF LmPass
<1> QED
  BY <1>8, <1>9

LEMMA FindLmsFree ==
  ASSUME NEW s, NEW e, NEW r
  PROVE  FindLms(s, e, r) \in FreeLms(s, e)
<1>1. {} \in FreeLms(s, e)
  BY DEF FreeLms
<1> QED
  BY <1>1, LmPassFree DEF FindLms

LEMMA DscStepFree ==
  ASSUME NEW s, NEW e, NEW num, NEW taken \in SUBSET FreeDscs(s, e), NEW i \in DOMAIN DscList
  PROVE  DscStep(s, e, num, taken, DscList[i]) \in SUBSET FreeDscs(s, e)
<1> DEFINE dsc == DscList[i]
           peers == {j \in DOMAIN DscList :
                       /\ DscList[j] # dsc /\ DscList[j] \notin taken
                       /\ DscList[j] \in DscPair[dsc]
                       /\ ~ReservedByOther(s, e, DscList[j])}
<1>1. \A j \in DOMAIN DscList : ~ReservedByOther(s, e, DscList[j]) => DscList[j] \in FreeDscs(s, e)
  BY RmAssumption DEF FreeDscs, Free, ToSet
<1>2. ASSUME peers # {} PROVE First(DscList, peers) \in FreeDscs(s, e)
  <2>1. peers \subseteq Nat
    BY RmAssumption
  <2>2. PICK j \in peers : First(DscList, peers) = DscList[j]
    BY <1>2, <2>1, FirstIn
  <2> QED
    BY <1>1, <2>2
<1> QED
  BY <1>1, <1>2 DEF DscStep

LEMMA FindDscsFree ==
  ASSUME NEW s, NEW e, NEW num
  PROVE  FindDscs(s, e, num) \in SUBSET FreeDscs(s, e)
<1> DEFINE L == Len(DscList)
           A == SUBSET FreeDscs(s, e)
           G == [n \in 1 .. L |-> [x \in A |-> DscStep(s, e, num, x, DscList[n])]]
           Is(f) == f = [n \in 0 .. L |-> IF n = 0 THEN {}
                                          ELSE DscStep(s, e, num, f[n - 1], DscList[n])]
           upto == CHOOSE f : Is(f)
<1>1. L \in Nat /\ DOMAIN DscList = 1 .. L
  BY RmAssumption
<1>2. {} \in A /\ \A n \in 1 .. L : \A x \in A : G[n][x] \in A
  BY <1>1, DscStepFree
<1>3. PICK f : Iterates(f, L, A, {}, G)
  <2>1. L \in Nat
    BY <1>1
  <2>2. {} \in A
    BY <1>2
  <2>3. Stays(L, A, G)
    BY <1>2 DEF Stays
  <2> HIDE DEF A, G, L
  <2> QED
    BY <2>1, <2>2, <2>3, Iterated
<1>4. Is(f)
  <2> SUFFICES ASSUME NEW n \in 0 .. L
               PROVE  f[n] = IF n = 0 THEN {} ELSE DscStep(s, e, num, f[n - 1], DscList[n])
    BY <1>3 DEF Iterates
  <2>1. CASE n # 0
    <3>1. n \in 1 .. L /\ n - 1 \in 0 .. L
      BY <1>1, <2>1
    <3> QED
      BY <1>3, <2>1, <3>1 DEF Iterates
  <2> QED
    BY <1>3, <2>1 DEF Iterates
<1>5. Is(upto)
  BY <1>4
<1>6. upto[0] \in A
  <2>1. 0 \in 0 .. L
    BY <1>1
  <2> HIDE DEF upto, L, A
  <2>2. upto[0] = {}
    BY <1>5, <2>1
  <2> QED
    BY <1>2, <2>2
<1>7. ASSUME NEW n \in 1 .. L, upto[n - 1] \in A PROVE upto[n] \in A
  <2>1. n \in 0 .. L /\ n # 0
    BY <1>1
  <2>2. upto[n] = DscStep(s, e, num, upto[n - 1], DscList[n])
    <3> HIDE DEF upto
    <3> QED
      BY <1>5, <2>1
  <2> QED
    <3>1. n \in DOMAIN DscList
      BY <1>1
    <3> HIDE DEF upto
    <3>2. DscStep(s, e, num, upto[n - 1], DscList[n]) \in A
      BY <1>7, <3>1, DscStepFree
    <3> QED
      BY <2>2, <3>2
<1>8. upto[L] \in A
  <2> HIDE DEF A, L, upto
  <2> QED
    BY <1>1, <1>6, <1>7, Carried
<1>9. FindDscs(s, e, num) = upto[L]
  BY DEF FindDscs
<1> QED
  BY <1>8, <1>9

\* What one reservation can do: blocks that nobody else has are given to e.
Given(old, new, e) ==
    /\ new \in State
    /\ \A b \in Blk : new[b] = old[b] \/ (new[b] = e /\ old[b] \in {None, e})

LEMMA ReserveGiven ==
  ASSUME NEW s \in State, NEW e \in Display, NEW blks, blks \subseteq Free(s, e)
  PROVE  Given(s, Reserve(s, e, blks), e)
BY DEF Given, Reserve, State, Free, ReservedByOther

LEMMA GivenTransitive ==
  ASSUME NEW s, NEW t, NEW u, NEW e \in Display, Given(s, t, e), Given(t, u, e)
  PROVE  Given(s, u, e)
BY DEF Given

LEMMA ReserveCtlsGiven ==
  ASSUME NEW s \in State, NEW e \in Display, NEW r
  PROVE  Given(s, ReserveCtls(s, e, r), e)
<1> DEFINE fits == {i \in DOMAIN CtlList :
                      /\ ~ReservedByOther(s, e, CtlList[i])
                      /\ IF CtlCfg[CtlList[i]].pref THEN r.primary
                         ELSE CtlCfg[CtlList[i]].split = r.topology.needs_split_display}
           ctls == {i \in fits : Cardinality({j \in fits : j < i}) < r.topology.num_ctl}
<1>1. {CtlList[i] : i \in ctls} \subseteq Free(s, e)
  <2>1. \A i \in ctls : i \in DOMAIN CtlList /\ ~ReservedByOther(s, e, CtlList[i])
    OBVIOUS
  <2>2. \A i \in DOMAIN CtlList : CtlList[i] \in Blk
    BY RmAssumption
  <2> HIDE DEF ctls
  <2> QED
    BY <2>1, <2>2 DEF Free
<1>2. Given(s, Reserve(s, e, {CtlList[i] : i \in ctls}), e)
  <2> HIDE DEF ctls
  <2> QED
    BY <1>1, ReserveGiven
<1>3. Given(s, s, e)
  BY DEF Given
<1> QED
  BY <1>2, <1>3 DEF ReserveCtls

\* _sde_rm_make_next_rsvp takes nothing from another display.
LEMMA MakeNextRsvpGiven ==
  ASSUME NEW s \in State, NEW e \in Display, NEW name,
         MakeNextRsvp(s, e, name) # None
  PROVE  Given(s, MakeNextRsvp(s, e, name), e)
<1> DEFINE r == Requirements(e, name)
           lms == FindLms(s, e, r)
           s1 == Reserve(s, e, UNION {Connected(lm) : lm \in lms})
           s2 == ReserveCtls(s1, e, r)
           cdms == FindCdms(s2, e)
           s3 == Reserve(s2, e, IF cdms = {} THEN {} ELSE {First(CdmList, cdms)})
           dscs == FindDscs(s3, e, r.topology.num_comp_enc)
<1>1. Given(s, s1, e)
  <2>1. UNION {Connected(lm) : lm \in lms} \subseteq Free(s, e)
    BY FindLmsFree DEF FreeLms
  <2> QED
    BY <2>1, ReserveGiven
<1>2. Given(s1, s2, e)
  <2>1. s1 \in State
    BY <1>1 DEF Given
  <2> HIDE DEF s1, r
  <2> QED
    BY <2>1, ReserveCtlsGiven
<1>3. Given(s2, s3, e)
  <2>1. s2 \in State
    BY <1>2 DEF Given
  <2>2. ASSUME cdms # {} PROVE First(CdmList, cdms) \in Free(s2, e)
    <3>1. cdms \subseteq {i \in DOMAIN CdmList : ~ReservedByOther(s2, e, CdmList[i])}
      BY DEF FindCdms
    <3>2. cdms \subseteq Nat
      BY <3>1, RmAssumption
    <3>3. PICK j \in cdms : First(CdmList, cdms) = CdmList[j]
      BY <2>2, <3>2, FirstIn
    <3> QED
      BY <3>1, <3>3, RmAssumption DEF Free
  <2> HIDE DEF s2, cdms
  <2> QED
    BY <2>1, <2>2, ReserveGiven
<1>4. Given(s3, Reserve(s3, e, dscs), e)
  <2>1. s3 \in State
    BY <1>3 DEF Given
  <2>2. dscs \subseteq Free(s3, e)
    BY FindDscsFree DEF FreeDscs
  <2> HIDE DEF s3, dscs
  <2> QED
    BY <2>1, <2>2, ReserveGiven
<1>5. MakeNextRsvp(s, e, name) = Reserve(s3, e, dscs)
  BY DEF MakeNextRsvp
<1> QED
  <2> HIDE DEF s1, s2, s3, dscs
  <2> QED
    BY <1>1, <1>2, <1>3, <1>4, <1>5, GivenTransitive

\* A checked reservation: only blocks of displays with a mode set change
\* hands, and only displays that are on afterwards have any.
Checked(old, new, modes) ==
    /\ new \in State
    /\ \A b \in Blk :
         \/ new[b] = old[b]
         \/ {new[b], old[b]} \subseteq DOMAIN modes \cup {None}
    /\ \A b \in Blk : new[b] \in DOMAIN modes => modes[new[b]] # None

LEMMA RmStepChecked ==
  ASSUME NEW old \in State, NEW modes, NEW s, NEW d \in Display,
         s = None \/ Checked(old, s, modes)
  PROVE  RmStep(modes, s, d) = None \/ Checked(old, RmStep(modes, s, d), modes)
<1>1. ASSUME s # None, d \in DOMAIN modes, modes[d] # None, MakeNextRsvp(s, d, modes[d]) # None
      PROVE  Checked(old, MakeNextRsvp(s, d, modes[d]), modes)
  <2>1. Checked(old, s, modes) /\ s \in State
    BY <1>1 DEF Checked
  <2>2. Given(s, MakeNextRsvp(s, d, modes[d]), d)
    BY <1>1, <2>1, MakeNextRsvpGiven
  <2> QED
    BY <1>1, <2>1, <2>2 DEF Given, Checked
<1> QED
  BY <1>1 DEF RmStep

\* sde_connector_rm_check and sde_encoder_virt_atomic_check: the displays get
\* their turns one after the other.
RmRun(modes, upto) ==
    /\ upto[0] = ReleaseRsvp(rsvp, DOMAIN modes)
    /\ \A n \in 1 .. Len(Displays) : upto[n] = RmStep(modes, upto[n - 1], Displays[n])
    /\ RmCheck(modes) = upto[Len(Displays)]

LEMMA DisplaysInOrder ==
  /\ Len(Displays) \in Nat /\ DOMAIN Displays = 1 .. Len(Displays)
  /\ \A n \in 1 .. Len(Displays) : Displays[n] \in Display
BY AtomicAssumption

LEMMA ReleaseChecked ==
  ASSUME rsvp \in State, NEW modes, DOMAIN modes \subseteq Display
  PROVE  Checked(rsvp, ReleaseRsvp(rsvp, DOMAIN modes), modes)
BY RmAssumption DEF ReleaseRsvp, State, Checked

LEMMA RmCheckRuns ==
  ASSUME rsvp \in State, NEW modes, DOMAIN modes \subseteq Display
  PROVE  \E upto : RmRun(modes, upto)
<1> DEFINE L == Len(Displays)
           A == {s \in State \cup {None} : s = None \/ Checked(rsvp, s, modes)}
           a == ReleaseRsvp(rsvp, DOMAIN modes)
           G == [n \in 1 .. L |-> [x \in A |-> RmStep(modes, x, Displays[n])]]
           Is(f) == f = [n \in 0 .. L |-> IF n = 0 THEN ReleaseRsvp(rsvp, DOMAIN modes)
                                          ELSE RmStep(modes, f[n - 1], Displays[n])]
           upto == CHOOSE f : Is(f)
<1>1. L \in Nat
  BY DisplaysInOrder
<1>2. a \in A
  BY ReleaseChecked DEF Checked
<1>3. ASSUME NEW n \in 1 .. L, NEW x \in A PROVE RmStep(modes, x, Displays[n]) \in A
  <2>1. RmStep(modes, x, Displays[n]) = None
          \/ Checked(rsvp, RmStep(modes, x, Displays[n]), modes)
    BY DisplaysInOrder, RmStepChecked
  <2> QED
    BY <2>1 DEF Checked
<1>4. PICK f : Iterates(f, L, A, a, G)
  <2>1. Stays(L, A, G)
    BY <1>3 DEF Stays
  <2> HIDE DEF A, G, L, a
  <2> QED
    BY <1>1, <1>2, <2>1, Iterated
<1>5. Is(f)
  <2> SUFFICES ASSUME NEW n \in 0 .. L
               PROVE  f[n] = IF n = 0 THEN a ELSE RmStep(modes, f[n - 1], Displays[n])
    BY <1>4 DEF Iterates
  <2>1. CASE n # 0
    <3>1. n \in 1 .. L /\ n - 1 \in 0 .. L
      BY <1>1, <2>1
    <3> HIDE DEF a, A
    <3> QED
      BY <1>4, <2>1, <3>1 DEF Iterates
  <2> QED
    BY <1>4, <2>1 DEF Iterates
<1>6. Is(upto)
  BY <1>5
<1>7. upto[0] = a
  <2>1. 0 \in 0 .. L
    BY <1>1
  <2> HIDE DEF upto, L
  <2> QED
    BY <1>6, <2>1
<1>8. ASSUME NEW n \in 1 .. L PROVE upto[n] = RmStep(modes, upto[n - 1], Displays[n])
  <2>1. n \in 0 .. L /\ n # 0
    BY <1>1
  <2> HIDE DEF upto
  <2> QED
    BY <1>6, <2>1
<1>9. RmCheck(modes) = upto[L]
  BY DEF RmCheck
<1> HIDE DEF upto
<1> QED
  BY <1>7, <1>8, <1>9 DEF RmRun

\* A reservation that is not refused is a checked one.
LEMMA RmRunChecked ==
  ASSUME rsvp \in State, NEW modes, DOMAIN modes \subseteq Display,
         NEW upto, RmRun(modes, upto), NEW n \in 0 .. Len(Displays)
  PROVE  upto[n] = None \/ Checked(rsvp, upto[n], modes)
<1> DEFINE T == {m \in 0 .. n : upto[m] = None \/ Checked(rsvp, upto[m], modes)}
<1>1. 0 \in T
  BY ReleaseChecked, DisplaysInOrder DEF RmRun
<1>2. ASSUME NEW m \in 1 .. n, m - 1 \in T PROVE m \in T
  <2>1. m \in 1 .. Len(Displays) /\ m \in 0 .. n
    BY DisplaysInOrder
  <2>2. upto[m] = RmStep(modes, upto[m - 1], Displays[m])
    BY <2>1 DEF RmRun
  <2> QED
    BY <1>2, <2>1, <2>2, DisplaysInOrder, RmStepChecked
<1>3. n \in T
  <2> HIDE DEF T
  <2> QED
    BY <1>1, <1>2, ReachesLast
<1> QED
  BY <1>3

LEMMA RmCheckChecked ==
  ASSUME rsvp \in State, NEW modes, DOMAIN modes \subseteq Display
  PROVE  RmCheck(modes) = None \/ Checked(rsvp, RmCheck(modes), modes)
<1>1. PICK upto : RmRun(modes, upto)
  BY RmCheckRuns
<1>2. Len(Displays) \in 0 .. Len(Displays)
  BY DisplaysInOrder
<1> QED
  BY <1>1, <1>2, RmRunChecked DEF RmRun

\* A commit goes to the thread of one of its displays.
LEMMA ThreadOfIn ==
  ASSUME NEW k, k.crtcs # {}, k.crtcs \subseteq Display
  PROVE  ThreadOf(k) \in k.crtcs
<1> DEFINE places == {i \in DOMAIN Displays : Displays[i] \in k.crtcs}
<1>1. places \subseteq Nat /\ places # {}
  BY AtomicAssumption DEF ToSet
<1>2. PICK i \in places : First(Displays, places) = Displays[i]
  <2> HIDE DEF places
  <2> QED
    BY <1>1, FirstIn
<1> QED
  BY <1>2 DEF ThreadOf

-----------------------------------------------------------------------------
(* The inductive invariant.  A commit is prepared while its caller waits   *)
(* and swaps, marked from start_atomic on, and the job of a display thread *)
(* once it is swapped in.                                                  *)

Job(d) ==
    IF current[d] # None THEN current[d]
    ELSE IF queue[d] # <<>> THEN Head(queue[d]) ELSE None

HasJob(d) == Job(d) # None
Prepared(t) == call[t] \in {"start", "swap"}
Marked(t) == call[t] = "swap"

PlanesOf(s, c) == {p \in Plane : s[p] = c}

Records ==
    /\ commit \in [Caller -> CommitRec \cup {None}]
    /\ \A t \in Caller : call[t] # "idle" => commit[t] \in CommitRec
    /\ queue \in [Display -> Seq(CommitRec)]
    /\ current \in [Display -> CommitRec \cup {None}]

\* A thread has one commit at most, and it is a commit to its display.
Threads ==
    \A d \in Display :
        /\ work[d] = "idle" <=> current[d] = None
        /\ current[d] # None => queue[d] = <<>>
        /\ HasJob(d) => d \in Job(d).crtcs

\* Commits have numbers of their own.
Numbered ==
    /\ \A t \in Caller : call[t] # "idle" => commit[t].id <= commits
    /\ \A d \in Display : HasJob(d) => Job(d).id <= commits
    /\ \A t, o \in Caller : Prepared(t) /\ Prepared(o) /\ t # o => commit[t].id # commit[o].id
    /\ \A t \in Caller, d \in Display : Prepared(t) /\ HasJob(d) => commit[t].id # Job(d).id
    /\ \A c, d \in Display : HasJob(c) /\ HasJob(d) /\ c # d => Job(c).id # Job(d).id

\* What a commit waits for is marked for it alone.
Apart ==
    /\ \A t \in Caller : Marked(t) => commit[t].mask \subseteq pending
    /\ \A d \in Display : HasJob(d) => Job(d).mask \subseteq pending
    /\ \A t, o \in Caller : Marked(t) /\ Marked(o) /\ t # o
                               => commit[t].mask \cap commit[o].mask = {}
    /\ \A t \in Caller, d \in Display : Marked(t) /\ HasJob(d)
                                           => commit[t].mask \cap Job(d).mask = {}
    /\ \A c, d \in Display : HasJob(c) /\ HasJob(d) /\ c # d
                                => Job(c).mask \cap Job(d).mask = {}

Locked == \A t, o \in Caller : t # o => Held(t) \cap Held(o) = {}

\* How the parts of a commit belong together.
WellFormed(k) ==
    /\ k.crtcs # {} /\ k.crtcs \subseteq k.mask \cap k.uses
    /\ DOMAIN k.modes \subseteq k.crtcs /\ DOMAIN k.moves \subseteq k.mask
    /\ \A p \in DOMAIN k.moves : k.moves[p] \in k.crtcs \cup {None}
    /\ \A b \in Blk : k.rm[b] \in DOMAIN k.modes => b \in k.mask /\ k.modes[k.rm[b]] # None
    /\ DOMAIN k.modes = {} => k.mask \cap Blk = {}
    /\ k.uses \ k.mask \subseteq Blk

\* How it belongs to the committed state, before and after it is swapped in.
Placed(k) ==
    /\ \A p \in DOMAIN k.moves : stage[p] \in k.crtcs \cup {None}
    /\ \A b \in k.uses \cap Blk : b \in k.mask \/ rsvp[b] \in k.crtcs

Current(k) ==
    DOMAIN k.modes # {} =>
        /\ Checked(rsvp, k.rm, k.modes)
        /\ \A b \in Blk : b \in k.mask <=> rsvp[b] \in DOMAIN k.modes \/ k.rm[b] \in DOMAIN k.modes

Swapped(k) ==
    /\ \A b \in k.mask \cap Blk : rsvp[b] = k.rm[b] /\ rsvp[b] \in DOMAIN k.modes \cup {None}
    /\ \A b \in Blk : rsvp[b] \in DOMAIN k.modes => b \in k.mask

Commits ==
    /\ \A t \in Caller : Prepared(t) =>
         WellFormed(commit[t]) /\ Placed(commit[t]) /\ Current(commit[t])
    /\ \A d \in Display : HasJob(d) =>
         WellFormed(Job(d)) /\ Placed(Job(d)) /\ Swapped(Job(d))

\* How far the thread of d has taken display c of its commit.
Progress(d, c) ==
    /\ mixers[c] \subseteq BlocksOf(rsvp, c) \cup Job(d).mask
    /\ c \notin DOMAIN Job(d).modes => mixers[c] = BlocksOf(rsvp, c)
    /\ c \in DOMAIN Job(d).modes /\ work[d] \in {"setup", "iterate", "lost"} => mixers[c] = {}
    /\ work[d] \in {"commit", "end"} => mixers[c] = BlocksOf(rsvp, c)
    /\ pipes[c] \subseteq PlanesOf(stage, c) \cup DOMAIN Job(d).moves
    /\ work[d] = "end" => pipes[c] = PlanesOf(stage, c)

Settled(c) == mixers[c] = BlocksOf(rsvp, c) /\ pipes[c] = PlanesOf(stage, c)

Hardware ==
    /\ \A d \in Display : HasJob(d) => \A c \in Job(d).crtcs : Progress(d, c)
    /\ \A c \in Display : (\A d \in Display : HasJob(d) => c \notin Job(d).crtcs) => Settled(c)

Control == Numbered /\ Apart /\ Locked /\ Commits

IInv ==
    /\ TypeOK /\ Records /\ Threads /\ Control
    /\ NoSharing /\ Hardware

-----------------------------------------------------------------------------
(* Facts about the parts of the invariant.                                 *)

LEMMA CommitFields ==
  ASSUME NEW k \in CommitRec
  PROVE  /\ k # None /\ k.id \in CommitId /\ k.crtcs \subseteq Display
         /\ DOMAIN k.modes \subseteq Display
         /\ \A d \in DOMAIN k.modes : k.modes[d] \in Topologies \cup {None}
         /\ DOMAIN k.moves \subseteq Plane
         /\ \A p \in DOMAIN k.moves : k.moves[p] \in Display \cup {None}
         /\ k.rm \in State /\ k.nonblock \in BOOLEAN
         /\ k.mask \subseteq Resource /\ k.uses \subseteq Resource
<1>1. k # None
  BY AtomicAssumption
<1> QED
  BY <1>1 DEF CommitRec, ModeSets, Moves, PartialFunctions

\* The job of a thread is the commit it works on or the only one in its queue.
LEMMA JobIs ==
  ASSUME TypeOK, Records, NEW d \in Display
  PROVE  /\ HasJob(d) <=> current[d] # None \/ queue[d] # <<>>
         /\ HasJob(d) => Job(d) \in CommitRec
         /\ queue[d] # <<>> => queue[d] = <<Head(queue[d])>> /\ Tail(queue[d]) = <<>>
<1>1. queue[d] \in Seq(CommitRec) /\ Len(queue[d]) <= 1
  BY DEF TypeOK, Records
<1>2. ASSUME queue[d] # <<>>
      PROVE  /\ queue[d] = <<Head(queue[d])>> /\ Tail(queue[d]) = <<>>
             /\ Head(queue[d]) \in CommitRec
  BY <1>1, <1>2
<1>3. None \notin CommitRec
  BY AtomicAssumption
<1>4. current[d] # None => current[d] \in CommitRec
  BY DEF Records
<1> QED
  BY <1>2, <1>3, <1>4 DEF HasJob, Job

LEMMA InFlightJobs ==
  ASSUME TypeOK, Records, Threads
  PROVE  InFlight = {Job(d) : d \in {d \in Display : HasJob(d)}}
<1> DEFINE Queued == UNION {ToSet(queue[d]) : d \in Display}
           Working == {current[d] : d \in Display}
<1>0. /\ InFlight = Queued \cup (Working \ {None})
      /\ \A d \in Display : current[d] \in Working
  <2>1. InFlight = Queued \cup (Working \ {None})
    BY Zenon DEF InFlight
  <2>2. \A d \in Display : current[d] \in Working
    OBVIOUS
  <2> QED
    BY <2>1, <2>2
<1>1. ASSUME NEW d \in Display
      PROVE  /\ queue[d] = <<>> => ToSet(queue[d]) = {}
             /\ queue[d] # <<>> => ToSet(queue[d]) = {Head(queue[d])}
  <2>1. ASSUME queue[d] # <<>> PROVE ToSet(queue[d]) = {Head(queue[d])}
    BY <2>1, JobIs DEF ToSet
  <2> QED
    BY <2>1 DEF ToSet
<1>2. ASSUME NEW k \in InFlight PROVE \E d \in Display : HasJob(d) /\ k = Job(d)
  <2>1. CASE k \in Working \ {None}
    BY <2>1 DEF HasJob, Job
  <2>2. CASE k \in Queued
    <3>1. PICK d \in Display : k \in ToSet(queue[d])
      BY <2>2
    <3>2. queue[d] # <<>> /\ k = Head(queue[d])
      BY <1>1, <3>1
    <3>3. current[d] = None
      BY <3>2 DEF Threads
    <3> QED
      BY <3>2, <3>3, JobIs DEF Job
  <2> HIDE DEF Queued, Working
  <2> QED
    BY <1>0, <1>2, <2>1, <2>2
<1>3. ASSUME NEW d \in Display, HasJob(d) PROVE Job(d) \in InFlight
  <2>1. CASE current[d] # None
    <3>1. Job(d) = current[d]
      BY <2>1 DEF Job
    <3> HIDE DEF Queued, Working
    <3> QED
      BY <1>0, <2>1, <3>1
  <2>2. CASE current[d] = None
    <3>1. queue[d] # <<>> /\ Job(d) = Head(queue[d])
      BY <1>3, <2>2 DEF HasJob, Job
    <3>2. Job(d) \in ToSet(queue[d])
      BY <1>1, <3>1
    <3>3. Job(d) \in Queued
      BY <3>2
    <3> HIDE DEF Queued, Working
    <3> QED
      BY <1>0, <3>3
  <2> QED
    BY <2>1, <2>2
<1> QED
  BY <1>2, <1>3

\* A display that a caller has marked is no thread's job.
LEMMA MarkedFree ==
  ASSUME Apart, Commits, NEW t \in Caller, Marked(t), NEW d \in Display, HasJob(d)
  PROVE  commit[t].crtcs \cap Job(d).crtcs = {}
BY DEF Apart, Commits, WellFormed, Prepared, Marked

\* Two threads have no display in common.
LEMMA JobsApart ==
  ASSUME Apart, Commits, NEW c \in Display, NEW d \in Display, c # d, HasJob(c), HasJob(d)
  PROVE  Job(c).crtcs \cap Job(d).crtcs = {}
BY DEF Apart, Commits, WellFormed

-----------------------------------------------------------------------------
(* What the steps do to the jobs of the threads.                           *)

Kept(d) == Job(d)' = Job(d) /\ (HasJob(d)' <=> HasJob(d))

\* A thread that takes its commit from the queue.
LEMMA DequeueKeeps ==
  ASSUME TypeOK, Records, Threads, NEW d \in Display, Dequeue(d)
  PROVE  /\ HasJob(d) /\ current[d] = None /\ current'[d] = Job(d) /\ Job(d) = Head(queue[d])
         /\ Records' /\ Threads' /\ \A c \in Display : Kept(c)
         /\ \A c \in Display : Len(queue[c])' <= 1
<1> DEFINE k == Head(queue[d])
<1>1. queue[d] # <<>> /\ work[d] = "idle" /\ current[d] = None
  BY DEF Dequeue, Step, Threads
<1>2. HasJob(d) /\ Job(d) = k /\ k \in CommitRec /\ k # None /\ Tail(queue[d]) = <<>>
  BY <1>1, JobIs, CommitFields DEF Job
<1>3. /\ current' = [current EXCEPT ![d] = k] /\ queue' = [queue EXCEPT ![d] = <<>>]
      /\ work' = [work EXCEPT ![d] = IF Enabled(k) = {} THEN "commit" ELSE "setup"]
      /\ UNCHANGED <<call, commit>>
  BY <1>2 DEF Dequeue, Step, callers
<1>4. Records'
  <2>1. <<>> \in Seq(CommitRec)
    OBVIOUS
  <2> HIDE DEF k
  <2> QED
    BY <1>2, <1>3, <2>1 DEF Records
<1>5. \A c \in Display : Job(c)' = Job(c)
  <2> HIDE DEF k
  <2> QED
    BY <1>1, <1>2, <1>3 DEF Job, Records
<1>6. \A c \in Display : Kept(c)
  BY <1>5 DEF Kept, HasJob
<1>7. Threads'
  <2> SUFFICES ASSUME NEW c \in Display
               PROVE  /\ work'[c] = "idle" <=> current'[c] = None
                      /\ current'[c] # None => queue'[c] = <<>>
                      /\ HasJob(c)' => c \in Job(c)'.crtcs
    BY DEF Threads
  <2>1. HasJob(c)' => c \in Job(c)'.crtcs
    BY <1>6 DEF Kept, Threads
  <2> HIDE DEF k
  <2>2. CASE c = d
    BY <1>2, <1>3, <2>1, <2>2 DEF TypeOK, Records
  <2>3. CASE c # d
    BY <1>3, <2>1, <2>3 DEF TypeOK, Records, Threads
  <2> QED
    BY <2>2, <2>3
<1>8. \A c \in Display : Len(queue[c])' <= 1
  <2> HIDE DEF k
  <2> QED
    BY <1>3 DEF TypeOK, Records
<1> QED
  BY <1>1, <1>2, <1>3, <1>4, <1>6, <1>7, <1>8 DEF Records

\* A thread that goes on with its commit.
LEMMA WorkKeeps ==
  ASSUME TypeOK, Records, Threads, NEW d \in Display,
         FirstGetHw(d) \/ NextGetHw(d) \/ LoseList(d) \/ CommitPlanes(d)
  PROVE  /\ HasJob(d) /\ Job(d) = current[d]
         /\ Records' /\ Threads' /\ \A c \in Display : Kept(c)
         /\ UNCHANGED queue
<1>1. /\ UNCHANGED <<call, commit, queue, current>> /\ work[d] # "idle"
      /\ work' = [work EXCEPT ![d] = work'[d]] /\ work'[d] # "idle"
  BY DEF FirstGetHw, NextGetHw, LoseList, CommitPlanes, Step, callers, TypeOK
<1>2. HasJob(d) /\ Job(d) = current[d]
  BY <1>1 DEF Threads, HasJob, Job
<1>3. \A c \in Display : Kept(c)
  BY <1>1 DEF Kept, HasJob, Job
<1>4. Records'
  BY <1>1 DEF Records
<1>5. Threads'
  <2> SUFFICES ASSUME NEW c \in Display
               PROVE  /\ work'[c] = "idle" <=> current'[c] = None
                      /\ current'[c] # None => queue'[c] = <<>>
                      /\ HasJob(c)' => c \in Job(c)'.crtcs
    BY DEF Threads
  <2>1. HasJob(c)' => c \in Job(c)'.crtcs
    BY <1>3 DEF Kept, Threads
  <2> QED
    BY <1>1, <2>1 DEF TypeOK, Threads
<1> QED
  BY <1>1, <1>2, <1>3, <1>4, <1>5

\* The end of a commit.
LEMMA EndJobs ==
  ASSUME TypeOK, Records, Threads, NEW d \in Display, EndAtomic(d)
  PROVE  /\ HasJob(d) /\ Job(d) = current[d] /\ ~HasJob(d)'
         /\ Records' /\ Threads' /\ \A c \in Display \ {d} : Kept(c)
         /\ UNCHANGED queue
<1>1. /\ UNCHANGED <<call, commit, queue>> /\ work[d] = "end"
      /\ work' = [work EXCEPT ![d] = "idle"] /\ current' = [current EXCEPT ![d] = None]
  BY DEF EndAtomic, Step, callers
<1>2. HasJob(d) /\ Job(d) = current[d] /\ queue[d] = <<>>
  BY <1>1 DEF Threads, HasJob, Job
<1>3. \A c \in Display \ {d} : Kept(c)
  BY <1>1 DEF Kept, HasJob, Job, Records
<1>4. ~HasJob(d)'
  BY <1>1, <1>2 DEF HasJob, Job, Records
<1>5. Records'
  BY <1>1 DEF Records
<1>6. Threads'
  <2> SUFFICES ASSUME NEW c \in Display
               PROVE  /\ work'[c] = "idle" <=> current'[c] = None
                      /\ current'[c] # None => queue'[c] = <<>>
                      /\ HasJob(c)' => c \in Job(c)'.crtcs
    BY DEF Threads
  <2>1. HasJob(c)' => c \in Job(c)'.crtcs
    BY <1>3, <1>4 DEF Kept, Threads
  <2> QED
    BY <1>1, <2>1 DEF TypeOK, Threads, Records
<1> QED
  BY <1>1, <1>2, <1>3, <1>4, <1>5, <1>6

\* A commit that is swapped in becomes the job of the thread of one of its
\* displays, which has none.
LEMMA SwapJobs ==
  ASSUME TypeOK, Records, Threads, Control, NEW t \in Caller, SwapAndDispatch(t)
  PROVE  /\ \E d \in commit[t].crtcs :
              /\ d \in Display /\ ~HasJob(d) /\ HasJob(d)' /\ Job(d)' = commit[t]
              /\ work[d] = "idle" /\ \A c \in Display \ {d} : Kept(c)
         /\ Records' /\ Threads'
         /\ \A c \in Display : Len(queue[c])' <= 1
<1>0. PICK k : k = commit[t]
  OBVIOUS
<1>1. Marked(t) /\ Prepared(t) /\ k \in CommitRec
  BY <1>0 DEF SwapAndDispatch, Marked, Prepared, Records
<1>2. WellFormed(k)
  BY <1>0, <1>1 DEF Control, Commits
<1>3. PICK d \in Display : d \in k.crtcs /\ d = ThreadOf(k)
  BY <1>1, <1>2, CommitFields, ThreadOfIn DEF WellFormed
<1>4. ~HasJob(d)
  BY <1>0, <1>1, <1>3, MarkedFree DEF Control, Threads
<1>5. queue[d] = <<>> /\ current[d] = None /\ work[d] = "idle"
  BY <1>3, <1>4, JobIs DEF Threads
<1>6. /\ queue' = [queue EXCEPT ![d] = <<k>>] /\ UNCHANGED <<work, current>>
      /\ call' = [call EXCEPT ![t] = IF k.nonblock THEN "idle" ELSE "flush"]
      /\ commit' = [commit EXCEPT ![t] = IF k.nonblock THEN None ELSE k]
  <2>1. queue' = [queue EXCEPT ![d] = Append(@, k)]
    BY <1>0, <1>3 DEF SwapAndDispatch
  <2>2. Append(queue[d], k) = <<k>>
    BY <1>5
  <2> QED
    BY <1>0, <2>1, <2>2 DEF SwapAndDispatch
<1>7. queue'[d] = <<k>> /\ \A c \in Display \ {d} : queue'[c] = queue[c]
  BY <1>3, <1>6 DEF Records
<1>8. Job(d)' = k /\ HasJob(d)'
  BY <1>1, <1>5, <1>6, <1>7, CommitFields DEF Job, HasJob
<1>9. \A c \in Display \ {d} : Kept(c)
  BY <1>6, <1>7 DEF Kept, HasJob, Job
<1>10. Records'
  <2>1. <<k>> \in Seq(CommitRec)
    BY <1>1
  <2>2. queue' \in [Display -> Seq(CommitRec)]
    BY <1>6, <2>1 DEF Records
  <2>3. commit' \in [Caller -> CommitRec \cup {None}]
    BY <1>1, <1>6 DEF Records
  <2>4. \A o \in Caller : call'[o] # "idle" => commit'[o] \in CommitRec
    BY <1>1, <1>6 DEF Records, TypeOK
  <2> QED
    BY <1>6, <2>2, <2>3, <2>4 DEF Records
<1>11. Threads'
  <2> SUFFICES ASSUME NEW c \in Display
               PROVE  /\ work'[c] = "idle" <=> current'[c] = None
                      /\ current'[c] # None => queue'[c] = <<>>
                      /\ HasJob(c)' => c \in Job(c)'.crtcs
    BY DEF Threads
  <2>1. HasJob(c)' => c \in Job(c)'.crtcs
    BY <1>3, <1>8, <1>9 DEF Kept, Threads
  <2> QED
    BY <1>5, <1>6, <1>7, <2>1 DEF Threads
<1>12. \A c \in Display : Len(queue[c])' <= 1
  <2> SUFFICES ASSUME NEW c \in Display PROVE Len(queue'[c]) <= 1
    OBVIOUS
  <2>1. CASE c = d
    <3>1. queue'[c] = <<k>>
      BY <1>7, <2>1
    <3> QED
      BY <3>1
  <2>2. CASE c # d
    <3>1. queue'[c] = queue[c]
      BY <1>7, <2>2
    <3>2. Len(queue[c]) <= 1
      BY DEF TypeOK
    <3> QED
      BY <3>1, <3>2
  <2> QED
    BY <2>1, <2>2
<1> QED
  BY <1>0, <1>3, <1>4, <1>5, <1>8, <1>9, <1>10, <1>11, <1>12

\* What it changes of the committed state: the blocks and planes it has
\* marked, and those go between its displays.
LEMMA SwapChanges ==
  ASSUME TypeOK, Records, Control, NEW t \in Caller, SwapAndDispatch(t)
  PROVE  /\ rsvp' \in State
         /\ \A b \in Blk : rsvp'[b] # rsvp[b] =>
              /\ b \in commit[t].mask
              /\ {rsvp[b], rsvp'[b]} \subseteq DOMAIN commit[t].modes \cup {None}
         /\ \A p \in Plane : stage'[p] # stage[p] =>
              /\ p \in DOMAIN commit[t].moves
              /\ {stage[p], stage'[p]} \subseteq commit[t].crtcs \cup {None}
<1> DEFINE k == commit[t]
<1>1. Prepared(t) /\ k \in CommitRec
  BY DEF SwapAndDispatch, Prepared, Records
<1>2. WellFormed(k) /\ Placed(k) /\ Current(k)
  BY <1>1 DEF Control, Commits
<1>3. ASSUME NEW p \in Plane, stage'[p] # stage[p]
      PROVE  p \in DOMAIN k.moves /\ {stage[p], stage'[p]} \subseteq k.crtcs \cup {None}
  BY <1>2, <1>3 DEF SwapAndDispatch, WellFormed, Placed
<1>4. CASE DOMAIN k.modes = {}
  BY <1>3, <1>4 DEF SwapAndDispatch, TypeOK
<1>5. CASE DOMAIN k.modes # {}
  <2>1. rsvp' = k.rm /\ Checked(rsvp, k.rm, k.modes)
    BY <1>2, <1>5 DEF SwapAndDispatch, Current
  <2>2. ASSUME NEW b \in Blk, k.rm[b] # rsvp[b]
        PROVE  b \in k.mask /\ {rsvp[b], k.rm[b]} \subseteq DOMAIN k.modes \cup {None}
    BY <1>2, <1>5, <2>1, <2>2 DEF Checked, Current
  <2> QED
    BY <1>1, <1>3, <2>1, <2>2, CommitFields
<1> QED
  BY <1>4, <1>5

-----------------------------------------------------------------------------
(* The atomic check.                                                       *)

\* What the check makes of legal modes and moves is a commit that belongs to
\* the committed state.
LEMMA NewCommitFits ==
  ASSUME TypeOK, commits < MaxCommits, NEW modes \in ModeSets, NEW moves \in Moves,
         Legal(modes, moves), RmCheck(modes) # None, NEW nonblock \in BOOLEAN,
         NEW k, k = NewCommit(modes, moves, RmCheck(modes), nonblock)
  PROVE  /\ k \in CommitRec /\ k.id = commits + 1
         /\ k.modes = modes /\ k.rm = RmCheck(modes)
         /\ WellFormed(k) /\ Placed(k) /\ Current(k)
<1> DEFINE rm == RmCheck(modes)
           crtcs == DOMAIN modes
                      \cup {moves[p] : p \in DOMAIN moves} \cup {stage[p] : p \in DOMAIN moves}
           blocks == ResourceMask(rsvp, rm, DOMAIN modes)
<1>1. /\ DOMAIN modes \subseteq Display /\ DOMAIN moves \subseteq Plane
      /\ \A p \in DOMAIN moves : moves[p] \in Display \cup {None}
      /\ \A d \in DOMAIN modes : modes[d] \in Topologies \cup {None}
  BY DEF ModeSets, Moves, PartialFunctions
<1>2. Checked(rsvp, rm, modes)
  BY <1>1, RmCheckChecked DEF TypeOK
<1>3. crtcs \ {None} \subseteq Display
  BY <1>1 DEF TypeOK
<1>4. crtcs \ {None} # {}
  <2>1. DOMAIN modes \cup DOMAIN moves # {}
    BY FS_EmptySet DEF Legal
  <2>2. \A p \in DOMAIN moves : moves[p] # None \/ stage[p] # None
    BY DEF Legal
  <2>3. CASE DOMAIN modes # {}
    BY <1>1, <2>3, RmAssumption
  <2>4. CASE DOMAIN moves # {}
    BY <2>2, <2>4
  <2> QED
    BY <2>1, <2>3, <2>4
<1>5. /\ DOMAIN modes \subseteq crtcs \ {None}
      /\ \A p \in DOMAIN moves : {moves[p], stage[p]} \subseteq (crtcs \ {None}) \cup {None}
  BY <1>1, RmAssumption
<1> DEFINE ds == crtcs \ {None}
           used == {b \in Blk : rsvp[b] \in ds \/ rm[b] \in ds}
<1>6. /\ k.id = commits + 1 /\ k.crtcs = ds /\ k.modes = modes /\ k.moves = moves
      /\ k.rm = rm /\ k.nonblock = nonblock
      /\ k.mask = (ds \cup DOMAIN moves) \cup blocks
      /\ k.uses = (ds \cup DOMAIN moves) \cup used
  BY DEF NewCommit
<1>7. /\ blocks \subseteq Blk
      /\ \A b \in Blk : b \in blocks <=> rsvp[b] \in DOMAIN modes \/ rm[b] \in DOMAIN modes
  BY DEF ResourceMask
<1>8. \A b \in Blk : b \in used <=> rsvp[b] \in ds \/ rm[b] \in ds
  OBVIOUS
<1>9. used \subseteq Blk
  OBVIOUS
<1>10. k \in CommitRec
  <2>1. commits + 1 \in CommitId
    BY AtomicAssumption DEF TypeOK, CommitId
  <2>2. k.mask \subseteq Resource /\ k.uses \subseteq Resource
    <3> HIDE DEF used, blocks, ds
    <3> QED
      BY <1>1, <1>3, <1>6, <1>7, <1>9 DEF Resource, ds
  <2>3. rm \in State
    BY <1>2 DEF Checked
  <2>4. k = [id |-> k.id, crtcs |-> k.crtcs, modes |-> k.modes, moves |-> k.moves, rm |-> k.rm,
             nonblock |-> k.nonblock, mask |-> k.mask, uses |-> k.uses]
    BY DEF NewCommit
  <2> HIDE DEF rm, used, blocks, ds
  <2> QED
    BY <1>3, <1>6, <2>1, <2>2, <2>3, <2>4 DEF CommitRec, ds
<1> HIDE DEF rm, used, blocks
<1>11. WellFormed(k)
  <2>1. ds # {} /\ ds \subseteq k.mask \cap k.uses /\ DOMAIN modes \subseteq ds
    BY <1>4, <1>5, <1>6
  <2>2. \A p \in DOMAIN moves : moves[p] \in ds \cup {None}
    BY <1>5
  <2>3. \A b \in Blk : rm[b] \in DOMAIN modes => b \in k.mask /\ modes[rm[b]] # None
    BY <1>2, <1>6, <1>7 DEF Checked
  <2>4. DOMAIN modes = {} => k.mask \cap Blk = {}
    <3>1. (ds \cup DOMAIN moves) \cap Blk = {}
      BY <1>1, <1>3, AtomicAssumption
    <3> HIDE DEF ds
    <3> QED
      BY <1>6, <1>7, <3>1
  <2>5. k.uses \ k.mask \subseteq Blk
    <3> HIDE DEF ds
    <3> QED
      BY <1>6, <1>9
  <2>6. DOMAIN moves \subseteq k.mask
    BY <1>6
  <2> HIDE DEF ds
  <2> QED
    BY <1>6, <2>1, <2>2, <2>3, <2>4, <2>5, <2>6 DEF WellFormed
<1>12. Placed(k)
  <2>1. \A p \in DOMAIN moves : stage[p] \in ds \cup {None}
    BY <1>5
  <2>2. ASSUME NEW b \in Blk, b \in k.uses PROVE b \in k.mask \/ rsvp[b] \in ds
    <3>1. b \in used
      BY <1>1, <1>3, <1>6, <2>2, AtomicAssumption
    <3>2. CASE rsvp[b] \notin ds
      <4>1. rm[b] \in ds
        BY <1>8, <3>1, <3>2
      <4>2. rm[b] \in DOMAIN modes
        BY <1>2, <3>2, <4>1 DEF Checked
      <4> QED
        BY <1>6, <1>7, <4>2
    <3> QED
      BY <3>2
  <2> HIDE DEF ds
  <2> QED
    BY <1>6, <2>1, <2>2 DEF Placed
<1>13. Current(k)
  <2>1. \A b \in Blk : b \in k.mask <=> b \in blocks
    BY <1>1, <1>3, <1>6, AtomicAssumption
  <2> QED
    BY <1>2, <1>6, <1>7, <2>1 DEF Current
<1>14. k.modes = modes /\ k.rm = RmCheck(modes)
  BY <1>6 DEF rm
<1> QED
  BY <1>6, <1>10, <1>11, <1>12, <1>13, <1>14

-----------------------------------------------------------------------------
(* The steps and the parts of the invariant they touch.                    *)

\* What a step of a caller that does not swap leaves alone.
CallerOnly == UNCHANGED <<swstate, threads, hardware>>

LEMMA CallerOnlyKeeps ==
  ASSUME Threads, CallerOnly
  PROVE  Threads' /\ \A d \in Display : Kept(d)
BY DEF CallerOnly, threads, Threads, Kept, HasJob, Job

LEMMA CheckFits ==
  ASSUME TypeOK, Records, NEW t \in Caller, Check(t)
  PROVE  /\ commit'[t] \in CommitRec /\ commit'[t].id = commits + 1
         /\ commit'[t].modes \in ModeSets /\ commit'[t].rm = RmCheck(commit'[t].modes)
         /\ RmCheck(commit'[t].modes) # None
         /\ WellFormed(commit'[t]) /\ Placed(commit'[t]) /\ Current(commit'[t])
         /\ commit' = [commit EXCEPT ![t] = commit'[t]]
         /\ \A o \in Caller : Held(o) \cap Locks(commit'[t]) = {}
         /\ call[t] = "idle" /\ call' = [call EXCEPT ![t] = "start"] /\ commits' = commits + 1
         /\ commits' \in 0 .. MaxCommits /\ CallerOnly /\ UNCHANGED pending
<1>1. PICK modes \in ModeSets, moves \in Moves, nonblock \in BOOLEAN :
         /\ Legal(modes, moves) /\ RmCheck(modes) # None
         /\ commit' = [commit EXCEPT ![t] = NewCommit(modes, moves, RmCheck(modes), nonblock)]
         /\ \A o \in Caller : Held(o) \cap Locks(commit'[t]) = {}
  BY DEF Check
<1>2. PICK k : k = NewCommit(modes, moves, RmCheck(modes), nonblock)
  OBVIOUS
<1>3. commit'[t] = k
  BY <1>1, <1>2 DEF Records
<1>4. /\ k \in CommitRec /\ k.id = commits + 1
      /\ k.modes = modes /\ k.rm = RmCheck(modes)
      /\ WellFormed(k) /\ Placed(k) /\ Current(k)
  BY <1>1, <1>2, NewCommitFits DEF Check
<1>5. commits' \in 0 .. MaxCommits
  BY AtomicAssumption DEF Check, TypeOK
<1> QED
  BY <1>1, <1>2, <1>3, <1>4, <1>5 DEF Check, CallerOnly, Records

\* Every step keeps the types, the records and the threads.
LEMMA TypeStep ==
  ASSUME TypeOK, Records, Threads, Control, [Next]_vars
  PROVE  TypeOK' /\ Records' /\ Threads'
<1>1. ASSUME NEW t \in Caller, Check(t) PROVE TypeOK' /\ Records' /\ Threads'
  <2>1. Threads'
    BY <1>1, CheckFits, CallerOnlyKeeps
  <2>2. TypeOK'
    BY <1>1, CheckFits DEF TypeOK, CallerOnly, swstate, threads, hardware
  <2>3. Records'
    BY <1>1, CheckFits DEF TypeOK, Records, CallerOnly, threads
  <2> QED
    BY <2>1, <2>2, <2>3
<1>2. ASSUME NEW t \in Caller, StartAtomic(t) PROVE TypeOK' /\ Records' /\ Threads'
  <2>1. Threads'
    BY <1>2, CallerOnlyKeeps DEF StartAtomic, CallerOnly
  <2>2. commit[t].mask \subseteq Resource
    BY <1>2, CommitFields DEF StartAtomic, Records
  <2>3. TypeOK'
    BY <1>2, <2>2 DEF StartAtomic, TypeOK, swstate, threads, hardware
  <2>4. Records'
    BY <1>2 DEF StartAtomic, TypeOK, Records, threads
  <2> QED
    BY <2>1, <2>3, <2>4
<1>3. ASSUME NEW t \in Caller, Interrupted(t) \/ Flushed(t) PROVE TypeOK' /\ Records' /\ Threads'
  <2>1. Threads'
    BY <1>3, CallerOnlyKeeps DEF Interrupted, Flushed, CallerOnly
  <2>2. TypeOK'
    BY <1>3 DEF Interrupted, Flushed, TypeOK, swstate, threads, hardware
  <2>3. Records'
    BY <1>3 DEF Interrupted, Flushed, TypeOK, Records, threads
  <2> QED
    BY <2>1, <2>2, <2>3
<1>4. ASSUME NEW t \in Caller, SwapAndDispatch(t) PROVE TypeOK' /\ Records' /\ Threads'
  <2>1. Records' /\ Threads' /\ \A c \in Display : Len(queue[c])' <= 1
    BY <1>4, SwapJobs
  <2>2. commit[t] \in CommitRec
    BY <1>4 DEF SwapAndDispatch, Records
  <2>3. rsvp' \in State
    BY <1>4, SwapChanges
  <2>4. topology' \in [Display -> Topologies \cup {None}] /\ stage' \in [Plane -> Display \cup {None}]
    BY <1>4, <2>2, CommitFields DEF SwapAndDispatch, TypeOK
  <2>5. version' \in Nat /\ call' \in [Caller -> {"idle", "start", "swap", "flush"}]
    BY <1>4 DEF SwapAndDispatch, TypeOK
  <2> QED
    BY <1>4, <2>1, <2>3, <2>4, <2>5 DEF SwapAndDispatch, TypeOK, hardware
<1>5. ASSUME NEW d \in Display, Dequeue(d) PROVE TypeOK' /\ Records' /\ Threads'
  <2>1. Records' /\ Threads' /\ \A c \in Display : Len(queue[c])' <= 1
    BY <1>5, DequeueKeeps
  <2>2. mixers' \in [Display -> SUBSET Blk] /\ pipes' \in [Display -> SUBSET Plane]
    BY <1>5 DEF Dequeue, DisableOutputs, TypeOK
  <2>3. work' \in [Display -> {"idle", "setup", "iterate", "commit", "end", "lost"}]
    BY <1>5 DEF Dequeue, Step, TypeOK
  <2> QED
    BY <1>5, <2>1, <2>2, <2>3 DEF Dequeue, TypeOK, swstate, callers
<1>6. ASSUME NEW d \in Display, FirstGetHw(d) \/ LoseList(d) PROVE TypeOK' /\ Records' /\ Threads'
  <2>1. Records' /\ Threads' /\ UNCHANGED queue
    BY <1>6, WorkKeeps
  <2> QED
    BY <1>6, <2>1 DEF FirstGetHw, LoseList, Step, TypeOK, swstate, callers, hardware
<1>7. ASSUME NEW d \in Display, NextGetHw(d) PROVE TypeOK' /\ Records' /\ Threads'
  <2>1. Records' /\ Threads' /\ UNCHANGED queue
    BY <1>7, WorkKeeps
  <2> QED
    BY <1>7, <2>1 DEF NextGetHw, BlocksOf, Step, TypeOK, swstate, callers
<1>8. ASSUME NEW d \in Display, CommitPlanes(d) PROVE TypeOK' /\ Records' /\ Threads'
  <2>1. Records' /\ Threads' /\ UNCHANGED queue
    BY <1>8, WorkKeeps
  <2> QED
    BY <1>8, <2>1 DEF CommitPlanes, Step, TypeOK, swstate, callers
<1>9. ASSUME NEW d \in Display, EndAtomic(d) PROVE TypeOK' /\ Records' /\ Threads'
  <2>1. Records' /\ Threads' /\ UNCHANGED queue
    BY <1>9, EndJobs
  <2> QED
    BY <1>9, <2>1 DEF EndAtomic, Step, TypeOK, swstate, callers, hardware
<1>10. CASE UNCHANGED vars
  BY <1>10 DEF vars, TypeOK, Records, Threads, HasJob, Job
<1> QED
  BY <1>1, <1>2, <1>3, <1>4, <1>5, <1>6, <1>7, <1>8, <1>9, <1>10
  DEF Next, CallerStep, ThreadStep

\* The steps of the display threads: jobs stay or end, marks of the others
\* stay.
LEMMA ThreadControl ==
  ASSUME Control, UNCHANGED <<call, commit, commits, rsvp, stage>>,
         \A d \in Display : Kept(d) \/ ~HasJob(d)',
         \A t \in Caller : Marked(t) => commit[t].mask \subseteq pending',
         \A d \in Display : HasJob(d) /\ HasJob(d)' => Job(d).mask \subseteq pending'
  PROVE  Control'
<1>1. \A d \in Display : HasJob(d)' => HasJob(d) /\ Job(d)' = Job(d)
  BY DEF Kept
<1>2. \A t \in Caller : (Prepared(t)' <=> Prepared(t)) /\ (Marked(t)' <=> Marked(t))
  BY DEF Prepared, Marked
<1>3. Numbered'
  BY <1>1, <1>2 DEF Control, Numbered
<1>4. Apart'
  BY <1>1, <1>2 DEF Control, Apart
<1>5. Locked'
  BY DEF Control, Locked, Held, Locks
<1>6. Commits'
  BY <1>1, <1>2 DEF Control, Commits, Placed, Current, Swapped
<1> QED
  BY <1>3, <1>4, <1>5, <1>6 DEF Control

LEMMA CheckControl ==
  ASSUME TypeOK, Records, Threads, Control, NEW t \in Caller, Check(t)
  PROVE  Control'
<1>1. /\ commit'[t] \in CommitRec /\ commit'[t].id = commits + 1
      /\ WellFormed(commit'[t]) /\ Placed(commit'[t]) /\ Current(commit'[t])
      /\ commit' = [commit EXCEPT ![t] = commit'[t]]
      /\ \A o \in Caller : Held(o) \cap Locks(commit'[t]) = {}
      /\ call[t] = "idle" /\ call' = [call EXCEPT ![t] = "start"] /\ commits' = commits + 1
      /\ CallerOnly /\ UNCHANGED pending
  BY CheckFits
<1>2. \A d \in Display : Job(d)' = Job(d) /\ (HasJob(d)' <=> HasJob(d))
  BY <1>1, CallerOnlyKeeps DEF Kept
<1>3. \A o \in Caller \ {t} : /\ call'[o] = call[o] /\ commit'[o] = commit[o]
                              /\ (Prepared(o)' <=> Prepared(o)) /\ (Marked(o)' <=> Marked(o))
  BY <1>1 DEF TypeOK, Records, Prepared, Marked
<1>4. call'[t] = "start" /\ ~Marked(t)' /\ Prepared(t)'
  BY <1>1 DEF TypeOK, Marked, Prepared
<1>5. Numbered'
  <2>1. \A o \in Caller \ {t} : call[o] # "idle" => commit[o].id \in Nat /\ commit[o].id <= commits
    BY CommitFields DEF Records, CommitId, Control, Numbered
  <2>2. \A d \in Display : HasJob(d) => Job(d).id \in Nat /\ Job(d).id <= commits
    BY JobIs, CommitFields DEF CommitId, Control, Numbered
  <2>3. \A o \in Caller \ {t} : Prepared(o) => call[o] # "idle"
    BY DEF Prepared
  <2>4. commits \in Nat
    BY DEF TypeOK
  <2>5. \A o \in Caller : call'[o] # "idle" => commit'[o].id <= commits'
    BY <1>1, <1>3, <2>1, <2>4
  <2>6. \A d \in Display : HasJob(d)' => Job(d)'.id <= commits'
    BY <1>1, <1>2, <2>2, <2>4
  <2>7. \A o, u \in Caller : Prepared(o)' /\ Prepared(u)' /\ o # u => commit'[o].id # commit'[u].id
    BY <1>1, <1>3, <1>4, <2>1, <2>3, <2>4 DEF Control, Numbered
  <2>8. \A o \in Caller, d \in Display : Prepared(o)' /\ HasJob(d)' => commit'[o].id # Job(d)'.id
    BY <1>1, <1>2, <1>3, <1>4, <2>2, <2>4 DEF Control, Numbered
  <2>9. \A c, d \in Display : HasJob(c)' /\ HasJob(d)' /\ c # d => Job(c)'.id # Job(d)'.id
    BY <1>2 DEF Control, Numbered
  <2> QED
    BY <2>5, <2>6, <2>7, <2>8, <2>9 DEF Numbered
<1>6. Apart'
  BY <1>1, <1>2, <1>3, <1>4 DEF Control, Apart
<1>7. Locked'
  <2>1. \A o \in Caller \ {t} : Held(o)' = Held(o)
    BY <1>3 DEF Held, Locks
  <2>2. Held(t)' = Locks(commit'[t])
    BY <1>4 DEF Held, Locks
  <2> QED
    BY <1>1, <2>1, <2>2 DEF Control, Locked
<1>8. Commits'
  <2>1. UNCHANGED <<rsvp, stage>>
    BY <1>1 DEF CallerOnly, swstate
  <2>2. \A o \in Caller : Prepared(o)' =>
          WellFormed(commit[o])' /\ Placed(commit[o])' /\ Current(commit[o])'
    BY <1>1, <1>3, <2>1 DEF Control, Commits, WellFormed, Placed, Current
  <2>3. \A d \in Display : HasJob(d)' =>
          WellFormed(Job(d))' /\ Placed(Job(d))' /\ Swapped(Job(d))'
    BY <1>2, <2>1 DEF Control, Commits, WellFormed, Placed, Swapped
  <2> QED
    BY <2>2, <2>3 DEF Commits
<1> QED
  BY <1>5, <1>6, <1>7, <1>8 DEF Control

LEMMA StartControl ==
  ASSUME TypeOK, Records, Threads, Control, NEW t \in Caller, StartAtomic(t)
  PROVE  Control'
<1>1. /\ UNCHANGED <<rsvp, stage, commits, commit>> /\ CallerOnly
      /\ call[t] = "start" /\ call' = [call EXCEPT ![t] = "swap"]
      /\ pending' = pending \cup commit[t].mask /\ pending \cap commit[t].mask = {}
  BY DEF StartAtomic, CallerOnly, swstate
<1>2. \A d \in Display : Job(d)' = Job(d) /\ (HasJob(d)' <=> HasJob(d))
  BY <1>1, CallerOnlyKeeps DEF Kept
<1>3. /\ \A o \in Caller : (Prepared(o)' <=> Prepared(o)) /\ (Marked(o)' <=> Marked(o) \/ o = t)
      /\ \A o \in Caller : call'[o] = "idle" <=> call[o] = "idle"
  BY <1>1 DEF TypeOK, Prepared, Marked
<1>4. Numbered'
  BY <1>1, <1>2, <1>3 DEF Control, Numbered
<1>5. Apart'
  <2>1. \A o \in Caller : Marked(o) => commit[o].mask \subseteq pending
    BY DEF Control, Apart
  <2>2. \A d \in Display : HasJob(d) => Job(d).mask \subseteq pending
    BY DEF Control, Apart
  <2>3. \A o, u \in Caller : Marked(o)' /\ Marked(u)' /\ o # u
                             => commit[o].mask \cap commit[u].mask = {}
    BY <1>1, <1>3, <2>1 DEF Control, Apart
  <2>4. \A o \in Caller, d \in Display : Marked(o)' /\ HasJob(d)
                                         => commit[o].mask \cap Job(d).mask = {}
    BY <1>1, <1>3, <2>2 DEF Control, Apart
  <2> QED
    BY <1>1, <1>2, <1>3, <2>1, <2>2, <2>3, <2>4 DEF Control, Apart
<1>6. Locked'
  <2>1. \A o \in Caller : Held(o)' = Held(o)
    BY <1>1, <1>3 DEF Held, Locks
  <2> QED
    BY <2>1 DEF Control, Locked
<1>7. Commits'
  BY <1>1, <1>2, <1>3 DEF Control, Commits, Placed, Current, Swapped
<1> QED
  BY <1>4, <1>5, <1>6, <1>7 DEF Control

LEMMA ReturnControl ==
  ASSUME TypeOK, Records, Threads, Control, NEW t \in Caller, Interrupted(t) \/ Flushed(t)
  PROVE  Control'
<1>1. /\ UNCHANGED <<rsvp, stage, commits, pending>> /\ CallerOnly
      /\ call' = [call EXCEPT ![t] = "idle"] /\ commit' = [commit EXCEPT ![t] = None]
  BY DEF Interrupted, Flushed, CallerOnly, swstate
<1>2. \A d \in Display : Job(d)' = Job(d) /\ (HasJob(d)' <=> HasJob(d))
  BY <1>1, CallerOnlyKeeps DEF Kept
<1>3. call'[t] = "idle" /\ ~Marked(t)' /\ ~Prepared(t)'
  BY <1>1 DEF TypeOK, Marked, Prepared
<1>4. \A o \in Caller \ {t} : /\ call'[o] = call[o] /\ commit'[o] = commit[o]
                              /\ (Prepared(o)' <=> Prepared(o)) /\ (Marked(o)' <=> Marked(o))
  BY <1>1 DEF TypeOK, Records, Prepared, Marked
<1>5. Numbered'
  BY <1>1, <1>2, <1>3, <1>4 DEF Control, Numbered
<1>6. Apart'
  BY <1>1, <1>2, <1>3, <1>4 DEF Control, Apart
<1>7. Locked'
  <2>1. \A o \in Caller \ {t} : Held(o)' = Held(o)
    BY <1>4 DEF Held, Locks
  <2>2. Held(t)' = {}
    BY <1>3 DEF Held
  <2> QED
    BY <2>1, <2>2 DEF Control, Locked
<1>8. Commits'
  <2>1. \A o \in Caller : Prepared(o)' =>
          WellFormed(commit[o])' /\ Placed(commit[o])' /\ Current(commit[o])'
    BY <1>1, <1>3, <1>4 DEF Control, Commits, WellFormed, Placed, Current
  <2>2. \A d \in Display : HasJob(d)' =>
          WellFormed(Job(d))' /\ Placed(Job(d))' /\ Swapped(Job(d))'
    BY <1>1, <1>2 DEF Control, Commits, WellFormed, Placed, Swapped
  <2> QED
    BY <2>1, <2>2 DEF Commits
<1> QED
  BY <1>5, <1>6, <1>7, <1>8 DEF Control

\* A commit that is swapped in changes nothing that another one, prepared
\* under its own locks or at work under its own mask, relies on.
LEMMA SwapControl ==
  ASSUME TypeOK, Records, Threads, Control, NEW t \in Caller, SwapAndDispatch(t)
  PROVE  Control'
<1>1. PICK k : k = commit[t]
  OBVIOUS
<1>2. /\ Marked(t) /\ Prepared(t) /\ call[t] # "idle" /\ k \in CommitRec
      /\ WellFormed(k) /\ Placed(k) /\ Current(k)
  BY <1>1 DEF SwapAndDispatch, Marked, Prepared, Records, Control, Commits
<1>3. PICK d \in Display :
         /\ d \in k.crtcs /\ ~HasJob(d) /\ HasJob(d)' /\ Job(d)' = k
         /\ \A c \in Display \ {d} : Job(c)' = Job(c) /\ (HasJob(c)' <=> HasJob(c))
  BY <1>1, SwapJobs DEF Kept
<1>4. /\ rsvp' \in State
      /\ \A b \in Blk : rsvp'[b] # rsvp[b] =>
           b \in k.mask /\ {rsvp[b], rsvp'[b]} \subseteq DOMAIN k.modes \cup {None}
      /\ \A p \in Plane : stage'[p] # stage[p] =>
           p \in DOMAIN k.moves /\ {stage[p], stage'[p]} \subseteq k.crtcs \cup {None}
  BY <1>1, SwapChanges
<1>5. ~Prepared(t)' /\ ~Marked(t)' /\ (call'[t] # "idle" => commit'[t] = k)
  BY <1>1 DEF SwapAndDispatch, TypeOK, Records, Prepared, Marked
<1>6. \A o \in Caller \ {t} : /\ call'[o] = call[o] /\ commit'[o] = commit[o]
                              /\ (Prepared(o)' <=> Prepared(o)) /\ (Marked(o)' <=> Marked(o))
  BY DEF SwapAndDispatch, TypeOK, Records, Prepared, Marked
<1>7. UNCHANGED <<commits, pending>>
  BY DEF SwapAndDispatch
<1>8. Numbered'
  <2>1. k.id <= commits /\ \A o \in Caller \ {t} : Prepared(o) => commit[o].id # k.id
    BY <1>1, <1>2 DEF Control, Numbered
  <2>2. \A c \in Display : HasJob(c) => Job(c).id # k.id
    BY <1>1, <1>2 DEF Control, Numbered
  <2>3. \A o \in Caller : call'[o] # "idle" => commit'[o].id <= commits'
    BY <1>5, <1>6, <1>7, <2>1 DEF Control, Numbered
  <2>4. \A c \in Display : HasJob(c)' => Job(c)'.id <= commits'
    BY <1>3, <1>7, <2>1 DEF Control, Numbered
  <2>5. \A o, u \in Caller : Prepared(o)' /\ Prepared(u)' /\ o # u => commit'[o].id # commit'[u].id
    BY <1>5, <1>6 DEF Control, Numbered
  <2>6. \A o \in Caller, c \in Display : Prepared(o)' /\ HasJob(c)' => commit'[o].id # Job(c)'.id
    BY <1>3, <1>5, <1>6, <2>1 DEF Control, Numbered
  <2>7. \A c, e \in Display : HasJob(c)' /\ HasJob(e)' /\ c # e => Job(c)'.id # Job(e)'.id
    BY <1>3, <2>2 DEF Control, Numbered
  <2> QED
    BY <2>3, <2>4, <2>5, <2>6, <2>7 DEF Numbered
<1>9. /\ k.mask \subseteq pending
      /\ \A o \in Caller \ {t} : Marked(o) => commit[o].mask \cap k.mask = {}
      /\ \A c \in Display : HasJob(c) => Job(c).mask \cap k.mask = {}
  BY <1>1, <1>2 DEF Control, Apart
<1>10. Apart'
  <2>1. \A o \in Caller : Marked(o)' => commit'[o].mask \subseteq pending'
    BY <1>5, <1>6, <1>7 DEF Control, Apart
  <2>2. \A c \in Display : HasJob(c)' => Job(c)'.mask \subseteq pending'
    BY <1>3, <1>7, <1>9 DEF Control, Apart
  <2>3. \A o, u \in Caller : Marked(o)' /\ Marked(u)' /\ o # u
                             => commit'[o].mask \cap commit'[u].mask = {}
    BY <1>5, <1>6 DEF Control, Apart
  <2>4. \A o \in Caller, c \in Display : Marked(o)' /\ HasJob(c)'
                                         => commit'[o].mask \cap Job(c)'.mask = {}
    BY <1>3, <1>5, <1>6, <1>9 DEF Control, Apart
  <2>5. \A c, e \in Display : HasJob(c)' /\ HasJob(e)' /\ c # e
                              => Job(c)'.mask \cap Job(e)'.mask = {}
    BY <1>3, <1>9 DEF Control, Apart
  <2> QED
    BY <2>1, <2>2, <2>3, <2>4, <2>5 DEF Apart
<1>11. /\ \A o \in Caller \ {t} : Held(o)' = Held(o)
       /\ Held(t)' \subseteq Held(t) /\ Held(t) = Locks(k)
  BY <1>1, <1>2, <1>5, <1>6 DEF Held, Locks
<1>12. Locked'
  BY <1>11 DEF Control, Locked
<1>13. ASSUME NEW o \in Caller \ {t}, Prepared(o)
       PROVE  WellFormed(commit[o]) /\ Placed(commit[o])' /\ Current(commit[o])'
  <2>1. PICK m : m = commit[o]
    OBVIOUS
  <2>2. m \in CommitRec /\ WellFormed(m) /\ Placed(m) /\ Current(m)
    BY <1>13, <2>1 DEF Records, Prepared, Control, Commits
  <2>3. Locks(m) \cap Locks(k) = {}
    BY <1>11, <1>13, <2>1 DEF Held, Prepared, Control, Locked
  <2>4. \A p \in DOMAIN m.moves : stage'[p] = stage[p]
    BY <1>4, <2>2, <2>3, CommitFields DEF Locks
  <2>5. \A b \in Blk : rsvp[b] \in m.crtcs => rsvp'[b] = rsvp[b]
    <3>1. DOMAIN k.modes \subseteq k.crtcs /\ None \notin m.crtcs
      BY <1>2, <2>2, CommitFields, RmAssumption DEF WellFormed
    <3> QED
      BY <1>4, <2>3, <3>1 DEF Locks
  <2>6. Placed(m)'
    BY <2>2, <2>4, <2>5 DEF Placed
  <2>7. Current(m)'
    <3>1. CASE DOMAIN m.modes = {}
      BY <3>1 DEF Current
    <3>2. CASE DOMAIN m.modes # {}
      <4>1. DOMAIN k.modes = {}
        BY <2>3, <3>2 DEF Locks
      <4>2. rsvp' = rsvp
        BY <1>1, <4>1 DEF SwapAndDispatch
      <4> QED
        BY <2>2, <4>2 DEF Current
    <3> QED
      BY <3>1, <3>2
  <2>8. commit'[o] = m
    BY <1>6, <2>1
  <2> QED
    BY <2>1, <2>2, <2>6, <2>7, <2>8 DEF Placed, Current
<1>14. Placed(k)' /\ Swapped(k)'
  <2>1. \A p \in DOMAIN k.moves : stage'[p] \in k.crtcs \cup {None}
    BY <1>1, <1>2, CommitFields DEF SwapAndDispatch, WellFormed
  <2>2. \A b \in k.uses \cap Blk : b \in k.mask \/ rsvp'[b] \in k.crtcs
    BY <1>2, <1>4 DEF Placed
  <2>3. DOMAIN k.modes # {} => rsvp' = k.rm
    BY <1>1 DEF SwapAndDispatch
  <2>4. \A b \in k.mask \cap Blk : rsvp'[b] = k.rm[b] /\ rsvp'[b] \in DOMAIN k.modes \cup {None}
    <3>1. \A b \in k.mask \cap Blk : DOMAIN k.modes # {}
      BY <1>2 DEF WellFormed
    <3> QED
      BY <1>2, <2>3, <3>1 DEF Current, Checked
  <2>5. \A b \in Blk : rsvp'[b] \in DOMAIN k.modes => b \in k.mask
    BY <1>2, <2>3 DEF WellFormed
  <2> QED
    BY <2>1, <2>2, <2>4, <2>5 DEF Placed, Swapped
<1>15. ASSUME NEW c \in Display \ {d}, HasJob(c)
       PROVE  WellFormed(Job(c)) /\ Placed(Job(c))' /\ Swapped(Job(c))'
  <2>1. PICK m : m = Job(c)
    OBVIOUS
  <2>2. m \in CommitRec /\ WellFormed(m) /\ Placed(m) /\ Swapped(m)
    BY <1>15, <2>1, JobIs DEF Control, Commits
  <2>3. m.mask \cap k.mask = {}
    BY <1>9, <1>15, <2>1
  <2>4. m.crtcs \cap k.crtcs = {} /\ DOMAIN k.modes \subseteq k.crtcs /\ DOMAIN m.modes \subseteq m.crtcs
    BY <1>2, <2>2, <2>3 DEF WellFormed
  <2>5. \A p \in DOMAIN m.moves : stage'[p] = stage[p]
    BY <1>2, <1>4, <2>2, <2>3, CommitFields DEF WellFormed
  <2>6. None \notin m.crtcs
    BY <2>2, CommitFields, RmAssumption
  <2>7. \A b \in Blk : rsvp[b] \in m.crtcs \/ rsvp'[b] \in m.crtcs => rsvp'[b] = rsvp[b]
    BY <1>4, <2>4, <2>6
  <2>8. \A b \in Blk : b \in m.mask => rsvp'[b] = rsvp[b]
    BY <1>4, <2>3
  <2>9. Placed(m)'
    BY <2>2, <2>5, <2>7 DEF Placed
  <2>10. Swapped(m)'
    BY <2>2, <2>4, <2>7, <2>8 DEF Swapped
  <2>11. Job(c)' = m
    BY <1>3, <2>1
  <2> QED
    BY <2>1, <2>2, <2>9, <2>10, <2>11 DEF Placed, Swapped
<1>16. Commits'
  <2>1. \A o \in Caller : Prepared(o)' =>
          WellFormed(commit[o])' /\ Placed(commit[o])' /\ Current(commit[o])'
    BY <1>5, <1>6, <1>13 DEF WellFormed
  <2>2. \A c \in Display : HasJob(c)' =>
          WellFormed(Job(c))' /\ Placed(Job(c))' /\ Swapped(Job(c))'
    BY <1>2, <1>3, <1>14, <1>15 DEF WellFormed, Placed, Swapped
  <2> QED
    BY <2>1, <2>2 DEF Commits
<1> QED
  BY <1>8, <1>10, <1>12, <1>16 DEF Control

\* Steps of a caller that does not swap, and stuttering steps.
LEMMA StillHardware ==
  ASSUME Hardware, NoSharing, UNCHANGED <<rsvp, stage, hardware, work>>, \A d \in Display : Kept(d)
  PROVE  NoSharing' /\ Hardware'
<1>1. NoSharing'
  BY DEF NoSharing, hardware
<1>2. Hardware'
  BY DEF Hardware, Progress, Settled, hardware, Kept
<1> QED
  BY <1>1, <1>2

\* A step of one thread leaves the displays of the others alone.
LEMMA Elsewhere ==
  ASSUME TypeOK, Records, Control, Hardware, NEW d \in Display, HasJob(d),
         UNCHANGED <<rsvp, stage>>,
         \A e \in Display \ {d} : Kept(e) /\ work'[e] = work[e],
         \A c \in Display \ Job(d).crtcs : mixers'[c] = mixers[c] /\ pipes'[c] = pipes[c]
  PROVE  /\ \A e \in Display \ {d} : HasJob(e)' => \A c \in Job(e)'.crtcs : Progress(e, c)'
         /\ \A c \in Display \ Job(d).crtcs :
              (\A e \in Display : HasJob(e)' => c \notin Job(e)'.crtcs) => Settled(c)'
<1>1. ASSUME NEW e \in Display \ {d}, HasJob(e)', NEW c \in Job(e)'.crtcs
      PROVE  Progress(e, c)'
  <2>1. Job(e)' = Job(e) /\ HasJob(e) /\ c \in Job(e).crtcs /\ work'[e] = work[e]
    BY <1>1 DEF Kept
  <2>2. c \in Display \ Job(d).crtcs
    BY <2>1, JobsApart, JobIs, CommitFields DEF Control
  <2>3. Progress(e, c)
    BY <2>1 DEF Hardware
  <2> QED
    BY <2>1, <2>2, <2>3 DEF Progress
<1>2. ASSUME NEW c \in Display \ Job(d).crtcs,
             \A e \in Display : HasJob(e)' => c \notin Job(e)'.crtcs
      PROVE  Settled(c)'
  <2>1. \A e \in Display : HasJob(e) => c \notin Job(e).crtcs
    BY <1>2 DEF Kept
  <2> QED
    BY <2>1 DEF Hardware, Settled
<1> QED
  BY <1>1, <1>2

\* A display that its commit switches off is left no blocks.
LEMMA OffHasNone ==
  ASSUME Control, NEW d \in Display, HasJob(d),
         NEW c \in DOMAIN Job(d).modes, Job(d).modes[c] = None
  PROVE  BlocksOf(rsvp, c) = {}
<1>1. WellFormed(Job(d)) /\ Swapped(Job(d))
  BY DEF Control, Commits
<1>2. ASSUME NEW b \in Blk, rsvp[b] = c PROVE FALSE
  <2>1. b \in Job(d).mask /\ Job(d).rm[b] = c
    BY <1>1, <1>2 DEF Swapped
  <2> QED
    BY <1>1, <2>1 DEF WellFormed
<1> QED
  BY <1>2 DEF BlocksOf

LEMMA SwapHardware ==
  ASSUME TypeOK, Records, Threads, Control, NoSharing, Hardware,
         NEW t \in Caller, SwapAndDispatch(t)
  PROVE  NoSharing' /\ Hardware'
<1>1. PICK k : k = commit[t]
  OBVIOUS
<1>2. Marked(t) /\ k \in CommitRec /\ WellFormed(k)
  BY <1>1 DEF SwapAndDispatch, Marked, Prepared, Records, Control, Commits
<1>3. PICK d \in Display :
         /\ d \in k.crtcs /\ ~HasJob(d) /\ HasJob(d)' /\ Job(d)' = k /\ work[d] = "idle"
         /\ \A c \in Display \ {d} : Job(c)' = Job(c) /\ (HasJob(c)' <=> HasJob(c))
  BY <1>1, SwapJobs DEF Kept
<1>4. /\ \A b \in Blk : rsvp'[b] # rsvp[b] =>
           b \in k.mask /\ {rsvp[b], rsvp'[b]} \subseteq DOMAIN k.modes \cup {None}
      /\ \A p \in Plane : stage'[p] # stage[p] =>
           p \in DOMAIN k.moves /\ {stage[p], stage'[p]} \subseteq k.crtcs \cup {None}
  BY <1>1, SwapChanges
<1>5. UNCHANGED <<mixers, pipes, work>>
  BY DEF SwapAndDispatch, hardware
<1>6. NoSharing'
  BY <1>5 DEF NoSharing
<1>7. \A c \in Display \ DOMAIN k.modes : BlocksOf(rsvp, c)' = BlocksOf(rsvp, c)
  BY <1>4, RmAssumption DEF BlocksOf
<1>8. \A c \in Display \ k.crtcs : PlanesOf(stage, c)' = PlanesOf(stage, c)
  BY <1>4, RmAssumption DEF PlanesOf
<1>9. DOMAIN k.modes \subseteq k.crtcs
  BY <1>2 DEF WellFormed
<1>10. ASSUME NEW c \in k.crtcs PROVE Progress(d, c)'
  <2>1. c \in Display
    BY <1>2, CommitFields
  <2>2. Settled(c)
    BY <1>1, <1>2, <2>1, MarkedFree DEF Control, Hardware
  <2>3. mixers'[c] \subseteq BlocksOf(rsvp, c)' \cup k.mask
    BY <1>4, <1>5, <2>2 DEF Settled, BlocksOf
  <2>4. c \notin DOMAIN k.modes => mixers'[c] = BlocksOf(rsvp, c)'
    BY <1>5, <1>7, <2>1, <2>2 DEF Settled
  <2>5. pipes'[c] \subseteq PlanesOf(stage, c)' \cup DOMAIN k.moves
    BY <1>4, <1>5, <2>2 DEF Settled, PlanesOf
  <2> QED
    BY <1>3, <1>5, <2>3, <2>4, <2>5 DEF Progress
<1>11. ASSUME NEW e \in Display \ {d}, HasJob(e), NEW c \in Job(e).crtcs PROVE Progress(e, c)'
  <2>1. c \in Display /\ c \notin k.crtcs
    BY <1>1, <1>2, <1>11, MarkedFree, JobIs, CommitFields DEF Control
  <2>2. Progress(e, c)
    BY <1>11 DEF Hardware
  <2>3. BlocksOf(rsvp, c)' = BlocksOf(rsvp, c) /\ PlanesOf(stage, c)' = PlanesOf(stage, c)
    BY <1>7, <1>8, <1>9, <2>1
  <2> QED
    BY <1>3, <1>5, <2>2, <2>3 DEF Progress
<1>12. ASSUME NEW c \in Display, \A e \in Display : HasJob(e)' => c \notin Job(e)'.crtcs
       PROVE  Settled(c)'
  <2>1. c \notin k.crtcs
    BY <1>3, <1>12
  <2>2. Settled(c)
    BY <1>3, <1>12 DEF Hardware
  <2> QED
    BY <1>5, <1>7, <1>8, <1>9, <2>1, <2>2 DEF Settled
<1>13. Hardware'
  BY <1>3, <1>10, <1>11, <1>12 DEF Hardware
<1> QED
  BY <1>6, <1>13

LEMMA DequeueHardware ==
  ASSUME TypeOK, Records, Threads, Control, NoSharing, Hardware, NEW d \in Display, Dequeue(d)
  PROVE  NoSharing' /\ Hardware'
<1>1. PICK k : k = Job(d)
  OBVIOUS
<1>2. /\ HasJob(d) /\ HasJob(d)' /\ Job(d)' = k /\ \A c \in Display : Kept(c)
      /\ k = Head(queue[d]) /\ k \in CommitRec /\ WellFormed(k)
  BY <1>1, DequeueKeeps, JobIs DEF Kept, Control, Commits
<1>3. /\ UNCHANGED <<rsvp, stage>>
      /\ work' = [work EXCEPT ![d] = IF Enabled(k) = {} THEN "commit" ELSE "setup"]
      /\ mixers' = [c \in Display |-> IF c \in DOMAIN k.modes THEN {} ELSE mixers[c]]
      /\ pipes' = [c \in Display |-> IF c \in DOMAIN k.modes THEN {} ELSE pipes[c]]
  BY <1>2 DEF Dequeue, DisableOutputs, Step, swstate
<1>4. work'[d] = IF Enabled(k) = {} THEN "commit" ELSE "setup"
  BY <1>3 DEF TypeOK
<1>5. DOMAIN k.modes \subseteq k.crtcs
  BY <1>2 DEF WellFormed
<1>6. NoSharing'
  BY <1>3 DEF NoSharing
<1>7. ASSUME NEW c \in k.crtcs PROVE Progress(d, c)'
  <2>1. c \in Display /\ Progress(d, c)
    BY <1>1, <1>2, CommitFields DEF Hardware
  <2>2. CASE c \in DOMAIN k.modes
    <3>1. mixers'[c] = {} /\ pipes'[c] = {}
      BY <1>3, <2>1, <2>2
    <3>2. work'[d] = "commit" => BlocksOf(rsvp, c)' = {}
      <4>1. Enabled(k) = {} => k.modes[c] = None
        BY <2>2 DEF Enabled
      <4>2. Enabled(k) = {} => BlocksOf(rsvp, c) = {}
        BY <1>1, <1>2, <2>2, <4>1, OffHasNone
      <4> QED
        BY <1>3, <1>4, <4>2 DEF BlocksOf
    <3> QED
      BY <1>2, <1>4, <2>2, <3>1, <3>2 DEF Progress
  <2>3. CASE c \notin DOMAIN k.modes
    <3>1. mixers'[c] = mixers[c] /\ pipes'[c] = pipes[c]
      BY <1>3, <2>1, <2>3
    <3> QED
      BY <1>1, <1>2, <1>3, <1>4, <2>1, <2>3, <3>1 DEF Progress, BlocksOf, PlanesOf
  <2> QED
    BY <2>2, <2>3
<1>8. Hardware'
  <2>1. \A e \in Display \ {d} : work'[e] = work[e]
    BY <1>3 DEF TypeOK
  <2>2. \A c \in Display \ k.crtcs : mixers'[c] = mixers[c] /\ pipes'[c] = pipes[c]
    BY <1>3, <1>5
  <2>3. /\ \A e \in Display \ {d} : HasJob(e)' => \A c \in Job(e)'.crtcs : Progress(e, c)'
        /\ \A c \in Display \ k.crtcs :
             (\A e \in Display : HasJob(e)' => c \notin Job(e)'.crtcs) => Settled(c)'
    BY <1>1, <1>2, <1>3, <2>1, <2>2, Elsewhere
  <2> QED
    BY <1>2, <1>7, <2>3 DEF Hardware
<1> QED
  BY <1>6, <1>8

\* What a thread that goes on with its commit finds.
LEMMA WorkOf ==
  ASSUME TypeOK, Records, Threads, Control, Hardware, NEW d \in Display,
         FirstGetHw(d) \/ NextGetHw(d) \/ LoseList(d) \/ CommitPlanes(d),
         NEW k, k = Job(d)
  PROVE  /\ HasJob(d) /\ HasJob(d)' /\ Job(d)' = k /\ current[d] = k
         /\ \A e \in Display \ {d} : Kept(e) /\ work'[e] = work[e]
         /\ k \in CommitRec /\ WellFormed(k) /\ Placed(k) /\ Swapped(k)
         /\ k.crtcs \subseteq Display /\ DOMAIN k.modes \subseteq k.crtcs
         /\ \A c \in k.crtcs : Progress(d, c)
         /\ UNCHANGED <<rsvp, stage>>
<1>1. HasJob(d) /\ Job(d) = current[d] /\ \A c \in Display : Kept(c)
  BY WorkKeeps
<1>2. WellFormed(k) /\ Placed(k) /\ Swapped(k) /\ k \in CommitRec
  BY <1>1, JobIs DEF Control, Commits
<1>3. \A e \in Display \ {d} : work'[e] = work[e]
  BY DEF FirstGetHw, NextGetHw, LoseList, CommitPlanes, Step, TypeOK
<1>4. UNCHANGED <<rsvp, stage>>
  BY DEF FirstGetHw, NextGetHw, LoseList, CommitPlanes, swstate
<1> QED
  BY <1>1, <1>2, <1>3, <1>4, CommitFields DEF Kept, Hardware, WellFormed

LEMMA WalkHardware ==
  ASSUME TypeOK, Records, Threads, Control, NoSharing, Hardware,
         NEW d \in Display, FirstGetHw(d) \/ LoseList(d)
  PROVE  NoSharing' /\ Hardware'
<1>1. PICK k : k = Job(d)
  OBVIOUS
<1>2. /\ UNCHANGED <<mixers, pipes>>
      /\ work[d] \in {"setup", "iterate"} /\ work'[d] \in {"iterate", "lost"}
  BY DEF FirstGetHw, LoseList, Step, hardware, TypeOK
<1>3. NoSharing'
  BY <1>2 DEF NoSharing
<1>4. ASSUME NEW c \in k.crtcs PROVE Progress(d, c)'
  BY <1>1, <1>2, WorkOf DEF Progress, BlocksOf, PlanesOf
<1>5. /\ \A e \in Display \ {d} : HasJob(e)' => \A c \in Job(e)'.crtcs : Progress(e, c)'
      /\ \A c \in Display \ k.crtcs :
           (\A e \in Display : HasJob(e)' => c \notin Job(e)'.crtcs) => Settled(c)'
  BY <1>1, <1>2, WorkOf, Elsewhere
<1>6. Hardware'
  BY <1>1, <1>4, <1>5, WorkOf DEF Hardware
<1> QED
  BY <1>3, <1>6

LEMMA NextGetHwHardware ==
  ASSUME TypeOK, Records, Threads, Control, NoSharing, Hardware, NEW d \in Display, NextGetHw(d)
  PROVE  NoSharing' /\ Hardware'
<1>1. PICK k : k = Job(d)
  OBVIOUS
<1>2. /\ HasJob(d) /\ HasJob(d)' /\ Job(d)' = k /\ current[d] = k
      /\ k \in CommitRec /\ WellFormed(k) /\ Swapped(k)
      /\ k.crtcs \subseteq Display /\ DOMAIN k.modes \subseteq k.crtcs
      /\ \A c \in k.crtcs : Progress(d, c)
      /\ UNCHANGED <<rsvp, stage>>
  BY <1>1, WorkOf
<1>3. /\ mixers' = [c \in Display |-> IF c \in Enabled(k) THEN BlocksOf(rsvp, c) ELSE mixers[c]]
      /\ UNCHANGED pipes /\ work[d] = "iterate" /\ work'[d] = "commit"
  BY <1>2 DEF NextGetHw, Step, TypeOK
<1>4. Enabled(k) \subseteq DOMAIN k.modes
  BY DEF Enabled
<1>5. ASSUME NEW c \in k.crtcs PROVE mixers'[c] = BlocksOf(rsvp, c)
  <2>1. c \in Display /\ Progress(d, c)
    BY <1>2
  <2>2. CASE c \in Enabled(k)
    BY <1>3, <2>1, <2>2
  <2>3. CASE c \in DOMAIN k.modes /\ c \notin Enabled(k)
    <3>1. BlocksOf(rsvp, c) = {}
      BY <1>1, <1>2, <2>3, OffHasNone DEF Enabled
    <3> QED
      BY <1>1, <1>3, <2>1, <2>3, <3>1 DEF Progress
  <2>4. CASE c \notin DOMAIN k.modes
    BY <1>1, <1>3, <1>4, <2>1, <2>4 DEF Progress
  <2> QED
    BY <2>2, <2>3, <2>4
<1>6. ASSUME NEW c \in k.crtcs PROVE Progress(d, c)'
  <2>1. Progress(d, c) /\ mixers'[c] = BlocksOf(rsvp, c)'
    BY <1>2, <1>5 DEF BlocksOf
  <2> QED
    BY <1>1, <1>2, <1>3, <2>1 DEF Progress, PlanesOf
<1>7. \A c \in Display \ k.crtcs : mixers'[c] = mixers[c]
  BY <1>2, <1>3, <1>4
<1>8. Hardware'
  <2>1. /\ \A e \in Display \ {d} : HasJob(e)' => \A c \in Job(e)'.crtcs : Progress(e, c)'
        /\ \A c \in Display \ k.crtcs :
             (\A e \in Display : HasJob(e)' => c \notin Job(e)'.crtcs) => Settled(c)'
    BY <1>1, <1>2, <1>3, <1>7, WorkOf, Elsewhere
  <2> QED
    BY <1>2, <1>6, <2>1 DEF Hardware
<1>9. \A b \in Blk : rsvp[b] \in DOMAIN k.modes => b \in k.mask
  BY <1>2 DEF Swapped
\* A block that the committed state gives to a display of this commit is not
\* in use by any other.
<1>10. ASSUME NEW c \in Enabled(k), NEW e \in Display, c # e
       PROVE  BlocksOf(rsvp, c) \cap mixers'[e] = {}
  <2>1. c \in DOMAIN k.modes
    BY <1>4
  <2>2. CASE e \in k.crtcs
    BY <1>5, <1>10, <2>2 DEF BlocksOf
  <2>3. CASE e \notin k.crtcs
    <3>1. mixers'[e] = mixers[e]
      BY <1>7, <2>3
    <3>2. CASE \A f \in Display : HasJob(f) => e \notin Job(f).crtcs
      <4>1. mixers[e] = BlocksOf(rsvp, e)
        BY <3>2 DEF Hardware, Settled
      <4> QED
        BY <1>10, <3>1, <4>1 DEF BlocksOf
    <3>3. CASE \E f \in Display : HasJob(f) /\ e \in Job(f).crtcs
      <4>1. PICK f \in Display : HasJob(f) /\ e \in Job(f).crtcs
        BY <3>3
      <4>2. f # d
        BY <1>1, <2>3, <4>1
      <4>3. mixers[e] \subseteq BlocksOf(rsvp, e) \cup Job(f).mask
        BY <4>1 DEF Hardware, Progress
      <4>4. Job(f).mask \cap k.mask = {}
        BY <1>1, <1>2, <4>1, <4>2 DEF Control, Apart
      <4>5. BlocksOf(rsvp, c) \subseteq k.mask
        BY <1>9, <2>1 DEF BlocksOf
      <4> QED
        BY <1>10, <3>1, <4>3, <4>4, <4>5 DEF BlocksOf
    <3> QED
      BY <3>2, <3>3
  <2> QED
    BY <2>2, <2>3
<1>11. NoSharing'
  <2> SUFFICES ASSUME NEW c \in Display, NEW e \in Display, c # e
               PROVE  mixers'[c] \cap mixers'[e] = {} /\ pipes'[c] \cap pipes'[e] = {}
    BY DEF NoSharing
  <2>1. pipes'[c] \cap pipes'[e] = {}
    BY <1>3 DEF NoSharing
  <2>2. CASE c \in Enabled(k)
    BY <1>3, <1>10, <2>1, <2>2
  <2>3. CASE e \in Enabled(k)
    BY <1>3, <1>10, <2>1, <2>3
  <2>4. CASE c \notin Enabled(k) /\ e \notin Enabled(k)
    BY <1>3, <2>1, <2>4 DEF NoSharing
  <2> QED
    BY <2>2, <2>3, <2>4
<1> QED
  BY <1>8, <1>11

LEMMA PlanesHardware ==
  ASSUME TypeOK, Records, Threads, Control, NoSharing, Hardware, NEW d \in Display, CommitPlanes(d)
  PROVE  NoSharing' /\ Hardware'
<1>1. PICK k : k = Job(d)
  OBVIOUS
<1>2. /\ HasJob(d) /\ HasJob(d)' /\ Job(d)' = k /\ current[d] = k
      /\ k.crtcs \subseteq Display
      /\ \A c \in k.crtcs : Progress(d, c)
      /\ UNCHANGED <<rsvp, stage>>
  BY <1>1, WorkOf
<1>3. /\ pipes' = [c \in Display |-> IF c \in k.crtcs THEN PlanesOf(stage, c) ELSE pipes[c]]
      /\ UNCHANGED mixers /\ work[d] = "commit" /\ work'[d] = "end"
  BY <1>2 DEF CommitPlanes, Step, TypeOK, PlanesOf
<1>4. \A c \in k.crtcs : pipes'[c] = PlanesOf(stage, c)
  BY <1>2, <1>3
<1>5. \A c \in Display \ k.crtcs : pipes'[c] = pipes[c]
  BY <1>3
<1>6. ASSUME NEW c \in k.crtcs PROVE Progress(d, c)'
  <2>1. Progress(d, c) /\ pipes'[c] = PlanesOf(stage, c)'
    BY <1>2, <1>4 DEF PlanesOf
  <2> QED
    BY <1>1, <1>2, <1>3, <2>1 DEF Progress, BlocksOf
<1>7. Hardware'
  <2>1. /\ \A e \in Display \ {d} : HasJob(e)' => \A c \in Job(e)'.crtcs : Progress(e, c)'
        /\ \A c \in Display \ k.crtcs :
             (\A e \in Display : HasJob(e)' => c \notin Job(e)'.crtcs) => Settled(c)'
    BY <1>1, <1>2, <1>3, <1>5, WorkOf, Elsewhere
  <2> QED
    BY <1>2, <1>6, <2>1 DEF Hardware
\* A plane that the committed state gives to a display of this commit is not
\* fetched by any other.
<1>8. ASSUME NEW c \in k.crtcs, NEW e \in Display, c # e
      PROVE  PlanesOf(stage, c) \cap pipes'[e] = {}
  <2>1. CASE e \in k.crtcs
    BY <1>4, <1>8, <2>1 DEF PlanesOf
  <2>2. CASE e \notin k.crtcs
    <3>1. pipes'[e] = pipes[e]
      BY <1>5, <2>2
    <3>2. CASE \A f \in Display : HasJob(f) => e \notin Job(f).crtcs
      <4>1. pipes[e] = PlanesOf(stage, e)
        BY <3>2 DEF Hardware, Settled
      <4> QED
        BY <1>8, <3>1, <4>1 DEF PlanesOf
    <3>3. CASE \E f \in Display : HasJob(f) /\ e \in Job(f).crtcs
      <4>1. PICK f \in Display : HasJob(f) /\ e \in Job(f).crtcs
        BY <3>3
      <4>2. f # d
        BY <1>1, <2>2, <4>1
      <4>3. pipes[e] \subseteq PlanesOf(stage, e) \cup DOMAIN Job(f).moves
        BY <4>1 DEF Hardware, Progress
      <4>4. Job(f).crtcs \cap k.crtcs = {}
        BY <1>1, <1>2, <4>1, <4>2, JobsApart DEF Control
      <4>5. \A p \in DOMAIN Job(f).moves : stage[p] \in Job(f).crtcs \cup {None}
        BY <4>1 DEF Control, Commits, Placed
      <4>6. c # None
        BY <1>2, RmAssumption
      <4> QED
        BY <1>8, <3>1, <4>3, <4>4, <4>5, <4>6 DEF PlanesOf
    <3> QED
      BY <3>2, <3>3
  <2> QED
    BY <2>1, <2>2
<1>9. NoSharing'
  <2> SUFFICES ASSUME NEW c \in Display, NEW e \in Display, c # e
               PROVE  mixers'[c] \cap mixers'[e] = {} /\ pipes'[c] \cap pipes'[e] = {}
    BY DEF NoSharing
  <2>1. mixers'[c] \cap mixers'[e] = {}
    BY <1>3 DEF NoSharing
  <2>2. CASE c \in k.crtcs
    BY <1>4, <1>8, <2>1, <2>2
  <2>3. CASE e \in k.crtcs
    BY <1>4, <1>8, <2>1, <2>3
  <2>4. CASE c \notin k.crtcs /\ e \notin k.crtcs
    BY <1>5, <2>1, <2>4 DEF NoSharing
  <2> QED
    BY <2>2, <2>3, <2>4
<1> QED
  BY <1>7, <1>9

LEMMA EndHardware ==
  ASSUME TypeOK, Records, Threads, Control, NoSharing, Hardware, NEW d \in Display, EndAtomic(d)
  PROVE  NoSharing' /\ Hardware'
<1>1. PICK k : k = Job(d)
  OBVIOUS
<1>2. /\ HasJob(d) /\ ~HasJob(d)' /\ \A e \in Display \ {d} : Kept(e)
      /\ \A c \in k.crtcs : Progress(d, c)
  BY <1>1, EndJobs DEF Hardware
<1>3. /\ UNCHANGED <<rsvp, stage, mixers, pipes>> /\ work[d] = "end"
      /\ \A e \in Display \ {d} : work'[e] = work[e]
  BY DEF EndAtomic, Step, swstate, hardware, TypeOK
<1>4. NoSharing'
  BY <1>3 DEF NoSharing
<1>5. \A c \in k.crtcs : Settled(c)'
  BY <1>2, <1>3 DEF Progress, Settled, BlocksOf, PlanesOf
<1>6. /\ \A e \in Display \ {d} : HasJob(e)' => \A c \in Job(e)'.crtcs : Progress(e, c)'
      /\ \A c \in Display \ k.crtcs :
           (\A e \in Display : HasJob(e)' => c \notin Job(e)'.crtcs) => Settled(c)'
  BY <1>1, <1>2, <1>3, Elsewhere
<1>7. Hardware'
  BY <1>2, <1>5, <1>6 DEF Hardware
<1> QED
  BY <1>4, <1>7

-----------------------------------------------------------------------------
(* The theorems.                                                           *)

LEMMA IInvInit == Init => IInv
<1> SUFFICES ASSUME Init PROVE IInv
  OBVIOUS
<1>1. /\ \A d \in Display : ~HasJob(d) /\ work[d] = "idle" /\ current[d] = None /\ queue[d] = <<>>
      /\ \A t \in Caller : ~Prepared(t) /\ ~Marked(t) /\ call[t] = "idle"
  BY DEF Init, HasJob, Job, Prepared, Marked
<1>2. TypeOK
  BY <1>1, AtomicAssumption DEF Init, TypeOK, State
<1>3. Records
  BY <1>1 DEF Init, Records
<1>4. Threads
  BY <1>1 DEF Threads
<1>5. Control
  BY <1>1 DEF Control, Numbered, Apart, Locked, Held, Commits
<1>6. NoSharing
  BY DEF Init, NoSharing
<1>7. Hardware
  BY <1>1, RmAssumption DEF Init, Hardware, Settled, BlocksOf, PlanesOf
<1> QED
  BY <1>2, <1>3, <1>4, <1>5, <1>6, <1>7 DEF IInv

LEMMA IInvStep == IInv /\ [Next]_vars => IInv'
<1> SUFFICES ASSUME IInv, [Next]_vars PROVE IInv'
  OBVIOUS
<1> USE DEF IInv
<1>1. TypeOK' /\ Records' /\ Threads'
  BY TypeStep
<1>2. ASSUME NEW t \in Caller, Check(t) PROVE Control' /\ NoSharing' /\ Hardware'
  BY <1>2, CheckControl, CheckFits, CallerOnlyKeeps, StillHardware
  DEF CallerOnly, swstate, threads
<1>3. ASSUME NEW t \in Caller, StartAtomic(t) PROVE Control' /\ NoSharing' /\ Hardware'
  BY <1>3, StartControl, CallerOnlyKeeps, StillHardware
  DEF StartAtomic, CallerOnly, swstate, threads
<1>4. ASSUME NEW t \in Caller, Interrupted(t) \/ Flushed(t)
      PROVE  Control' /\ NoSharing' /\ Hardware'
  BY <1>4, ReturnControl, CallerOnlyKeeps, StillHardware
  DEF Interrupted, Flushed, CallerOnly, swstate, threads
<1>5. ASSUME NEW t \in Caller, SwapAndDispatch(t) PROVE Control' /\ NoSharing' /\ Hardware'
  BY <1>5, SwapControl, SwapHardware
<1>6. ASSUME NEW d \in Display, ThreadStep(d) PROVE Control'
  <2>1. UNCHANGED <<call, commit, commits, rsvp, stage>>
    BY <1>6 DEF ThreadStep, Dequeue, FirstGetHw, NextGetHw, LoseList, CommitPlanes,
       EndAtomic,
                callers, swstate
  <2>2. CASE EndAtomic(d)
    <3>1. /\ HasJob(d) /\ Job(d) = current[d] /\ ~HasJob(d)' /\ \A c \in Display \ {d} : Kept(c)
          /\ pending' = pending \ Job(d).mask
      BY <2>2, EndJobs DEF EndAtomic
    <3>2. \A t \in Caller : Marked(t) => commit[t].mask \subseteq pending'
      BY <3>1 DEF Control, Apart
    <3>3. \A c \in Display : HasJob(c) /\ HasJob(c)' => Job(c).mask \subseteq pending'
      BY <3>1 DEF Control, Apart
    <3> QED
      BY <2>1, <3>1, <3>2, <3>3, ThreadControl
  <2>3. CASE ~EndAtomic(d)
    <3>1. UNCHANGED pending
      BY <1>6, <2>3 DEF ThreadStep, Dequeue, FirstGetHw, NextGetHw, LoseList,
         CommitPlanes
    <3>2. \A c \in Display : Kept(c)
      BY <1>6, <2>3, DequeueKeeps, WorkKeeps DEF ThreadStep
    <3> QED
      BY <2>1, <3>1, <3>2, ThreadControl DEF Control, Apart
  <2> QED
    BY <2>2, <2>3
<1>7. ASSUME NEW d \in Display, ThreadStep(d) PROVE NoSharing' /\ Hardware'
  BY <1>7, DequeueHardware, WalkHardware, NextGetHwHardware, PlanesHardware,
     EndHardware
  DEF ThreadStep
<1>8. CASE UNCHANGED vars
  <2>1. \A d \in Display : Kept(d)
    BY <1>8 DEF vars, Kept, HasJob, Job
  <2>2. UNCHANGED <<call, commit, commits, rsvp, stage, pending, hardware, work>>
    BY <1>8 DEF vars, hardware
  <2>3. Control'
    BY <2>1, <2>2, ThreadControl DEF Control, Apart
  <2>4. NoSharing' /\ Hardware'
    BY <2>1, <2>2, StillHardware
  <2> QED
    BY <1>1, <2>3, <2>4
<1> QED
  BY <1>1, <1>2, <1>3, <1>4, <1>5, <1>6, <1>7, <1>8 DEF Next, CallerStep

LEMMA Inductive == Spec => []IInv
BY IInvInit, IInvStep, PTL DEF Spec

\* States, marks and queues keep their types: a thread never has a second
\* commit in its queue (msm_atomic_commit_dispatch).
THEOREM AtomicTypes == Spec => []TypeOK
<1>1. IInv => TypeOK
  BY DEF IInv
<1> QED
  BY <1>1, Inductive, PTL

\* The hardware never shares a block or a plane between two displays, and a
\* display without a commit at work uses what the committed state says
\* (complete_commit, start_atomic).
THEOREM AtomicHwFollowsState == Spec => [](TypeOK /\ HwFollowsState)
<1>1. IInv => TypeOK /\ HwFollowsState
  <2> SUFFICES ASSUME IInv PROVE TypeOK /\ HwFollowsState
    OBVIOUS
  <2> USE DEF IInv
  <2>1. ASSUME NEW c \in Display \ Busy PROVE Settled(c)
    <3>1. \A d \in Display : HasJob(d) => Job(d) \in InFlight
      BY InFlightJobs
    <3>2. \A d \in Display : HasJob(d) => c \notin Job(d).crtcs
      BY <2>1, <3>1 DEF Busy
    <3> QED
      BY <3>2 DEF Hardware
  <2> QED
    BY <2>1 DEF HwFollowsState, Settled, PlanesOf
<1> QED
  BY <1>1, Inductive, PTL

-----------------------------------------------------------------------------
(* The refinement of ExclusiveCommits.                                     *)

\* What is marked is, in the committed state, reserved for the commit's own
\* displays or for none.
Owns(k) == \A b \in k.mask \cap Blk : rsvp[b] \in k.crtcs \cup {None}

LEMMA PreparedOwns ==
  ASSUME Control, NEW t \in Caller, Prepared(t)
  PROVE  Owns(commit[t])
<1>1. WellFormed(commit[t]) /\ Current(commit[t])
  BY DEF Control, Commits
<1> QED
  BY <1>1 DEF WellFormed, Current, Checked, Owns

LEMMA JobOwns ==
  ASSUME Control, NEW d \in Display, HasJob(d)
  PROVE  Owns(Job(d))
BY DEF Control, Commits, WellFormed, Swapped, Owns

\* Commits that have marked different things work on different things.
LEMMA UsesApart ==
  ASSUME NEW k \in CommitRec, NEW m \in CommitRec, k.mask \cap m.mask = {},
         WellFormed(k), Placed(k), Owns(k), WellFormed(m), Placed(m), Owns(m)
  PROVE  k.uses \cap m.uses = {}
<1>1. k.crtcs \cap m.crtcs = {}
  BY DEF WellFormed
<1>2. None \notin k.crtcs /\ None \notin m.crtcs
  BY CommitFields, RmAssumption
<1> SUFFICES ASSUME NEW x \in k.uses \cap m.uses PROVE FALSE
  OBVIOUS
<1>3. x \in Blk
  BY DEF WellFormed
<1>4. CASE x \in k.mask
  BY <1>1, <1>2, <1>3, <1>4 DEF Placed, Owns
<1>5. CASE x \notin k.mask
  BY <1>1, <1>2, <1>3, <1>5 DEF Placed, Owns
<1> QED
  BY <1>4, <1>5

\* What a number holds: the uses of its caller or of its thread.
Holds(id, x) ==
    \/ \E d \in Display : HasJob(d) /\ Job(d).id = id /\ x \in Job(d).uses
    \/ \E t \in Caller : Marked(t) /\ commit[t].id = id /\ x \in commit[t].uses

UsesHeld == \A id, x : x \in Uses(id) <=> Holds(id, x)

LEMMA UsesAre == IInv => UsesHeld
<1> SUFFICES ASSUME IInv, NEW id, NEW x PROVE x \in Uses(id) <=> Holds(id, x)
  BY DEF UsesHeld
<1> DEFINE J == {k \in InFlight : k.id = id}
           T == {t \in Caller : call[t] = "swap" /\ commit[t].id = id}
<1>1. x \in Uses(id) <=> (\E k \in J : x \in k.uses) \/ (\E t \in T : x \in commit[t].uses)
  BY DEF Uses
<1>2. (\E k \in J : x \in k.uses)
        <=> \E d \in Display : HasJob(d) /\ Job(d).id = id /\ x \in Job(d).uses
  BY InFlightJobs DEF IInv
<1>3. (\E t \in T : x \in commit[t].uses)
        <=> \E t \in Caller : Marked(t) /\ commit[t].id = id /\ x \in commit[t].uses
  BY DEF Marked
<1> QED
  BY <1>1, <1>2, <1>3 DEF Holds

LEMMA UsesAfter ==
  ASSUME IInv, [Next]_vars
  PROVE  UsesHeld'
<1>1. IInv /\ [Next]_vars => UsesHeld'
  BY UsesAre, IInvStep, PTL
<1> QED
  BY <1>1

\* Steps other than start_atomic and end_atomic leave what is held alone.
LEMMA QuietUses ==
  ASSUME IInv, [Next]_vars,
         \A id, x : Holds(id, x)' <=> Holds(id, x)
  PROVE  \A id \in CommitId : Uses(id)' = Uses(id)
BY UsesAre, UsesAfter DEF UsesHeld

LEMMA StartUses ==
  ASSUME IInv, NEW t \in Caller, StartAtomic(t)
  PROVE  \E k \in CommitRec :
            /\ Uses(k.id) = {} /\ Uses(k.id)' = k.uses /\ k.uses # {}
            /\ \A id \in CommitId : k.uses \cap Uses(id) = {}
            /\ \A id \in CommitId \ {k.id} : Uses(id)' = Uses(id)
<1> USE DEF IInv
<1>1. PICK k : k = commit[t]
  OBVIOUS
<1>2. /\ Prepared(t) /\ ~Marked(t) /\ Marked(t)' /\ commit'[t] = k /\ k \in CommitRec
      /\ \A o \in Caller \ {t} : (Marked(o)' <=> Marked(o)) /\ commit'[o] = commit[o]
      /\ pending \cap k.mask = {}
  BY <1>1 DEF StartAtomic, Prepared, Marked, TypeOK, Records
<1>3. \A d \in Display : Job(d)' = Job(d) /\ (HasJob(d)' <=> HasJob(d))
  BY CallerOnlyKeeps DEF StartAtomic, CallerOnly, Kept
<1>4. WellFormed(k) /\ Placed(k) /\ Owns(k)
  BY <1>1, <1>2, PreparedOwns DEF Control, Commits
<1>5. UsesHeld /\ UsesHeld'
  BY UsesAre, UsesAfter DEF Next, CallerStep
<1>6. \A x : ~Holds(k.id, x)
  BY <1>1, <1>2 DEF Holds, Control, Numbered, Marked, Prepared
<1>7. \A id, x : id # k.id => (Holds(id, x)' <=> Holds(id, x))
  BY <1>1, <1>2, <1>3 DEF Holds
<1>8. \A x : Holds(k.id, x)' <=> x \in k.uses
  <2>1. ASSUME NEW x, Holds(k.id, x)' PROVE x \in k.uses
    BY <1>2, <1>3, <1>6, <2>1 DEF Holds
  <2>2. ASSUME NEW x \in k.uses PROVE Holds(k.id, x)'
    BY <1>2 DEF Holds
  <2> QED
    BY <2>1, <2>2
<1>9. \A id, x : Holds(id, x) => x \notin k.uses
  <2>1. ASSUME NEW d \in Display, HasJob(d) PROVE Job(d).uses \cap k.uses = {}
    <3>1. Job(d).mask \cap k.mask = {}
      BY <1>2, <2>1 DEF Control, Apart
    <3>2. WellFormed(Job(d)) /\ Placed(Job(d)) /\ Owns(Job(d)) /\ Job(d) \in CommitRec
      BY <2>1, JobOwns, JobIs DEF Control, Commits
    <3> QED
      BY <1>2, <1>4, <3>1, <3>2, UsesApart
  <2>2. ASSUME NEW o \in Caller, Marked(o) PROVE commit[o].uses \cap k.uses = {}
    <3>1. commit[o].mask \cap k.mask = {}
      BY <1>2, <2>2 DEF Control, Apart
    <3>2. /\ WellFormed(commit[o]) /\ Placed(commit[o]) /\ Owns(commit[o])
          /\ commit[o] \in CommitRec
      BY <2>2, PreparedOwns DEF Control, Commits, Marked, Prepared, Records
    <3> QED
      BY <1>2, <1>4, <3>1, <3>2, UsesApart
  <2> QED
    BY <2>1, <2>2 DEF Holds
<1>10. k.uses # {}
  BY <1>4 DEF WellFormed
<1>11. Uses(k.id) = {} /\ Uses(k.id)' = k.uses
  BY <1>5, <1>6, <1>8, <1>1 DEF UsesHeld
<1>12. \A id \in CommitId : k.uses \cap Uses(id) = {}
  BY <1>5, <1>9 DEF UsesHeld
<1>13. \A id \in CommitId \ {k.id} : Uses(id)' = Uses(id)
  BY <1>5, <1>7 DEF UsesHeld
<1> QED
  BY <1>2, <1>10, <1>11, <1>12, <1>13

LEMMA EndUses ==
  ASSUME IInv, NEW d \in Display, EndAtomic(d)
  PROVE  \E k \in CommitRec :
            /\ Uses(k.id) # {} /\ Uses(k.id)' = {}
            /\ \A id \in CommitId \ {k.id} : Uses(id)' = Uses(id)
<1> USE DEF IInv
<1>1. PICK k : k = Job(d)
  OBVIOUS
<1>2. /\ HasJob(d) /\ ~HasJob(d)' /\ k \in CommitRec /\ WellFormed(k)
      /\ \A c \in Display \ {d} : Job(c)' = Job(c) /\ (HasJob(c)' <=> HasJob(c))
  BY <1>1, EndJobs, JobIs DEF Kept, Control, Commits
<1>3. UNCHANGED <<call, commit>>
  BY DEF EndAtomic, callers
<1>4. UsesHeld /\ UsesHeld'
  BY UsesAre, UsesAfter DEF Next, ThreadStep
<1>5. \A t \in Caller : Marked(t)' <=> Marked(t)
  BY <1>3 DEF Marked
<1>6. \A x : ~Holds(k.id, x)'
  BY <1>1, <1>2, <1>3, <1>5 DEF Holds, Control, Numbered, Marked, Prepared
<1>7. \A id, x : id # k.id => (Holds(id, x)' <=> Holds(id, x))
  BY <1>1, <1>2, <1>3, <1>5 DEF Holds
<1>8. \A x \in k.uses : Holds(k.id, x)
  BY <1>1, <1>2 DEF Holds
<1>9. k.uses # {}
  BY <1>2 DEF WellFormed
<1>10. Uses(k.id) # {} /\ Uses(k.id)' = {}
  BY <1>4, <1>6, <1>8, <1>9, <1>1 DEF UsesHeld
<1>11. \A id \in CommitId \ {k.id} : Uses(id)' = Uses(id)
  BY <1>4, <1>7 DEF UsesHeld
<1> QED
  BY <1>2, <1>10, <1>11

\* A commit that is swapped in holds as the job of a thread what it held as a
\* caller's.
LEMMA SwapUses ==
  ASSUME IInv, NEW t \in Caller, SwapAndDispatch(t)
  PROVE  \A id, x : Holds(id, x)' <=> Holds(id, x)
<1> USE DEF IInv
<1>1. PICK k : k = commit[t]
  OBVIOUS
<1>2. PICK d \in Display :
         /\ ~HasJob(d) /\ HasJob(d)' /\ Job(d)' = k
         /\ \A c \in Display \ {d} : Job(c)' = Job(c) /\ (HasJob(c)' <=> HasJob(c))
  BY <1>1, SwapJobs DEF Kept
<1>3. Marked(t) /\ ~Marked(t)'
  BY DEF SwapAndDispatch, Marked, TypeOK
<1>4. \A o \in Caller \ {t} : (Marked(o)' <=> Marked(o)) /\ commit'[o] = commit[o]
  BY DEF SwapAndDispatch, Marked, TypeOK, Records
<1>5. ASSUME NEW id, NEW x, Holds(id, x) PROVE Holds(id, x)'
  BY <1>1, <1>2, <1>3, <1>4, <1>5 DEF Holds
<1>6. ASSUME NEW id, NEW x, Holds(id, x)' PROVE Holds(id, x)
  BY <1>1, <1>2, <1>3, <1>4, <1>6 DEF Holds
<1> QED
  BY <1>5, <1>6

\* The other steps of callers, and those of the threads before the end.
LEMMA OtherUses ==
  ASSUME IInv, \A d \in Display : Kept(d),
         \A t \in Caller : (Marked(t)' <=> Marked(t)) /\ (Marked(t) => commit'[t] = commit[t])
  PROVE  \A id, x : Holds(id, x)' <=> Holds(id, x)
BY DEF Kept, Holds

\* Each step of a commit is a step of the abstract specification or none.
LEMMA ExclusiveStep ==
  ASSUME IInv, [Next]_vars
  PROVE  [EC!Next]_([id \in CommitId |-> Uses(id)])
<1> DEFINE holds == [id \in CommitId |-> Uses(id)]
<1>1. ASSUME \A id, x : Holds(id, x)' <=> Holds(id, x) PROVE UNCHANGED holds
  BY <1>1, QuietUses
<1>2. ASSUME NEW t \in Caller, StartAtomic(t) PROVE EC!Next
  <2>1. PICK k \in CommitRec :
          /\ Uses(k.id) = {} /\ Uses(k.id)' = k.uses /\ k.uses # {}
          /\ \A id \in CommitId : k.uses \cap Uses(id) = {}
          /\ \A id \in CommitId \ {k.id} : Uses(id)' = Uses(id)
    BY <1>2, StartUses
  <2>2. PICK i \in CommitId : i = k.id
    BY CommitFields
  <2>3. k.uses \subseteq Resource
    BY CommitFields
  <2>4. holds[i] = {} /\ holds'[i] = k.uses
    BY <2>1, <2>2
  <2>5. k.uses \subseteq Resource \ UNION {holds[o] : o \in CommitId}
    BY <2>1, <2>3
  <2>6. holds' = [holds EXCEPT ![i] = holds'[i]]
    BY <2>1, <2>2
  <2>7. EC!Begin(i)
    BY <2>1, <2>4, <2>5, <2>6 DEF EC!Begin
  <2> QED
    BY <2>7 DEF EC!Next
<1>3. ASSUME NEW d \in Display, EndAtomic(d) PROVE EC!Next
  <2>1. PICK k \in CommitRec :
          /\ Uses(k.id) # {} /\ Uses(k.id)' = {}
          /\ \A id \in CommitId \ {k.id} : Uses(id)' = Uses(id)
    BY <1>3, EndUses
  <2>2. PICK i \in CommitId : i = k.id
    BY CommitFields
  <2>3. holds[i] # {} /\ holds' = [holds EXCEPT ![i] = {}]
    BY <2>1, <2>2
  <2>4. EC!End(i)
    BY <2>3 DEF EC!End
  <2> QED
    BY <2>4 DEF EC!Next
<1>4. ASSUME NEW t \in Caller, SwapAndDispatch(t) PROVE UNCHANGED holds
  BY <1>1, <1>4, SwapUses
<1>5. ASSUME NEW t \in Caller, Check(t) PROVE UNCHANGED holds
  <2>1. /\ CallerOnly /\ call[t] = "idle" /\ call' = [call EXCEPT ![t] = "start"]
        /\ commit' = [commit EXCEPT ![t] = commit'[t]]
    BY <1>5, CheckFits DEF IInv
  <2>2. \A o \in Caller : (Marked(o)' <=> Marked(o)) /\ (Marked(o) => commit'[o] = commit[o])
    BY <2>1 DEF IInv, TypeOK, Records, Marked
  <2> QED
    BY <1>1, <2>1, <2>2, CallerOnlyKeeps, OtherUses DEF IInv
<1>6. ASSUME NEW t \in Caller, Interrupted(t) \/ Flushed(t) PROVE UNCHANGED holds
  <2>1. CallerOnly
    BY <1>6 DEF Interrupted, Flushed, CallerOnly
  <2>2. \A o \in Caller : (Marked(o)' <=> Marked(o)) /\ (Marked(o) => commit'[o] = commit[o])
    BY <1>6 DEF Interrupted, Flushed, IInv, TypeOK, Records, Marked
  <2> QED
    BY <1>1, <2>1, <2>2, CallerOnlyKeeps, OtherUses DEF IInv
<1>7. ASSUME NEW d \in Display, ThreadStep(d), ~EndAtomic(d) PROVE UNCHANGED holds
  <2>1. \A c \in Display : Kept(c)
    BY <1>7, DequeueKeeps, WorkKeeps DEF ThreadStep, IInv
  <2>2. UNCHANGED <<call, commit>>
    BY <1>7 DEF ThreadStep, Dequeue, FirstGetHw, NextGetHw, LoseList, CommitPlanes,
       callers
  <2> QED
    BY <1>1, <2>1, <2>2, OtherUses DEF Marked
<1>8. ASSUME UNCHANGED vars PROVE UNCHANGED holds
  <2>1. \A d \in Display : Kept(d)
    BY <1>8 DEF vars, Kept, HasJob, Job
  <2>2. UNCHANGED <<call, commit>>
    BY <1>8 DEF vars
  <2> QED
    BY <1>1, <2>1, <2>2, OtherUses DEF Marked
<1> QED
  <2>1. EC!Next \/ UNCHANGED holds
    BY <1>2, <1>3, <1>4, <1>5, <1>6, <1>7, <1>8 DEF Next, CallerStep, ThreadStep
  <2> QED
    BY <2>1

\* From start_atomic to end_atomic a commit works on its displays, planes and
\* blocks alone: the masks and the display threads implement ExclusiveCommits.
THEOREM AtomicExclusive == Spec => Exclusive
<1>1. Init => EC!Init
  <2> SUFFICES ASSUME Init PROVE EC!Init
    OBVIOUS
  <2>1. \A d \in Display : ~HasJob(d)
    BY DEF Init, HasJob, Job
  <2>2. \A t \in Caller : ~Marked(t)
    BY DEF Init, Marked
  <2>3. \A id \in CommitId : Uses(id) = {}
    BY <2>1, <2>2, UsesAre, IInvInit DEF UsesHeld, Holds
  <2> QED
    BY <2>3 DEF EC!Init
<1>2. IInv /\ [Next]_vars => [EC!Next]_([id \in CommitId |-> Uses(id)])
  BY ExclusiveStep
<1> QED
  BY <1>1, <1>2, Inductive, PTL DEF Spec, Exclusive, EC!Spec

-----------------------------------------------------------------------------
(* What a display gets.                                                    *)

LEMMA ReserveBlocks ==
  ASSUME NEW s \in State, NEW e \in Display, NEW blks, blks \subseteq Blk
  PROVE  BlocksOf(Reserve(s, e, blks), e) = BlocksOf(s, e) \cup blks
BY DEF BlocksOf, Reserve

LEMMA ReserveCtlsBlocks ==
  ASSUME NEW s \in State, NEW e \in Display, NEW r
  PROVE  \E ctls \in SUBSET ToSet(CtlList) :
            BlocksOf(ReserveCtls(s, e, r), e) = BlocksOf(s, e) \cup ctls
<1> DEFINE fits == {i \in DOMAIN CtlList :
                      /\ ~ReservedByOther(s, e, CtlList[i])
                      /\ IF CtlCfg[CtlList[i]].pref THEN r.primary
                         ELSE CtlCfg[CtlList[i]].split = r.topology.needs_split_display}
           places == {i \in fits : Cardinality({j \in fits : j < i}) < r.topology.num_ctl}
           ctls == {CtlList[i] : i \in places}
<1>1. ctls \subseteq ToSet(CtlList) /\ ctls \subseteq Blk
  <2>1. places \subseteq DOMAIN CtlList
    OBVIOUS
  <2> HIDE DEF places
  <2> QED
    BY <2>1, RmAssumption DEF ToSet
<1>2. BlocksOf(Reserve(s, e, ctls), e) = BlocksOf(s, e) \cup ctls
  <2> HIDE DEF ctls
  <2> QED
    BY <1>1, ReserveBlocks
<1>3. BlocksOf(s, e) = BlocksOf(s, e) \cup {} /\ {} \subseteq ToSet(CtlList)
  OBVIOUS
<1> QED
  BY <1>1, <1>2, <1>3 DEF ReserveCtls

\* The number of its mixers and compressors is what its topology asks for,
\* and it has the blocks its mixers are connected to.
LEMMA MakeNextRsvpFits ==
  ASSUME NEW s \in State, NEW e \in Display, NEW name, name # None,
         MakeNextRsvp(s, e, name) # None, BlocksOf(s, e) = {}
  PROVE  Fits(MakeNextRsvp(s, e, name), e, name)
<1> DEFINE r == Requirements(e, name)
           lms == FindLms(s, e, r)
           linked == UNION {Connected(lm) : lm \in lms}
           s1 == Reserve(s, e, linked)
           s2 == ReserveCtls(s1, e, r)
           places == FindCdms(s2, e)
           cdms == IF places = {} THEN {} ELSE {First(CdmList, places)}
           s3 == Reserve(s2, e, cdms)
           dscs == FindDscs(s3, e, r.topology.num_comp_enc)
           new == Reserve(s3, e, dscs)
<1>1. lms \subseteq ToSet(LmList) /\ linked \subseteq Free(s, e)
  BY FindLmsFree DEF FreeLms
<1>2. s1 \in State /\ BlocksOf(s1, e) = linked
  <2>1. linked \subseteq Blk
    BY <1>1 DEF Free
  <2>2. Given(s, s1, e)
    <3> HIDE DEF linked
    <3> QED
      BY <1>1, ReserveGiven
  <2>3. BlocksOf(s1, e) = BlocksOf(s, e) \cup linked
    <3> HIDE DEF linked
    <3> QED
      BY <2>1, ReserveBlocks
  <2> HIDE DEF linked, s1
  <2> QED
    BY <2>2, <2>3 DEF Given
<1>3. s2 \in State /\ \E ctls \in SUBSET ToSet(CtlList) : BlocksOf(s2, e) = linked \cup ctls
  <2> HIDE DEF s1, linked, r
  <2> QED
    BY <1>2, ReserveCtlsGiven, ReserveCtlsBlocks DEF Given
<1>4. cdms \subseteq ToSet(CdmList) /\ cdms \subseteq Free(s2, e)
  <2>1. CASE places # {}
    <3>1. places \subseteq {i \in DOMAIN CdmList : ~ReservedByOther(s2, e, CdmList[i])}
      BY DEF FindCdms
    <3>2. places \subseteq Nat
      BY <3>1, RmAssumption
    <3> HIDE DEF places, s2
    <3>3. PICK j \in places : First(CdmList, places) = CdmList[j]
      BY <2>1, <3>2, FirstIn
    <3>4. CdmList[j] \in Blk /\ CdmList[j] \in ToSet(CdmList) /\ ~ReservedByOther(s2, e, CdmList[j])
      BY <3>1, <3>3, RmAssumption DEF ToSet
    <3> QED
      BY <2>1, <3>3, <3>4 DEF Free
  <2> QED
    BY <2>1
<1>5. s3 \in State /\ BlocksOf(s3, e) = BlocksOf(s2, e) \cup cdms
  <2>1. cdms \subseteq Blk
    BY <1>4 DEF Free
  <2> HIDE DEF s2, cdms
  <2> QED
    BY <1>3, <1>4, <2>1, ReserveGiven, ReserveBlocks DEF Given
<1>6. dscs \subseteq ToSet(DscList) /\ dscs \subseteq Blk
  BY FindDscsFree DEF FreeDscs, Free
<1>7. BlocksOf(new, e) = BlocksOf(s3, e) \cup dscs
  <2> HIDE DEF s3, dscs
  <2> QED
    BY <1>5, <1>6, ReserveBlocks
<1>8. /\ MakeNextRsvp(s, e, name) = new
      /\ Cardinality(lms) = TopologyTbl[name].num_lm
      /\ Cardinality(dscs) = TopologyTbl[name].num_comp_enc
  <2>1. r.topology = TopologyTbl[name]
    BY DEF Requirements
  <2> HIDE DEF r
  <2> QED
    BY <2>1 DEF MakeNextRsvp, r
<1> HIDE DEF lms, linked, s1, s2, places, cdms, s3, dscs, new, r
<1>9. PICK others \in SUBSET (ToSet(CtlList) \cup ToSet(CdmList)) :
         BlocksOf(new, e) = (linked \cup others) \cup dscs
  <2>1. PICK ctls \in SUBSET ToSet(CtlList) : BlocksOf(s2, e) = linked \cup ctls
    BY <1>3
  <2>2. BlocksOf(new, e) = (linked \cup (ctls \cup cdms)) \cup dscs
    BY <1>5, <1>7, <2>1
  <2>3. ctls \cup cdms \in SUBSET (ToSet(CtlList) \cup ToSet(CdmList))
    BY <1>4
  <2> QED
    BY <2>2, <2>3
<1>10. /\ linked \cap ToSet(LmList) = lms /\ linked \cap ToSet(DscList) = {}
       /\ \A lm \in lms : Connected(lm) \subseteq linked
  BY <1>1, RmAssumption DEF linked
<1>11. /\ BlocksOf(new, e) \cap ToSet(LmList) = lms
       /\ BlocksOf(new, e) \cap ToSet(DscList) = dscs
       /\ \A lm \in lms : Connected(lm) \subseteq BlocksOf(new, e)
  BY <1>6, <1>9, <1>10, RmAssumption
<1> QED
  BY <1>8, <1>11 DEF Fits

LEMMA GivenOthers ==
  ASSUME NEW s, NEW u, NEW e \in Display, Given(s, u, e), NEW d \in Display, d # e
  PROVE  BlocksOf(u, d) = BlocksOf(s, d)
BY RmAssumption DEF Given, BlocksOf

LEMMA FitsSame ==
  ASSUME NEW s, NEW u, NEW d, NEW top, BlocksOf(s, d) = BlocksOf(u, d), Fits(s, d, top)
  PROVE  Fits(u, d, top)
BY DEF Fits

\* The topology of a display once the modes are set.
After(modes, d) == IF d \in DOMAIN modes THEN modes[d] ELSE topology[d]

\* The i-th display after n turns: it had its turn, or waits for it with
\* nothing reserved.
Turned(modes, s, n, i) ==
    LET d == Displays[i] IN
    /\ d \notin DOMAIN modes => BlocksOf(s, d) = BlocksOf(rsvp, d)
    /\ d \in DOMAIN modes /\ (modes[d] = None \/ i > n) => BlocksOf(s, d) = {}
    /\ d \in DOMAIN modes /\ modes[d] # None /\ i <= n => Fits(s, d, modes[d])

LEMMA RmStepTurned ==
  ASSUME NEW modes, NEW s \in State, NEW n \in 1 .. Len(Displays),
         RmStep(modes, s, Displays[n]) # None,
         \A i \in 1 .. Len(Displays) : Turned(modes, s, n - 1, i),
         NEW i \in 1 .. Len(Displays)
  PROVE  Turned(modes, RmStep(modes, s, Displays[n]), n, i)
<1> DEFINE d == Displays[n]
           u == RmStep(modes, s, d)
<1>1. /\ d \in Display /\ Displays[i] \in Display /\ (i # n => Displays[i] # d)
      /\ n \in Nat /\ i \in Nat
  BY DisplaysInOrder, AtomicAssumption DEF IsInjective
<1>2. (i > n => i > n - 1) /\ (i <= n /\ i # n => i <= n - 1) /\ (i = n => i > n - 1 /\ i <= n)
  BY <1>1
<1>3. Turned(modes, s, n - 1, i)
  OBVIOUS
<1>4. CASE d \notin DOMAIN modes \/ modes[d] = None
  <2>1. u = s
    BY <1>4 DEF RmStep
  <2> QED
    BY <1>1, <1>2, <1>3, <1>4, <2>1 DEF Turned
<1>5. CASE d \in DOMAIN modes /\ modes[d] # None
  <2>1. CASE s = None
    <3>1. u = s
      BY <2>1 DEF RmStep
    <3> QED
      BY <2>1, <3>1
  <2>2. CASE s # None
    <3>1. u = MakeNextRsvp(s, d, modes[d]) /\ u # None
      BY <1>5, <2>2 DEF RmStep
    <3>2. Given(s, u, d)
      BY <1>1, <3>1, MakeNextRsvpGiven
    <3>3. CASE i = n
      <4>1. BlocksOf(s, d) = {}
        BY <1>2, <1>3, <1>5, <3>3 DEF Turned
      <4>2. Fits(u, d, modes[d])
        BY <1>1, <1>5, <3>1, <4>1, MakeNextRsvpFits
      <4> QED
        BY <1>1, <1>5, <3>3, <4>2 DEF Turned
    <3>4. CASE i # n
      <4>1. BlocksOf(u, Displays[i]) = BlocksOf(s, Displays[i])
        BY <1>1, <3>2, <3>4, GivenOthers
      <4> HIDE DEF u
      <4>2. \A top : Fits(s, Displays[i], top) => Fits(u, Displays[i], top)
        BY <4>1, FitsSame
      <4>3. Turned(modes, u, n, i)
        BY <1>1, <1>2, <1>3, <3>4, <4>1, <4>2 DEF Turned
      <4> QED
        BY <4>3 DEF u
    <3> QED
      BY <3>3, <3>4
  <2> QED
    BY <2>1, <2>2
<1> QED
  BY <1>4, <1>5

LEMMA RmCheckFits ==
  ASSUME rsvp \in State, RsvpFits, NEW modes, DOMAIN modes \subseteq Display,
         RmCheck(modes) # None
  PROVE  \A d \in Display : Fits(RmCheck(modes), d, After(modes, d))
<1> DEFINE L == Len(Displays)
<1>1. PICK upto : RmRun(modes, upto)
  BY RmCheckRuns
<1> DEFINE T == {n \in 0 .. L : upto[n] # None => \A i \in 1 .. L : Turned(modes, upto[n], n, i)}
<1>2. L \in Nat /\ \A i \in 1 .. L : Displays[i] \in Display
  BY DisplaysInOrder
<1>3. 0 \in T
  <2>1. upto[0] = ReleaseRsvp(rsvp, DOMAIN modes)
    BY <1>1 DEF RmRun
  <2>2. ASSUME NEW i \in 1 .. L PROVE Turned(modes, upto[0], 0, i)
    <3>1. ~(i <= 0)
      BY <1>2
    <3>2. Displays[i] \in Display
      BY <1>2
    <3>3. Displays[i] \in DOMAIN modes => BlocksOf(upto[0], Displays[i]) = {}
      BY <2>1, <3>2, RmAssumption DEF ReleaseRsvp, BlocksOf
    <3>4. Displays[i] \notin DOMAIN modes
            => BlocksOf(upto[0], Displays[i]) = BlocksOf(rsvp, Displays[i])
      BY <2>1, <3>2, RmAssumption DEF ReleaseRsvp, BlocksOf
    <3> QED
      BY <3>1, <3>3, <3>4 DEF Turned
  <2> QED
    BY <1>2, <2>2
<1>4. ASSUME NEW n \in 1 .. L, n - 1 \in T PROVE n \in T
  <2>1. n \in 0 .. L /\ n - 1 \in 0 .. L
    BY <1>2
  <2>2. upto[n] = RmStep(modes, upto[n - 1], Displays[n])
    BY <1>1 DEF RmRun
  <2>3. ASSUME upto[n] # None, NEW i \in 1 .. L PROVE Turned(modes, upto[n], n, i)
    <3>1. upto[n - 1] # None
      BY <2>2, <2>3 DEF RmStep
    <3>2. upto[n - 1] \in State
      BY <1>1, <2>1, <3>1, RmRunChecked DEF Checked
    <3>3. \A j \in 1 .. L : Turned(modes, upto[n - 1], n - 1, j)
      BY <1>4, <3>1
    <3> QED
      BY <2>2, <2>3, <3>2, <3>3, RmStepTurned
  <2> QED
    BY <2>1, <2>3
<1>5. L \in T
  <2> HIDE DEF T, L
  <2> QED
    BY <1>2, <1>3, <1>4, ReachesLast
<1>6. upto[L] = RmCheck(modes)
  BY <1>1 DEF RmRun
<1>7. ASSUME NEW d \in Display PROVE Fits(RmCheck(modes), d, After(modes, d))
  <2>1. PICK i \in 1 .. L : Displays[i] = d
    BY AtomicAssumption, DisplaysInOrder DEF ToSet
  <2>2. Turned(modes, RmCheck(modes), L, i) /\ i <= L
    BY <1>2, <1>5, <1>6
  <2>3. CASE d \notin DOMAIN modes
    <3>1. BlocksOf(RmCheck(modes), d) = BlocksOf(rsvp, d) /\ Fits(rsvp, d, topology[d])
      BY <2>1, <2>2, <2>3 DEF Turned, RsvpFits
    <3> QED
      BY <2>3, <3>1, FitsSame DEF After
  <2>4. CASE d \in DOMAIN modes /\ modes[d] = None
    BY <2>1, <2>2, <2>4 DEF Turned, After, Fits
  <2>5. CASE d \in DOMAIN modes /\ modes[d] # None
    BY <2>1, <2>2, <2>5 DEF Turned, After
  <2> QED
    BY <2>3, <2>4, <2>5
<1> QED
  BY <1>7

\* The reservation that a caller is going to swap in fits as well.
Reserved ==
    /\ RsvpFits
    /\ \A t \in Caller : Prepared(t) /\ DOMAIN commit[t].modes # {} =>
         \A d \in Display : Fits(commit[t].rm, d, After(commit[t].modes, d))

LEMMA ReservedStep ==
  ASSUME IInv, Reserved, [Next]_vars
  PROVE  Reserved'
<1> USE DEF IInv
<1>1. ASSUME UNCHANGED <<topology, rsvp>>,
             \A t \in Caller : Prepared(t)' => Prepared(t) /\ commit'[t] = commit[t]
      PROVE  Reserved'
  <2>1. RsvpFits'
    <3>1. RsvpFits /\ UNCHANGED <<topology, rsvp>>
      BY <1>1 DEF Reserved
    <3> QED
      BY <3>1 DEF RsvpFits, Fits, BlocksOf
  <2>2. ASSUME NEW t \in Caller, Prepared(t)', DOMAIN commit'[t].modes # {}, NEW d \in Display
        PROVE  Fits(commit[t].rm, d, After(commit[t].modes, d))'
    <3>1. Prepared(t) /\ commit'[t] = commit[t]
      BY <1>1, <2>2
    <3>2. Fits(commit[t].rm, d, After(commit[t].modes, d))
      BY <2>2, <3>1 DEF Reserved
    <3> QED
      BY <1>1, <3>1, <3>2 DEF Fits, After, BlocksOf
  <2> QED
    BY <2>1, <2>2 DEF Reserved
<1>2. ASSUME NEW t \in Caller, Check(t) PROVE Reserved'
  <2>1. PICK k : k = commit'[t]
    OBVIOUS
  <2>2. /\ k.modes \in ModeSets /\ k.rm = RmCheck(k.modes) /\ RmCheck(k.modes) # None
        /\ UNCHANGED <<topology, rsvp>>
        /\ \A o \in Caller \ {t} : (Prepared(o)' <=> Prepared(o)) /\ commit'[o] = commit[o]
    BY <1>2, <2>1, CheckFits DEF CallerOnly, swstate, Prepared, TypeOK, Records
  <2>3. RsvpFits'
    <3>1. RsvpFits /\ UNCHANGED <<topology, rsvp>>
      BY <2>2 DEF Reserved
    <3> QED
      BY <3>1 DEF RsvpFits, Fits, BlocksOf
  <2>4. \A d \in Display : Fits(k.rm, d, After(k.modes, d))
    <3>1. DOMAIN k.modes \subseteq Display
      BY <2>2 DEF ModeSets, PartialFunctions
    <3> QED
      BY <2>2, <3>1, RmCheckFits DEF TypeOK, Reserved
  <2>5. ASSUME NEW o \in Caller, Prepared(o)', DOMAIN commit'[o].modes # {}, NEW d \in Display
        PROVE  Fits(commit[o].rm, d, After(commit[o].modes, d))'
    <3>1. CASE o = t
      <4>1. commit'[o] = k /\ UNCHANGED topology /\ Fits(k.rm, d, After(k.modes, d))
        BY <2>1, <2>2, <2>4, <3>1
      <4> QED
        BY <4>1 DEF Fits, After, BlocksOf
    <3>2. CASE o # t
      <4>1. Prepared(o) /\ commit'[o] = commit[o]
        BY <2>2, <2>5, <3>2
      <4>2. Fits(commit[o].rm, d, After(commit[o].modes, d))
        BY <2>5, <4>1 DEF Reserved
      <4> QED
        BY <2>2, <4>1, <4>2 DEF Fits, After, BlocksOf
    <3> QED
      BY <3>1, <3>2
  <2> QED
    BY <2>3, <2>5 DEF Reserved
<1>3. ASSUME NEW t \in Caller, SwapAndDispatch(t) PROVE Reserved'
  <2>1. PICK k : k = commit[t]
    OBVIOUS
  <2>2. /\ Prepared(t) /\ ~Prepared(t)' /\ call[t] # "idle"
        /\ \A o \in Caller \ {t} : (Prepared(o)' <=> Prepared(o)) /\ commit'[o] = commit[o]
    BY <1>3 DEF SwapAndDispatch, Prepared, TypeOK, Records
  <2>3. CASE DOMAIN k.modes = {}
    <3>1. UNCHANGED <<topology, rsvp>>
      BY <1>3, <2>1, <2>3 DEF SwapAndDispatch, TypeOK
    <3> QED
      BY <1>1, <2>2, <3>1
  <2>4. CASE DOMAIN k.modes # {}
    <3>1. rsvp' = k.rm /\ \A d \in Display : topology'[d] = After(k.modes, d)
      BY <1>3, <2>1, <2>4 DEF SwapAndDispatch, After
    <3>2. \A d \in Display : Fits(k.rm, d, After(k.modes, d))
      BY <2>1, <2>2, <2>4 DEF Reserved
    <3>3. RsvpFits'
      BY <3>1, <3>2 DEF RsvpFits, Fits, BlocksOf
    <3>4. ASSUME NEW o \in Caller, Prepared(o)' PROVE DOMAIN commit'[o].modes = {}
      <4>1. o # t /\ Prepared(o) /\ commit'[o] = commit[o]
        BY <2>2, <3>4
      <4>2. Held(t) \cap Held(o) = {}
        BY <4>1 DEF Control, Locked
      <4> QED
        BY <2>1, <2>2, <2>4, <4>1, <4>2 DEF Held, Locks, Prepared
    <3> QED
      BY <3>3, <3>4 DEF Reserved
  <2> QED
    BY <2>3, <2>4
<1>4. ASSUME NEW t \in Caller, StartAtomic(t) \/ Interrupted(t) \/ Flushed(t) PROVE Reserved'
  <2>1. UNCHANGED <<topology, rsvp>>
    BY <1>4 DEF StartAtomic, Interrupted, Flushed, swstate
  <2>2. \A o \in Caller : Prepared(o)' => Prepared(o) /\ commit'[o] = commit[o]
    BY <1>4 DEF StartAtomic, Interrupted, Flushed, Prepared, TypeOK, Records
  <2> QED
    BY <1>1, <2>1, <2>2
<1>5. ASSUME NEW d \in Display, ThreadStep(d) PROVE Reserved'
  <2>1. UNCHANGED <<topology, rsvp, call, commit>>
    BY <1>5 DEF ThreadStep, Dequeue, FirstGetHw, NextGetHw, LoseList, CommitPlanes,
       EndAtomic,
                callers, swstate
  <2> QED
    BY <1>1, <2>1 DEF Prepared
<1>6. CASE UNCHANGED vars
  BY <1>1, <1>6 DEF vars, Prepared
<1> QED
  BY <1>2, <1>3, <1>4, <1>5, <1>6 DEF Next, CallerStep

\* A display that is on has the mixers and compressors its topology asks for,
\* and one that is off has none (_sde_rm_make_next_rsvp).
THEOREM AtomicRsvpFits == Spec => []RsvpFits
<1>1. Init => Reserved
  <2> SUFFICES ASSUME Init PROVE Reserved
    OBVIOUS
  <2>1. ASSUME NEW d \in Display PROVE BlocksOf(rsvp, d) = {} /\ topology[d] = None
    BY RmAssumption DEF Init, BlocksOf
  <2>2. \A t \in Caller : ~Prepared(t)
    BY DEF Init, Prepared
  <2> QED
    BY <2>1, <2>2 DEF Reserved, RsvpFits, Fits
<1>2. IInv /\ Reserved /\ [Next]_vars => Reserved'
  BY ReservedStep
<1>3. Reserved => RsvpFits
  BY DEF Reserved
<1> QED
  BY <1>1, <1>2, <1>3, Inductive, PTL DEF Spec
=============================================================================
