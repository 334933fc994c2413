---------------------------- MODULE MCMsmAtomic ----------------------------
(* Instances of MsmAtomic for TLC: two displays, three mixers of which two *)
(* are peers and one has a DSPP, two CTLs and a plane that may move.       *)
EXTENDS MsmAtomic

CONSTANTS d1, d2, t1, t2, p1, l1, l2, l3, g1, g2, g3, q1, k1, k2

Lm(pp, dspp, pair) == [pp |-> pp, dspp |-> dspp, ds |-> None, pair |-> pair, pref |-> FALSE]
Lms == <<l1, l2, l3>>
Mixers == (l1 :> Lm(g1, None, {l2})) @@ (l2 :> Lm(g2, None, {l1})) @@ (l3 :> Lm(g3, q1, {}))

Ctls == <<k1, k2>>
Ctl(split) == [split |-> split, pref |-> FALSE]
CtlsPlain == (k1 :> Ctl(FALSE)) @@ (k2 :> Ctl(FALSE))

Topology(lms) == [num_lm |-> lms, num_ctl |-> 1, num_comp_enc |-> 0, needs_split_display |-> FALSE]
Tops == [single |-> Topology(1), merge |-> Topology(2)]

Order == <<d1, d2>>
NoDsc == <<>>
NoPairs == <<>>
=============================================================================
