---------------------------- MODULE MCCongestion ----------------------------
(***************************************************************************)
(* The three parts of congestion control, checked side by side: the window *)
(* (Congestion), the pacer (Pacing) and the round-trip estimates           *)
(* (RttEstimator).  Window and estimates reach the pacer only as its rate, *)
(* which Pacing takes as any, and the estimates reach the window only as   *)
(* the age at which a packet is lost, which Congestion takes as any: so    *)
(* each is explored by itself.  A behaviour chooses one of them and leaves *)
(* the variables of the others alone.                                      *)
(***************************************************************************)
EXTENDS Congestion, Pacing, RttEstimator, TLC

VARIABLE part

allVars == <<vars, pacingVars, rttVars, part>>

MCInit ==
    /\ part \in {"window", "pacer", "rtt"}
    /\ Init /\ PacingInit /\ RttInit

MCNext ==
    \/ part = "window" /\ Next /\ UNCHANGED <<pacingVars, rttVars, part>>
    \/ part = "pacer" /\ PacingNext /\ UNCHANGED <<vars, rttVars, part>>
    \/ part = "rtt" /\ RttNext /\ UNCHANGED <<vars, pacingVars, part>>

MCSpec == MCInit /\ [][MCNext]_allVars

Symmetry == Permutations(Writers)

=============================================================================
