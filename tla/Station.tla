------------------------------ MODULE Station -------------------------------
(***************************************************************************)
(* The cells that hold the state of the part of the station that runs.     *)
(* StationParts and StationPaths put the parts over them, as instances;    *)
(* MCStation lets one of the parts run.                                    *)
(***************************************************************************)
EXTENDS Naturals, Integers, Sequences

VARIABLES
    c1, c2, c3, c4, c5, c6, c7, c8, c9, c10, c11, c12, c13, c14

\* Cells that a part does not use are zero and stay so.
Zero14 == c14 = 0
Zero13 == c13 = 0 /\ Zero14
Zero12 == c12 = 0 /\ Zero13
Zero11 == c11 = 0 /\ Zero12
Zero10 == c10 = 0 /\ Zero11
Zero9 == c9 = 0 /\ Zero10
Zero8 == c8 = 0 /\ Zero9
Zero7 == c7 = 0 /\ Zero8
Zero6 == c6 = 0 /\ Zero7
Zero5 == c5 = 0 /\ Zero6
Zero4 == c4 = 0 /\ Zero5
Still14 == UNCHANGED c14
Still13 == UNCHANGED c13 /\ Still14
Still12 == UNCHANGED c12 /\ Still13
Still11 == UNCHANGED c11 /\ Still12
Still10 == UNCHANGED c10 /\ Still11
Still9 == UNCHANGED c9 /\ Still10
Still8 == UNCHANGED c8 /\ Still9
Still7 == UNCHANGED c7 /\ Still8
Still6 == UNCHANGED c6 /\ Still7
Still5 == UNCHANGED c5 /\ Still6
Still4 == UNCHANGED c4 /\ Still5
=============================================================================
