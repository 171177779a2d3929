---------------------------- MODULE MCProofLedger ----------------------------
(***************************************************************************)
(* Instances of ProofLedger for TLC: two shipments of one parcel in one    *)
(* week and a later one, and a dated offer.                                *)
(***************************************************************************)
EXTENDS ProofLedger

CONSTANTS m1, m2, m3, m4

ParcelAndOffer == [m \in Messages |-> IF m = m4 THEN "promotion" ELSE "shipment"]
Weeks == [m \in Messages |-> IF m = m3 THEN 2 ELSE 1]

Parcel == {m1, m2, m3}

Verdict(action, hard) == [action |-> action, hard |-> hard]

MixedVerdicts == [m \in Messages |->
    IF m = m4 THEN {Verdict("keep", FALSE), Verdict("review", FALSE), Verdict("review", TRUE),
                    Verdict("quarantine", FALSE)}
    ELSE {Verdict("review", FALSE)}]
=============================================================================
