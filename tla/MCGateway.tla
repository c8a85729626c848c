------------------------------ MODULE MCGateway -------------------------------
(* Three payments name one invoice of 3, which the first two over-settle; the *)
(* first is reported by two events, the third by a payer nobody knows.        *)
EXTENDS Gateway, TLC

CONSTANTS i1, p1, p2, p3, e1, e2, e3, e4

MCGross == i1 :> 3
MCAmount == p1 :> 1 @@ p2 :> 3 @@ p3 :> 2
MCBill == p1 :> i1 @@ p2 :> i1 @@ p3 :> i1
MCAbout == e1 :> p1 @@ e2 :> p1 @@ e3 :> p2 @@ e4 :> p3

ASSUME Parameters ==
  GrossAssumption /\ PaymentAssumption /\ EventAssumption /\ SessionAssumption
=============================================================================
