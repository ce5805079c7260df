------------------------------ MODULE MCBringUp ------------------------------
(***************************************************************************)
(* Model values for BringUp: brands of each kind (Copley in position mode, *)
(* JingZhi, one without a driver, one unknown) and chassis of one, two and *)
(* four wheels; heap bytes that are and that are not one of the brands.    *)
(***************************************************************************)
EXTENDS BringUp

MCConfigs ==
  {[brand |-> 5, type |-> 8], [brand |-> 5, type |-> 1],
   [brand |-> 12, type |-> 4], [brand |-> 2, type |-> 8],
   [brand |-> 6, type |-> 1], [brand |-> 0, type |-> 0]}

==============================================================================
