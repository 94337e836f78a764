---------------------------- MODULE MCBackoffice ----------------------------
(***************************************************************************)
(* An instance of Backoffice for TLC: two contracts, whose readings differ *)
(* in rates and conflicts; one reading lacks everything it may lack, one   *)
(* has a share that is rounded up.                                         *)
(***************************************************************************)
EXTENDS Backoffice

CONSTANTS drama, comedy

Reading(shares, fees, profits, conflicts) ==
    [regionSplit |-> shares, fees |-> fees, profitSplits |-> profits,
     conflicts |-> conflicts]
Half == <<[theater |-> 50000, distributor |-> 50000]>>
Third == <<[theater |-> 33335, distributor |-> 66665]>>

MCReadings(c) ==
    IF c = drama THEN {Reading(Half, <<10000>>, <<60000>>, 0), Reading(Third, <<10000>>, <<>>, 2)}
    ELSE {Reading(<<>>, <<>>, <<>>, 0)}
=============================================================================
