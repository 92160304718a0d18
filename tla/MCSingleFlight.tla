---------------------------- MODULE MCSingleFlight ----------------------------
(* Three threads, two refreshes each: a burst of a leader with two         *)
(* followers, and a second burst that can overtake the first one's         *)
(* followers.                                                              *)
EXTENDS SingleFlight

CONSTANTS t1, t2, t3
ThreadsMC == {t1, t2, t3}

===============================================================================
