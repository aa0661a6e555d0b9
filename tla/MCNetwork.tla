------------------------------ MODULE MCNetwork ------------------------------
(***************************************************************************)
(* One run for the calls of a network and for a streamed response.  They   *)
(* share no state: a behaviour either opens a stream, with the network     *)
(* closed to calls, or makes calls.                                        *)
(***************************************************************************)
EXTENDS NetworkClient, ResponseStream

NoStream ==
    /\ producer = "ended" /\ reader = "ended"
    /\ queue = <<>> /\ aclosed = FALSE /\ closing = FALSE /\ got = "nothing"

MCInit == (Init /\ NoStream) \/ (InitWith(TRUE) /\ StreamInit)

MCNext == (Next /\ UNCHANGED streamVars) \/ (StreamNext /\ UNCHANGED vars)

MCSpec ==
    MCInit /\ [][MCNext]_<<vars, streamVars>> /\ Fairness /\ StreamFairness
=============================================================================
