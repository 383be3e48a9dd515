----------------------------- MODULE MCCommands -----------------------------
(* Archives for the runs of TLC. *)
EXTENDS Commands, TLC

CONSTANTS a, b, broken, packed, kernel, kernel2, K, R

\* Two archives whose members have the same names, as those of two versions have;
\* one has two kernels, the other something else.
MCMember ==
    a :> <<[name |-> kernel2, area |-> {K}, kind |-> "short"],
           [name |-> kernel, area |-> {K}, kind |-> "data"]>>
    @@ b :> <<[name |-> kernel, area |-> {K}, kind |-> "data"],
              [name |-> kernel2, area |-> {R}, kind |-> "no data"]>>

\* The database knows the archives, not the files in them by their own names.
MCNoKey == {[base |-> kernel2, area |-> K]}
=============================================================================
