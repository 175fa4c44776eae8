---------------------------- MODULE TokenBuckets ----------------------------
(***************************************************************************)
(* What the HTTP API promises with requests_per_second and burst: every    *)
(* address has one bucket of tokens for ever, refilled with time; a        *)
(* request is let through for a token and refused only when there is none. *)
(***************************************************************************)
EXTENDS Integers

CONSTANTS IPs, Burst, Rate

VARIABLES
    bucket,     \* address -> tokens
    served,     \* address -> requests let through
    refused     \* address -> requests refused

vars == <<bucket, served, refused>>

Least(m, n) == IF m <= n THEN m ELSE n

Init ==
    /\ bucket = [ip \in IPs |-> Burst]
    /\ served = [ip \in IPs |-> 0]
    /\ refused = [ip \in IPs |-> 0]

Serve(ip) ==
    /\ bucket[ip] > 0
    /\ bucket' = [bucket EXCEPT ![ip] = @ - 1]
    /\ served' = [served EXCEPT ![ip] = @ + 1]
    /\ UNCHANGED refused

Refuse(ip) ==
    /\ bucket[ip] = 0
    /\ refused' = [refused EXCEPT ![ip] = @ + 1]
    /\ UNCHANGED <<bucket, served>>

Refill ==
    /\ bucket' = [ip \in IPs |-> Least(Burst, bucket[ip] + Rate)]
    /\ UNCHANGED <<served, refused>>

Next == Refill \/ \E ip \in IPs : Serve(ip) \/ Refuse(ip)

Spec == Init /\ [][Next]_vars
=============================================================================
