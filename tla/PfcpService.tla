---------------------------- MODULE PfcpService ----------------------------
(***************************************************************************)
(* What the PFCP transactions of the UPF promise, whatever the network     *)
(* loses, repeats or delays: a request of the peer is handled at most      *)
(* once, the peer is answered only for a handled request, and a request of *)
(* the UPF ends exactly once, answered or given up, and is not given up    *)
(* when its answer has been received.                                      *)
(***************************************************************************)
EXTENDS Naturals

CONSTANTS Reqs,  \* sequence numbers of the peer's requests
          Rpts   \* numbers of the UPF's own requests

VARIABLES served,   \* how often each request of the peer was handled
          got,      \* the requests whose answer the peer has
          outcome,  \* of each request of the UPF
          received  \* the requests of the UPF whose answer it has received

svars == <<served, got, outcome, received>>

Init == /\ served = [s \in Reqs |-> 0]
        /\ got = {}
        /\ outcome = [i \in Rpts |-> "none"]
        /\ received = {}

Serve(s) == /\ served[s] = 0
            /\ served' = [served EXCEPT ![s] = 1]
            /\ UNCHANGED <<got, outcome, received>>

Reply(s) == /\ served[s] = 1
            /\ got' = got \cup {s}
            /\ UNCHANGED <<served, outcome, received>>

Ask(i) == /\ outcome[i] = "none"
          /\ outcome' = [outcome EXCEPT ![i] = "open"]
          /\ UNCHANGED <<served, got, received>>

Receive(i) == /\ outcome[i] # "none"
              /\ received' = received \cup {i}
              /\ outcome' = [outcome EXCEPT ![i] = IF @ = "open" THEN "answered" ELSE @]
              /\ UNCHANGED <<served, got>>

GiveUp(i) == /\ outcome[i] = "open"
             /\ outcome' = [outcome EXCEPT ![i] = "gaveup"]
             /\ UNCHANGED <<served, got, received>>

Next == \/ \E s \in Reqs : Serve(s) \/ Reply(s)
        \/ \E i \in Rpts : Ask(i) \/ Receive(i) \/ GiveUp(i)

Spec == Init /\ [][Next]_svars
=============================================================================
