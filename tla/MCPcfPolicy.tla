----------------------------- MODULE MCPcfPolicy ------------------------------
EXTENDS PcfPolicy, TLC

CONSTANTS w1, w2

Symmetry == Permutations(Workers)

MCAggregate == [ul |-> 3, dl |-> 3]

\* Both directions; one of its flows, without a GBR; no flows.
MCMatched ==
    {[flows |-> {"u1", "d1"}, qi |-> 2, min |-> [ul |-> 2, dl |-> 2], max |-> [ul |-> 3, dl |-> 3]],
     [flows |-> {"d1"},       qi |-> 2, min |-> [ul |-> 0, dl |-> 0], max |-> [ul |-> 0, dl |-> 2]],
     [flows |-> {},           qi |-> 2, min |-> [ul |-> 0, dl |-> 0], max |-> [ul |-> 0, dl |-> 0]]}

\* Components as in docs/evidence/qod-uplink-20mbps: a downlink flow, rates for both directions.
MCDownlinkOnly ==
    {[flows |-> {f}, qi |-> 2, min |-> [ul |-> 2, dl |-> 1], max |-> [ul |-> 3, dl |-> 3]] :
       f \in {"d1", "d2"}}

MCUeQos ==
    {[flows |-> {"u3"}, qi |-> 1, min |-> [ul |-> 2, dl |-> 1]],
     [flows |-> {"u3"}, qi |-> 9, min |-> [ul |-> 2, dl |-> 1]]}

================================================================================
