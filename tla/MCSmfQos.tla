------------------------------ MODULE MCSmfQos ------------------------------
(* Instances of SmfQos: a rule of an app session has a QoS datum of its own;
   the rules of the first decision may share one.                            *)
EXTENDS SmfQos

CONSTANTS SharedQos   \* the QoS datum of all InitRules but DefRule

\* rule n of an app session refers to QoS datum n
MCRefQos == [r \in Rules |->
    IF r \in AfRules THEN r
    ELSE IF r \in InitRules /\ r # DefRule THEN SharedQos ELSE NoQos]

MCInitQos == [q \in Qos |-> IF q = SharedQos /\ InitRules \ {DefRule} # {}
                            THEN Min(Rates) ELSE 0]

=============================================================================
