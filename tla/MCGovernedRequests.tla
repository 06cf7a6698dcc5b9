------------------------ MODULE MCGovernedRequests ------------------------
(* Small instances of GovernedRequests for TLC. *)
EXTENDS GovernedRequests, TLC

CONSTANTS o1, o2

Rules(paid, read, network, limit) ==
    [rule |-> [paid_service_call |-> paid, public_network_read |-> read], network |-> network,
     budgetHardLimit |-> limit]

\* Policies that differ in what they say of paid calls and of public reads, and
\* in the limit: ThreePolicies ask for, allow and deny public reads.
ThreePolicies == {Rules("none", "none", "ask", NoLimit), Rules("deny", "allow", "deny", NoLimit),
                  Rules("allow", "none", "deny", 0)}
ManyPolicies == {Rules("allow", "none", "ask", 3), Rules("ask", "allow", "deny", 2),
                 Rules("none", "none", "deny", NoLimit), Rules("deny", "ask", "allow", 4)}

Free == [o \in {o1} |-> "public_network_read"]
BothPaid == [o \in {o1, o2} |-> "paid_service_call"]
===========================================================================
