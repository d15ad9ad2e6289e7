---------------------------- MODULE MCAuditGate ----------------------------
(***************************************************************************)
(* AuditGate for TLC: two processes, one of them private, and one proposal *)
(* for each way a proposal can be handled.                                 *)
(***************************************************************************)
EXTENDS AuditGate, TLC

CandidateOf(item, calculation) == [items |-> <<{}, item>>, calculation |-> calculation]

Right == [name |-> "right", candidate |-> CandidateOf({}, {}), speakable |-> TRUE, fits |-> TRUE]
Misused ==
    [name |-> "misused", candidate |-> CandidateOf({"value"}, {"operation"}), speakable |-> TRUE, fits |-> TRUE]
Endless == [name |-> "endless", candidate |-> CandidateOf({}, {}), speakable |-> TRUE, fits |-> FALSE]
Malformed == [name |-> "malformed", candidate |-> None, speakable |-> FALSE, fits |-> TRUE]

MCProposal == {Right, Misused, Endless}
UnfitProposal == {Right, Endless, Malformed}

MCTask == {
    [id |-> "task", document |-> "aurora", mode |-> "SYNTHETIC_DEV", faults |-> {}],
    [id |-> "task", document |-> "aurora", mode |-> "SYNTHETIC_DEV", faults |-> {"late"}],
    [id |-> "task", document |-> "filing", mode |-> "PRIVATE_DEV", faults |-> {}],
    [id |-> "task", document |-> "filing", mode |-> "PRIVATE_DEV", faults |-> {"unanswerable"}]}
=============================================================================
