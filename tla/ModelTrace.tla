----------------------------- MODULE ModelTrace -----------------------------
(***************************************************************************)
(* One exchange with the local model (src/finauditgate/adapters/ollama.py, *)
(* ollama_trace.py, ollama_contract.py), the trace that keeps its bytes,   *)
(* and the offline verification of a trace (core/model_trace.py).          *)
(*                                                                         *)
(* A response is how the exchange ended; one whose content is a JSON       *)
(* object proposes something.  Hashes are injective: a receipt, which      *)
(* mirrors its trace and names it by its hash, is modelled by the trace.   *)
(* What else tells two traces apart (elapsed_ns) is left out.              *)
(***************************************************************************)
EXTENDS ProfileChecks

CONSTANTS
    Task,      \* records [id, document, mode, faults]; the id need not tell two apart
    Proposal,  \* records [name, candidate, speakable, fits]
    End,       \* how an exchange may end short of content: refused, cut, not JSON
    None

\* A proposal is in the contract's closed vocabulary (speakable), or only a
\* scripted adapter can make it; it is within the limits of a snapshot or not.
ASSUME ProposalAssumption ==
    \A p \in Proposal :
        /\ p # None
        /\ p.candidate \in Candidate \union {None}
        /\ p.speakable \in BOOLEAN /\ p.fits \in BOOLEAN
        /\ p.speakable => p.candidate # None

Response == [end : End, proposal : {None}] \union [end : {"content"}, proposal : Proposal]

\* inspect_captured_response(): a candidate or a failure code.
InspectedFailure(response) ==
    IF response.end # "content" THEN response.end
    ELSE IF response.proposal.speakable THEN None ELSE "contract"

InspectedProposal(response) ==
    IF InspectedFailure(response) = None THEN response.proposal ELSE None

\* chat_request(): the prompt names neither the document's source nor the
\* profile that the answer is held against.
Request(task, attempt) == <<[task EXCEPT !.faults = @ \ {"source", "unanswerable"}], attempt>>

\* write_model_trace()
TraceOf(task, attempt, response) ==
    [task |-> task.id, attempt |-> attempt, request |-> Request(task, attempt), response |-> response,
     failure |-> InspectedFailure(response), derived |-> InspectedProposal(response)]

\* verify_raw_model_trace(), by a gate that has the trace root.
TraceVerifies(traces, receipt, task, attempt, proposal, failure) ==
    /\ receipt.task = task.id /\ receipt.attempt = attempt
    /\ receipt \in traces
    /\ receipt.request = Request(task, attempt)
    /\ receipt.failure = failure /\ receipt.derived = proposal
    /\ InspectedFailure(receipt.response) = failure
    /\ InspectedProposal(receipt.response) = proposal
    /\ (failure = None) # (proposal = None)
=============================================================================
