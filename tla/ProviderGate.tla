---------------------------- MODULE ProviderGate ----------------------------
(***************************************************************************)
(* Provider calls, their approvals and the circuit breaker                 *)
(* (provider_runtime.py, provider_policy.py, provider_transport.py).       *)
(*                                                                         *)
(* A process serves one request at a time, but a stream that has begun     *)
(* goes on beside the requests that follow.  The approvals are shared by   *)
(* the processes and claimed in one update; the circuits are in the memory *)
(* of a process.  Only the external provider needs an approval; any of     *)
(* them may need a network approval as well.                               *)
(***************************************************************************)
EXTENDS NetworkGate

CONSTANTS
    ProviderRequest,    \* [provider, host, ownUrl, stream, by, context, forced]
    ProviderId,         \* approvals
    Call,               \* calls
    CallAt,             \* CallAt[c]: the process that makes call c
    AllowedHosts,       \* AllowedHosts[provider]: hosts that the settings allow
    Credential,
    ProviderEnvironment,
    Threshold,          \* provider_circuit_breaker_failure_threshold
    MaxAttempts         \* provider_retry_max_attempts

ASSUME ProviderAssumption == None \notin ProviderId /\ Threshold \in Nat \ {0} /\ MaxAttempts \in Nat

VARIABLES
    providerApprovals,  \* the collection provider-approvals
    credential,         \* what the external provider's credential reference resolves to
    calls,              \* calls[c]: how far call c has come
    circuits,           \* circuits[p]: the breaker of the one endpoint modelled
    providerActs        \* history: how many calls an approval has let out

providerVars == <<providerApprovals, credential, calls, circuits, providerActs>>

Server == {CallAt[c] : c \in Call}

External(r) == r.provider = "external"

ClosedCircuit == [failures |-> 0, open |-> FALSE, cooled |-> FALSE, probe |-> FALSE]

NoCall == [pc |-> "idle", request |-> None, id |-> None, network |-> None,
           attempt |-> 1, probe |-> FALSE]

\* A stream that runs does not keep its process from serving requests.
Serving(p) == {c \in Call : CallAt[c] = p /\ calls[c].pc \notin {"idle", "streaming"}}

NetworkOf(r) ==
    [host |-> r.host, surface |-> "provider", by |-> r.by, context |-> r.context,
     action |-> IF r.stream THEN "stream" ELSE "generate"]

\* The external base URL on its own: asked without a request and its approval.
ExternalReady(r) ==
    /\ ~r.ownUrl
    /\ NetworkDecision([host |-> r.host, surface |-> "provider", action |-> "configuration",
                        by |-> None, context |-> NoContext]).mode # "blocked"
    /\ credential # None

ProviderBinding(r) == [request |-> r, credential |-> credential]

RequestProvider(id, r) ==
    /\ providerApprovals[id].status = "absent"
    /\ External(r)
    /\ TaskVerdict(r.context).allowed
    /\ ExternalReady(r)
    /\ providerApprovals' = [providerApprovals EXCEPT ![id] = NewApproval(ProviderBinding(r))]
    /\ UNCHANGED <<credential, calls, circuits, providerActs, networkVars>>

ApproveProvider(id) ==
    /\ Approvable(providerApprovals[id])
    /\ providerApprovals' = [providerApprovals EXCEPT ![id] = Decided(@, "approved")]
    /\ UNCHANGED <<credential, calls, circuits, providerActs, networkVars>>

DenyProvider(id) ==
    /\ Deniable(providerApprovals[id])
    /\ providerApprovals' = [providerApprovals EXCEPT ![id] = Decided(@, "denied")]
    /\ UNCHANGED <<credential, calls, circuits, providerActs, networkVars>>

ProviderExpires(id) ==
    /\ providerApprovals[id].status \in {"pending", "approved"}
    /\ ~providerApprovals[id].expired
    /\ providerApprovals' = [providerApprovals EXCEPT ![id].expired = TRUE]
    /\ UNCHANGED <<credential, calls, circuits, providerActs, networkVars>>

ProviderValid(id, r) ==
    /\ ExternalReady(r)
    /\ Claimable(providerApprovals[id], ProviderBinding(r))

\* validate_provider_base_url: a network approval exactly when one is needed.
Reachable(r, network) ==
    LET mode == NetworkDecision(NetworkOf(r)).mode
    IN  /\ r.host \in AllowedHosts[r.provider]
        /\ External(r) => ~r.ownUrl
        /\ \/ mode = "safe" /\ network = None
           \/ mode = "approval" /\ network # None /\ NetworkValid(network, NetworkOf(r))

\* What fails before there is a circuit key leaves no trace.
BeginCall(c, r, id, network) ==
    /\ calls[c].pc = "idle"
    /\ Serving(CallAt[c]) = {}
    /\ TaskVerdict(r.context).allowed
    /\ Reachable(r, network)
    /\ ~External(r) => id = None       \* the others ignore it
    /\ calls' = [calls EXCEPT ![c] =
           [NoCall EXCEPT !.pc = "circuit", !.request = r, !.id = id, !.network = network]]
    /\ UNCHANGED <<providerApprovals, credential, circuits, providerActs, networkVars>>

Goes(c, pc) == calls' = [calls EXCEPT ![c].pc = pc]

\* _raise_if_provider_circuit_open
PassCircuit(c) ==
    LET p == CallAt[c]
        probes == circuits[p].open /\ circuits[p].cooled /\ ~circuits[p].probe
    IN  /\ calls[c].pc = "circuit"
        /\ IF circuits[p].open /\ ~probes
           THEN calls' = [calls EXCEPT ![c] = NoCall] /\ UNCHANGED circuits
           ELSE /\ calls' = [calls EXCEPT ![c].pc = "authorize", ![c].probe = probes]
                /\ circuits' = [circuits EXCEPT ![p].probe = probes]
        /\ UNCHANGED <<providerApprovals, credential, providerActs, networkVars>>

\* Variant: the latch is only let go where the failure speaks of the provider.
AfterFailureLatched(circuit, failure) ==
    IF circuit.probe
    THEN IF failure = "other" THEN circuit ELSE [circuit EXCEPT !.probe = FALSE, !.cooled = FALSE]
    ELSE IF failure # "exhausted" THEN circuit
    ELSE [failures |-> Threshold, open |-> TRUE, cooled |-> FALSE, probe |-> FALSE]

\* _record_provider_failure: exhausted (retries or the rate limit), transport
\* (any other answer of the provider), left (the client of a stream), other.
AfterFailure(circuit, failure) ==
    IF circuit.probe
    THEN [circuit EXCEPT !.probe = FALSE,
                         !.cooled = IF failure = "other" THEN @ ELSE FALSE]
    ELSE IF failure # "exhausted" THEN circuit
    ELSE LET failures == IF circuit.failures < Threshold THEN circuit.failures + 1 ELSE Threshold
         IN  IF failures = Threshold
             THEN [failures |-> failures, open |-> TRUE, cooled |-> FALSE, probe |-> FALSE]
             ELSE [circuit EXCEPT !.failures = failures]

CallFails(c, failure) ==
    /\ calls' = [calls EXCEPT ![c] = NoCall]
    /\ circuits' = [circuits EXCEPT ![CallAt[c]] = AfterFailure(@, failure)]

\* Variant: a success only clears the count.
CallSucceedsHalfway(c) ==
    /\ calls' = [calls EXCEPT ![c] = NoCall]
    /\ circuits' = [circuits EXCEPT ![CallAt[c]].failures = 0]

CallSucceeds(c) ==
    /\ calls' = [calls EXCEPT ![c] = NoCall]
    /\ circuits' = [circuits EXCEPT ![CallAt[c]] = ClosedCircuit]

\* The approval is validated, and only then is the credential read.
AuthorizeCall(c) ==
    LET o == calls[c]
        allowed == \/ ~External(o.request)
                   \/ /\ \/ o.id # None /\ ProviderValid(o.id, o.request)
                         \/ o.id = None /\ o.request.forced /\ ProviderEnvironment = "development"
                      /\ credential # None
    IN  /\ o.pc = "authorize"
        /\ IF allowed THEN Goes(c, "claim") /\ UNCHANGED circuits ELSE CallFails(c, "other")
        /\ UNCHANGED <<providerApprovals, credential, providerActs, networkVars>>

ClaimProvider(c) ==
    LET o == calls[c]
    IN  /\ o.pc = "claim"
        /\ \/ /\ ~External(o.request) \/ o.id = None
              /\ Goes(c, "network")
              /\ UNCHANGED <<providerApprovals, circuits>>
           \/ /\ External(o.request) /\ o.id # None
              /\ ProviderValid(o.id, o.request)
              /\ providerApprovals' = [providerApprovals EXCEPT ![o.id] = Claimed(@)]
              /\ Goes(c, "network")
              /\ UNCHANGED circuits
           \/ /\ External(o.request) /\ o.id # None
              /\ ~ProviderValid(o.id, o.request)
              /\ CallFails(c, "other")
              /\ UNCHANGED providerApprovals
        /\ UNCHANGED <<credential, providerActs, networkVars>>

\* When this fails the provider approval is spent all the same.
ClaimCallNetwork(c) ==
    LET o == calls[c]
    IN  /\ o.pc = "network"
        /\ IF o.network = None
           THEN Goes(c, "send") /\ UNCHANGED <<circuits, networkApprovals>>
           ELSE IF Reachable(o.request, o.network)
           THEN Goes(c, "send") /\ ClaimNetwork(o.network, NetworkOf(o.request)) /\ UNCHANGED circuits
           ELSE CallFails(c, "other") /\ UNCHANGED networkApprovals
        /\ UNCHANGED <<providerApprovals, credential, providerActs, networkRules, networkEdit>>

\* One attempt of send_provider_json_request or open_provider_stream_request.
SendCall(c) ==
    LET o == calls[c]
    IN  /\ o.pc = "send"
        /\ \/ IF o.request.stream THEN Goes(c, "streaming") /\ UNCHANGED circuits
              ELSE CallSucceeds(c)
           \/ IF o.attempt < MaxAttempts      \* 429, 5xx, a timeout, no connection
              THEN calls' = [calls EXCEPT ![c].attempt = @ + 1] /\ UNCHANGED circuits
              ELSE CallFails(c, "exhausted")
           \/ CallFails(c, "transport")       \* another status, a malformed answer
           \/ CallFails(c, "other")           \* a redirect
        /\ providerActs' = IF o.id = None \/ o.attempt > 1 THEN providerActs
                           ELSE [providerActs EXCEPT ![o.id] = @ + 1]
        /\ UNCHANGED <<providerApprovals, credential, networkVars>>

\* _iter_provider_stream_events
EndStream(c) ==
    /\ calls[c].pc = "streaming"
    /\ CallSucceeds(c) \/ \E failure \in {"transport", "left", "other"} : CallFails(c, failure)
    /\ UNCHANGED <<providerApprovals, credential, providerActs, networkVars>>

CoolDown(p) ==
    /\ circuits[p].open /\ ~circuits[p].cooled
    /\ circuits' = [circuits EXCEPT ![p].cooled = TRUE]
    /\ UNCHANGED <<providerApprovals, credential, calls, providerActs, networkVars>>

\* The credential is revoked, or another one takes its place.
ChangeCredential ==
    /\ \E other \in (Credential \cup {None}) \ {credential} : credential' = other
    /\ UNCHANGED <<providerApprovals, calls, circuits, providerActs, networkVars>>

ProviderCrash(p) ==
    /\ \E c \in Call : CallAt[c] = p /\ calls[c].pc # "idle"
    /\ calls' = [c \in Call |-> IF CallAt[c] = p THEN NoCall ELSE calls[c]]
    /\ circuits' = [circuits EXCEPT ![p] = ClosedCircuit]
    /\ UNCHANGED <<providerApprovals, credential, providerActs, networkVars>>

ProviderInit ==
    /\ providerApprovals = [id \in ProviderId |-> NoApproval]
    /\ credential \in Credential
    /\ calls = [c \in Call |-> NoCall]
    /\ circuits = [p \in Server |-> ClosedCircuit]
    /\ providerActs = [id \in ProviderId |-> 0]

CallStep(c) ==
    \/ PassCircuit(c) \/ AuthorizeCall(c) \/ ClaimProvider(c) \/ ClaimCallNetwork(c)
    \/ SendCall(c) \/ EndStream(c)

ProviderNext ==
    \/ \E id \in ProviderId, r \in ProviderRequest : RequestProvider(id, r)
    \/ \E id \in ProviderId : ApproveProvider(id) \/ DenyProvider(id) \/ ProviderExpires(id)
    \/ \E c \in Call, r \in ProviderRequest, id \in ProviderId \cup {None},
          network \in NetworkId \cup {None} : BeginCall(c, r, id, network)
    \/ \E c \in Call : CallStep(c)
    \/ \E p \in Server : CoolDown(p) \/ ProviderCrash(p)
    \/ ChangeCredential
=============================================================================
