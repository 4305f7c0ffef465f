----------------------------- MODULE GatesProofs -----------------------------
(***************************************************************************)
(* Proofs about the gated operations.  Every gate has an invariant of its  *)
(* own that the steps of the other gates leave alone, and the step of the  *)
(* whole is put together from them: CircuitInv (the breaker),              *)
(* ReliabilityInv (what a run of a tool has read), FilesInv (places), and, *)
(* for the approvals, that what goes ahead is backed by a record that is   *)
(* used up and not yet acted upon (FileBacked, CommandBacked, CallBacked,  *)
(* ToolBacked), which together make up GatesInv.  For the command policy   *)
(* RulesInv keeps the rules of operators apart, so that one of them comes  *)
(* first; how a command is decided is a recursion over what stands in it,  *)
(* which Recursion shows to have a solution.                               *)
(***************************************************************************)
EXTENDS Gates, WellFoundedInduction, FiniteSetTheorems, TLAPS

----------------------------------------------------------------------------
(* The breaker. *)

Circuit == [failures : Nat, open : BOOLEAN, cooled : BOOLEAN, probe : BOOLEAN]

CallField == {"pc", "request", "id", "network", "attempt", "probe"}

CallShape(o) == o = [f \in CallField |-> o[f]]

Calls == /\ calls = [c \in Call |-> calls[c]]
         /\ \A c \in Call : CallShape(calls[c])

(* The breaker can only be on the way to a probe that has passed it. *)
CircuitInv ==
    /\ Calls
    /\ circuits \in [Server -> Circuit]
    /\ \A c \in Call : calls[c].pc \in {"idle", "circuit"} => calls[c].probe = FALSE
    /\ OpenNeedsFailures

\* The record of a call keeps its fields when it is replaced.
LEMMA CallsFit ==
  ASSUME NEW c \in Call, Calls
  PROVE  /\ CallAt[c] \in Server
         /\ CallShape(calls[c]) /\ CallShape(NoCall)
         /\ \A o : \A d \in Call : [calls EXCEPT ![c] = o][d] = IF d = c THEN o ELSE calls[d]
         /\ \A o : CallShape(o) => LET next == [calls EXCEPT ![c] = o]
                                   IN  next = [d \in Call |-> next[d]] /\ \A d \in Call : CallShape(next[d])
<1>1. CallAt[c] \in Server
  BY DEF Server
<1>2. CallShape(calls[c]) /\ CallShape(NoCall)
  BY DEF Calls, CallShape, CallField, NoCall
<1>3. \A o : \A d \in Call : [calls EXCEPT ![c] = o][d] = IF d = c THEN o ELSE calls[d]
  BY DEF Calls
<1>4. ASSUME NEW o, CallShape(o)
      PROVE  LET next == [calls EXCEPT ![c] = o]
             IN  next = [d \in Call |-> next[d]] /\ \A d \in Call : CallShape(next[d])
  <2> DEFINE next == [calls EXCEPT ![c] = o]
  <2>1. next = [d \in Call |-> next[d]]
    BY DEF Calls
  <2>2. \A d \in Call : CallShape(next[d])
    BY <1>3, <1>4 DEF Calls
  <2> QED
    BY <2>1, <2>2
<1> QED
  BY <1>1, <1>2, <1>3, <1>4

\* A closed circuit is a circuit, neither open nor probed.
LEMMA ClosedFits == ClosedCircuit \in Circuit /\ ~ClosedCircuit.open /\ ~ClosedCircuit.probe
BY DEF ClosedCircuit, Circuit

\* After a failure the latch is let go, and an open circuit has its failures.
LEMMA AfterFailureFits ==
  ASSUME NEW k \in Circuit, NEW failure, k.open => k.failures >= Threshold
  PROVE  /\ AfterFailure(k, failure) \in Circuit
         /\ ~AfterFailure(k, failure).probe
         /\ AfterFailure(k, failure).open => AfterFailure(k, failure).failures >= Threshold
<1> USE ProviderAssumption
<1>1. CASE k.probe
  BY <1>1 DEF AfterFailure, Circuit
<1>2. CASE ~k.probe /\ failure # "exhausted"
  BY <1>2 DEF AfterFailure
<1>3. CASE ~k.probe /\ failure = "exhausted"
  <2>1. CASE k.failures < Threshold
    <3>1. CASE k.failures + 1 = Threshold
      BY <1>3, <2>1, <3>1 DEF AfterFailure, Circuit
    <3>2. CASE k.failures + 1 # Threshold
      <4>1. AfterFailure(k, failure) = [k EXCEPT !.failures = k.failures + 1]
        BY <1>3, <2>1, <3>2 DEF AfterFailure
      <4>2. ~k.open
        BY <2>1 DEF Circuit
      <4> QED
        BY <1>3, <4>1, <4>2 DEF Circuit
    <3> QED
      BY <3>1, <3>2
  <2>2. CASE ~(k.failures < Threshold)
    BY <1>3, <2>2 DEF AfterFailure, Circuit
  <2> QED
    BY <2>1, <2>2
<1> QED
  BY <1>1, <1>2, <1>3

\* A call that ends lets the circuit of its server go.
LEMMA CallEnds ==
  ASSUME CircuitInv, NEW c \in Call, NEW k \in Circuit,
         ~k.probe, k.open => k.failures >= Threshold,
         calls' = [calls EXCEPT ![c] = NoCall],
         circuits' = [circuits EXCEPT ![CallAt[c]] = k]
  PROVE  CircuitInv'
<1>1. Calls' /\ \A d \in Call : calls'[d] = IF d = c THEN NoCall ELSE calls[d]
  BY CallsFit DEF CircuitInv, Calls
<1>2. circuits' \in [Server -> Circuit]
      /\ \A p \in Server : circuits'[p] = IF p = CallAt[c] THEN k ELSE circuits[p]
  BY CallsFit DEF CircuitInv
<1>3. \A d \in Call : calls'[d].pc \in {"idle", "circuit"} => calls'[d].probe = FALSE
  BY <1>1 DEF CircuitInv, NoCall
<1>4. ASSUME NEW p \in Server
      PROVE  /\ circuits'[p].open => circuits'[p].failures >= Threshold
             /\ circuits'[p].probe => circuits'[p].open /\ circuits'[p].cooled
                                        /\ \E d \in Call : CallAt[d] = p /\ calls'[d].probe
  <2>1. CASE p = CallAt[c]
    BY <1>2, <2>1
  <2>2. CASE p # CallAt[c]
    BY <1>1, <1>2, <2>2 DEF CircuitInv, OpenNeedsFailures
  <2> QED
    BY <2>1, <2>2
<1>5. OpenNeedsFailures'
  BY <1>4 DEF OpenNeedsFailures
<1> QED
  BY <1>1, <1>2, <1>3, <1>5 DEF CircuitInv

\* A call that fails, however it does.
LEMMA CallFailing ==
  ASSUME CircuitInv, NEW c \in Call, NEW failure, CallFails(c, failure)
  PROVE  CircuitInv'
<1> DEFINE k == AfterFailure(circuits[CallAt[c]], failure)
<1>1. CallAt[c] \in Server
  BY CallsFit DEF CircuitInv
<1>2. circuits[CallAt[c]] \in Circuit /\ circuits[CallAt[c]].open => circuits[CallAt[c]].failures >= Threshold
  BY <1>1 DEF CircuitInv, OpenNeedsFailures
<1>3. k \in Circuit /\ ~k.probe /\ (k.open => k.failures >= Threshold)
  BY <1>1, <1>2, AfterFailureFits DEF CircuitInv, OpenNeedsFailures
<1>4. circuits' = [circuits EXCEPT ![CallAt[c]] = k] /\ calls' = [calls EXCEPT ![c] = NoCall]
  BY DEF CallFails
<1> HIDE DEF k
<1> QED
  BY <1>3, <1>4, CallEnds

\* A call that succeeds closes the circuit.
LEMMA CallSucceeding ==
  ASSUME CircuitInv, NEW c \in Call, CallSucceeds(c)
  PROVE  CircuitInv'
BY CallEnds, ClosedFits DEF CallSucceeds

\* A call moves on; it probes no more and no less, or nothing has been probed.
LEMMA CallMoves ==
  ASSUME CircuitInv, NEW c \in Call, NEW o, CallShape(o),
         o.probe = calls[c].probe,
         o.pc \in {"idle", "circuit"} => o.probe = FALSE,
         calls' = [calls EXCEPT ![c] = o], circuits' = circuits
  PROVE  CircuitInv'
<1>1. Calls' /\ \A d \in Call : calls'[d] = IF d = c THEN o ELSE calls[d]
  BY CallsFit DEF CircuitInv, Calls
<1>2. \A d \in Call : calls'[d].pc \in {"idle", "circuit"} => calls'[d].probe = FALSE
  BY <1>1 DEF CircuitInv
<1>3. \A d \in Call : calls'[d].probe = calls[d].probe
  BY <1>1
<1>4. OpenNeedsFailures'
  BY <1>3 DEF OpenNeedsFailures, CircuitInv
<1> QED
  BY <1>1, <1>2, <1>4 DEF CircuitInv

\* A call past the circuit goes on to another step.
LEMMA CallGoes ==
  ASSUME CircuitInv, NEW c \in Call, NEW pc, pc \notin {"idle", "circuit"}, Goes(c, pc), circuits' = circuits
  PROVE  CircuitInv'
<1> DEFINE o == [calls[c] EXCEPT !.pc = pc]
<1>1. CallShape(calls[c])
  BY CallsFit DEF CircuitInv
<1>2. CallShape(o) /\ o.probe = calls[c].probe /\ o.pc = pc
  BY <1>1 DEF CallShape, CallField
<1>3. calls' = [calls EXCEPT ![c] = o]
  BY DEF Goes
<1> HIDE DEF o
<1> QED
  BY <1>2, <1>3, CallMoves

\* Steps that leave calls and circuits alone.
LEMMA CallsStay == ASSUME CircuitInv, UNCHANGED <<calls, circuits>> PROVE CircuitInv'
BY DEF CircuitInv, Calls, OpenNeedsFailures

\* A call passes the circuit, probes it, or is turned away.
LEMMA CircuitPassed == ASSUME CircuitInv, NEW c \in Call, PassCircuit(c) PROVE CircuitInv'
<1> DEFINE p == CallAt[c]
           probes == circuits[p].open /\ circuits[p].cooled /\ ~circuits[p].probe
<1>1. p \in Server /\ CallShape(calls[c]) /\ circuits[p] \in Circuit
  BY CallsFit DEF CircuitInv
<1>2. calls[c].pc = "circuit" /\ calls[c].probe = FALSE
  BY DEF PassCircuit, CircuitInv
<1>3. CASE circuits[p].open /\ ~probes
  <2>1. calls' = [calls EXCEPT ![c] = NoCall] /\ circuits' = circuits
    BY <1>3 DEF PassCircuit
  <2>2. CallShape(NoCall) /\ NoCall.probe = calls[c].probe /\ NoCall.probe = FALSE
    BY <1>2, CallsFit DEF CircuitInv, NoCall
  <2> QED
    BY <2>1, <2>2, CallMoves
<1>4. CASE ~(circuits[p].open /\ ~probes)
  <2> DEFINE o == [calls[c] EXCEPT !.pc = "authorize", !.probe = probes]
             k == [circuits[p] EXCEPT !.probe = probes]
  <2>1. calls' = [calls EXCEPT ![c] = o] /\ circuits' = [circuits EXCEPT ![p] = k]
    BY <1>4, <1>1 DEF PassCircuit, CircuitInv, Calls
  <2>2. CallShape(o) /\ o.pc = "authorize" /\ o.probe = probes
    <3> HIDE DEF probes
    <3> QED
      BY <1>1 DEF CallShape, CallField
  <2>3. /\ k \in Circuit /\ k.probe = probes /\ k.open = circuits[p].open
        /\ k.cooled = circuits[p].cooled /\ k.failures = circuits[p].failures
    BY <1>1 DEF Circuit
  <2>4. circuits[p].probe => probes
    BY <1>1, <1>4 DEF CircuitInv, OpenNeedsFailures
  <2> HIDE DEF o, k
  <2>5. Calls' /\ \A d \in Call : calls'[d] = IF d = c THEN o ELSE calls[d]
    BY <2>1, <2>2, CallsFit DEF CircuitInv, Calls
  <2>6. circuits' \in [Server -> Circuit]
        /\ \A q \in Server : circuits'[q] = IF q = p THEN k ELSE circuits[q]
    BY <1>1, <2>1, <2>3 DEF CircuitInv
  <2>7. \A d \in Call : calls'[d].pc \in {"idle", "circuit"} => calls'[d].probe = FALSE
    BY <2>2, <2>5 DEF CircuitInv
  <2>8. ASSUME NEW q \in Server
        PROVE  /\ circuits'[q].open => circuits'[q].failures >= Threshold
               /\ circuits'[q].probe => circuits'[q].open /\ circuits'[q].cooled
                                          /\ \E d \in Call : CallAt[d] = q /\ calls'[d].probe
    <3>1. CASE q = p
      <4>1. circuits'[q].open => circuits'[q].failures >= Threshold
        BY <1>1, <2>3, <2>6, <3>1 DEF CircuitInv, OpenNeedsFailures
      <4>2. probes => CallAt[c] = q /\ calls'[c].probe
        BY <2>2, <2>5, <3>1
      <4> QED
        BY <2>3, <2>6, <3>1, <4>1, <4>2
    <3>2. CASE q # p
      <4>1. circuits'[q] = circuits[q]
        BY <2>6, <3>2
      <4>2. \A d \in Call : CallAt[d] = q => calls'[d] = calls[d]
        BY <2>5, <3>2
      <4> QED
        BY <4>1, <4>2 DEF CircuitInv, OpenNeedsFailures
    <3> QED
      BY <3>1, <3>2
  <2>9. OpenNeedsFailures'
    BY <2>8 DEF OpenNeedsFailures
  <2> QED
    BY <2>5, <2>6, <2>7, <2>9 DEF CircuitInv
<1> QED
  BY <1>3, <1>4

\* One attempt of a call.
LEMMA CallSends == ASSUME CircuitInv, NEW c \in Call, SendCall(c) PROVE CircuitInv'
<1>1. calls[c].pc = "send" /\ CallShape(calls[c])
  BY CallsFit DEF SendCall, CircuitInv
<1>2. CASE Goes(c, "streaming") /\ UNCHANGED circuits
  BY <1>2, CallGoes
<1>3. CASE calls' = [calls EXCEPT ![c].attempt = @ + 1] /\ UNCHANGED circuits
  <2> DEFINE o == [calls[c] EXCEPT !.attempt = @ + 1]
  <2>1. calls' = [calls EXCEPT ![c] = o]
    BY <1>3
  <2>2. CallShape(o) /\ o.probe = calls[c].probe /\ o.pc = "send"
    BY <1>1 DEF CallShape, CallField
  <2> HIDE DEF o
  <2> QED
    BY <1>3, <2>1, <2>2, CallMoves
<1>4. CASE CallSucceeds(c)
  BY <1>4, CallSucceeding
<1>5. CASE \E failure \in {"exhausted", "transport", "other"} : CallFails(c, failure)
  BY <1>5, CallFailing
<1> QED
  BY <1>2, <1>3, <1>4, <1>5 DEF SendCall

\* Every step of a call keeps the invariant of the breaker.
LEMMA CallSteps == ASSUME CircuitInv, NEW c \in Call, CallStep(c) PROVE CircuitInv'
<1>1. CASE PassCircuit(c)
  BY <1>1, CircuitPassed
<1>2. CASE AuthorizeCall(c)
  <2>1. CASE Goes(c, "claim") /\ UNCHANGED circuits
    BY <2>1, CallGoes
  <2>2. CASE CallFails(c, "other")
    BY <2>2, CallFailing
  <2> QED
    BY <1>2, <2>1, <2>2 DEF AuthorizeCall
<1>3. CASE ClaimProvider(c)
  <2>1. CASE Goes(c, "network") /\ UNCHANGED circuits
    BY <2>1, CallGoes
  <2>2. CASE CallFails(c, "other")
    BY <2>2, CallFailing
  <2> QED
    BY <1>3, <2>1, <2>2 DEF ClaimProvider
<1>4. CASE ClaimCallNetwork(c)
  <2>1. CASE Goes(c, "send") /\ UNCHANGED circuits
    BY <2>1, CallGoes
  <2>2. CASE CallFails(c, "other")
    BY <2>2, CallFailing
  <2> QED
    BY <1>4, <2>1, <2>2 DEF ClaimCallNetwork
<1>5. CASE SendCall(c)
  BY <1>5, CallSends
<1>6. CASE EndStream(c)
  <2>1. CASE CallSucceeds(c)
    BY <2>1, CallSucceeding
  <2>2. CASE \E failure \in {"transport", "left", "other"} : CallFails(c, failure)
    BY <2>2, CallFailing
  <2> QED
    BY <1>6, <2>1, <2>2 DEF EndStream
<1> QED
  BY <1>1, <1>2, <1>3, <1>4, <1>5, <1>6 DEF CallStep

\* A new call has probed nothing yet.
LEMMA CallBegins ==
  ASSUME CircuitInv, NEW c \in Call, NEW r, NEW id, NEW network, BeginCall(c, r, id, network)
  PROVE  CircuitInv'
<1> DEFINE o == [NoCall EXCEPT !.pc = "circuit", !.request = r, !.id = id, !.network = network]
<1>1. calls[c].pc = "idle" /\ calls[c].probe = FALSE
  BY DEF BeginCall, CircuitInv, Calls, CallShape
<1>2. CallShape(o) /\ o.probe = FALSE /\ o.pc = "circuit"
  <2>1. CallShape(NoCall) /\ NoCall.probe = FALSE
    BY DEF CallShape, CallField, NoCall
  <2> HIDE DEF o
  <2>2. o = [NoCall EXCEPT !.pc = "circuit", !.request = r, !.id = id, !.network = network]
    BY DEF o
  <2>3. CallShape(o) /\ o.probe = NoCall.probe /\ o.pc = "circuit"
    BY <2>1, <2>2 DEF CallShape, CallField
  <2> QED
    BY <2>1, <2>3
<1>3. calls' = [calls EXCEPT ![c] = o] /\ circuits' = circuits
  BY DEF BeginCall
<1> HIDE DEF o
<1> QED
  BY <1>1, <1>2, <1>3, CallMoves

\* A circuit cools down; a process stops and forgets its calls and its circuit.
LEMMA ServerSteps ==
  ASSUME CircuitInv, NEW p \in Server, CoolDown(p) \/ ProviderCrash(p)
  PROVE  CircuitInv'
<1>1. CASE CoolDown(p)
  <2> DEFINE k == [circuits[p] EXCEPT !.cooled = TRUE]
  <2>1. circuits' = [circuits EXCEPT ![p] = k] /\ calls' = calls
    BY <1>1 DEF CoolDown
  <2>2. /\ k \in Circuit /\ k.cooled = TRUE /\ k.open = circuits[p].open
        /\ k.probe = circuits[p].probe /\ k.failures = circuits[p].failures
    BY DEF Circuit, CircuitInv
  <2> HIDE DEF k
  <2>3. circuits' \in [Server -> Circuit]
        /\ \A q \in Server : circuits'[q] = IF q = p THEN k ELSE circuits[q]
    BY <2>1, <2>2 DEF CircuitInv
  <2>4. OpenNeedsFailures'
    BY <2>1, <2>2, <2>3 DEF CircuitInv, OpenNeedsFailures
  <2> QED
    BY <2>1, <2>3, <2>4 DEF CircuitInv, Calls
<1>2. CASE ProviderCrash(p)
  <2>1. /\ calls' = [c \in Call |-> IF CallAt[c] = p THEN NoCall ELSE calls[c]]
        /\ circuits' = [circuits EXCEPT ![p] = ClosedCircuit]
    BY <1>2 DEF ProviderCrash
  <2>2. \A c \in Call : CallShape(calls[c]) /\ CallShape(NoCall) /\ NoCall.probe = FALSE
    BY CallsFit DEF CircuitInv, NoCall
  <2>3. Calls'
    BY <2>1, <2>2 DEF Calls
  <2>4. circuits' \in [Server -> Circuit]
        /\ \A q \in Server : circuits'[q] = IF q = p THEN ClosedCircuit ELSE circuits[q]
    BY <2>1, ClosedFits DEF CircuitInv
  <2>5. \A c \in Call : calls'[c].pc \in {"idle", "circuit"} => calls'[c].probe = FALSE
    BY <2>1, <2>2 DEF CircuitInv
  <2>6. ASSUME NEW q \in Server
        PROVE  /\ circuits'[q].open => circuits'[q].failures >= Threshold
               /\ circuits'[q].probe => circuits'[q].open /\ circuits'[q].cooled
                                          /\ \E d \in Call : CallAt[d] = q /\ calls'[d].probe
    <3>1. CASE q = p
      BY <2>4, <3>1, ClosedFits
    <3>2. CASE q # p
      <4>1. circuits'[q] = circuits[q]
        BY <2>4, <3>2
      <4>2. \A d \in Call : CallAt[d] = q => calls'[d] = calls[d]
        BY <2>1, <3>2
      <4> QED
        BY <4>1, <4>2 DEF CircuitInv, OpenNeedsFailures
    <3> QED
      BY <3>1, <3>2
  <2>7. OpenNeedsFailures'
    BY <2>6 DEF OpenNeedsFailures
  <2> QED
    BY <2>3, <2>4, <2>5, <2>7 DEF CircuitInv
<1> QED
  BY <1>1, <1>2

\* The invariant of the breaker holds at first.
LEMMA CircuitStarts == ASSUME GatesInit PROVE CircuitInv
<1>1. calls = [c \in Call |-> NoCall] /\ circuits = [p \in Server |-> ClosedCircuit]
  BY DEF GatesInit, ProviderInit
<1>2. CallShape(NoCall) /\ NoCall.probe = FALSE
  BY DEF CallShape, CallField, NoCall
<1>3. Calls
  BY <1>1, <1>2 DEF Calls
<1> QED
  BY <1>1, <1>2, <1>3, ClosedFits DEF CircuitInv, OpenNeedsFailures

\* Every step of every gate keeps the invariant of the breaker.
LEMMA CircuitHolds == ASSUME CircuitInv, [GatesNext]_gateVars PROVE CircuitInv'
<1>1. CASE ProviderNext
  <2>1. CASE \E c \in Call : CallStep(c)
    BY <2>1, CallSteps
  <2>2. CASE \E c \in Call, r \in ProviderRequest, id \in ProviderId \cup {None},
               network \in NetworkId \cup {None} : BeginCall(c, r, id, network)
    BY <2>2, CallBegins
  <2>3. CASE \E p \in Server : CoolDown(p) \/ ProviderCrash(p)
    BY <2>3, ServerSteps
  <2>4. CASE UNCHANGED <<calls, circuits>>
    BY <2>4, CallsStay
  <2> QED
    BY <1>1, <2>1, <2>2, <2>3, <2>4
    DEF ProviderNext, RequestProvider, ApproveProvider, DenyProvider, ProviderExpires, ChangeCredential
<1>2. CASE UNCHANGED <<calls, circuits>>
  BY <1>2, CallsStay
<1> QED
  BY <1>1, <1>2
  DEF GatesNext, FileStep, CommandStep, ProviderStep, ToolStep, NetworkStep, WorldStep,
      gateVars, providerVars

(* Whatever the threshold and the number of calls and processes: a circuit is
   only open after as many failures as the settings ask for, and is only
   probed while it is open and some call of its process has the probe
   (provider_runtime.py:1463-1512). *)
THEOREM CircuitsHold == GatesSpec => []OpenNeedsFailures
<1>1. GatesInit => CircuitInv
  BY CircuitStarts
<1>2. CircuitInv /\ [GatesNext]_gateVars => CircuitInv'
  BY CircuitHolds
<1>3. CircuitInv => OpenNeedsFailures
  BY DEF CircuitInv
<1> QED
  BY <1>1, <1>2, <1>3, PTL DEF GatesSpec

----------------------------------------------------------------------------
(* Tools. *)

ToolManifest == [version : Nat, mode : Modes, status : {"active", "disabled", "deprecated"},
                 good : Nat, bad : Nat]

ToolField == {"pc", "tool", "id", "network", "request", "read", "retire"}

ToolOpShape(o) == o = [f \in ToolField |-> o[f]]

Reliable(m) == Reliability(m) \notin {"disable", "deprecate"}

(* An active manifest that no operator has touched is reliable, and so is what a
   run has read of it, although the manifest may be another one by then. *)
ManifestsInv ==
    /\ manifest = [t \in Tool |-> manifest[t]]
    /\ reactivated \in [Tool -> BOOLEAN]
    /\ ToolOpShape(toolOp)
    /\ toolOp.pc \in {"idle", "files", "manifest", "row", "network", "run", "counts", "usage"}
    /\ toolOp.pc # "idle" => toolOp.tool \in Tool /\ toolOp.read \in ToolManifest
    /\ toolOp.pc \in {"files", "manifest"} =>
           toolOp.read.status = "active" /\ Reliable(toolOp.read)
    /\ toolOp.pc \in {"network", "run"} =>
           /\ toolOp.read.status = "active"
           /\ ~reactivated[toolOp.tool] => Reliable(toolOp.read)
    /\ toolOp.pc = "counts" /\ ~reactivated[toolOp.tool] =>
           /\ toolOp.read.status # "deprecated"
           /\ toolOp.read.status = "active" => Reliable(toolOp.read)
    /\ \A t \in Tool :
           manifest[t] # None =>
               /\ manifest[t] \in ToolManifest
               /\ manifest[t].status = "active" /\ ~reactivated[t] => Reliable(manifest[t])

\* What an update of the governance has read is reliable, unless it is marked.
EditSound(e) ==
    e # None =>
        /\ e.tool \in Tool /\ e.read \in ToolManifest /\ e.handled \in BOOLEAN
        /\ e.status \in {"active", "disabled", "deprecated"}
        /\ e.read.status = "active" /\ ~e.handled => Reliable(e.read)

\* What the fields of a manifest are, and what changing one of them does.
LEMMA ManifestFits ==
  ASSUME NEW m \in ToolManifest
  PROVE  /\ m.good \in Nat /\ m.bad \in Nat
         /\ \A s \in {"active", "disabled", "deprecated"} :
               [m EXCEPT !.status = s] \in ToolManifest /\ [m EXCEPT !.status = s].status = s
         /\ [m EXCEPT !.good = @ + 1] \in ToolManifest
         /\ [m EXCEPT !.good = @ + 1].status = m.status
         /\ [m EXCEPT !.good = @ + 1].good = m.good + 1 /\ [m EXCEPT !.good = @ + 1].bad = m.bad
         /\ [m EXCEPT !.bad = @ + 1] \in ToolManifest
         /\ [m EXCEPT !.bad = @ + 1].status = m.status
         /\ [m EXCEPT !.bad = @ + 1].good = m.good /\ [m EXCEPT !.bad = @ + 1].bad = m.bad + 1
BY DEF ToolManifest

\* A tool is disabled before a further run could deprecate it.
LEMMA DisabledFirst ==
  ASSUME NEW m \in ToolManifest, Reliable(m), NEW n \in ToolManifest,
         \/ n.good = m.good + 1 /\ n.bad = m.bad
         \/ n.good = m.good /\ n.bad = m.bad + 1
  PROVE  Reliability(n) # "deprecate"
<1> USE ToolAssumption
<1>1. m.good \in Nat /\ m.bad \in Nat /\ n.good \in Nat /\ n.bad \in Nat
  BY ManifestFits
<1>2. SUFFICES ASSUME n.good + n.bad >= DeprecateRuns /\ 4 * n.good < n.good + n.bad PROVE FALSE
  BY DEF Reliability, Runs
<1>3. m.good + m.bad >= DeprecateRuns - 1 /\ m.good + m.bad >= 3 /\ 4 * m.good <= m.good + m.bad
  BY <1>1, <1>2
<1>4. m.bad >= 3 /\ 5 * m.good < 3 * (m.good + m.bad) /\ ~(m.good + m.bad < WarnRuns)
  BY <1>1, <1>3
<1>5. Reliability(m) \in {"disable", "deprecate"}
  BY <1>1, <1>4 DEF Reliability, Runs
<1> QED
  BY <1>5 DEF Reliable

\* What the policy does to a manifest follows from its verdict.
LEMMA GovernedFits ==
  ASSUME NEW m \in ToolManifest, m.status = "active"
  PROVE  /\ Governed(m) \in ToolManifest
         /\ Governed(m).status = "deprecated" => Reliability(m) = "deprecate"
         /\ Governed(m).status = "active" => Reliable(m) /\ Governed(m) = m
BY ManifestFits DEF Governed, Reliable

\* A manifest without runs is reliable.
LEMMA NewManifestFits ==
  ASSUME NEW version \in Nat, NEW mode \in Modes
  PROVE  LET m == NewManifest(version, mode)
         IN  m \in ToolManifest /\ m.status = "active" /\ Reliable(m)
<1> DEFINE m == NewManifest(version, mode)
<1>1. m \in ToolManifest /\ m.status = "active" /\ m.good = 0 /\ m.bad = 0
  BY DEF NewManifest, ToolManifest
<1> HIDE DEF m
<1>2. Reliable(m)
  BY <1>1, ToolAssumption DEF Reliable, Reliability, Runs
<1> QED
  BY <1>1, <1>2 DEF m

ToolVars == <<manifest, reactivated, toolOp>>

\* Steps that leave manifests and the operation alone.
LEMMA ToolsStay == ASSUME ManifestsInv, UNCHANGED ToolVars PROVE ManifestsInv'
BY DEF ManifestsInv, ToolVars, Reliable, Reliability, Runs

\* An operation that ends, or is lost, leaves the manifests as they are.
LEMMA ToolStops ==
  ASSUME ManifestsInv, toolOp' = NoToolOp, UNCHANGED <<manifest, reactivated>>
  PROVE  ManifestsInv'
<1>1. ToolOpShape(NoToolOp) /\ NoToolOp.pc = "idle"
  BY DEF ToolOpShape, ToolField, NoToolOp
<1> QED
  BY <1>1 DEF ManifestsInv, Reliable, Reliability, Runs

\* Only the step of the operation changes.
LEMMA ToolProceeds ==
  ASSUME ManifestsInv, NEW pc \in {"manifest", "run", "usage"},
         toolOp' = [toolOp EXCEPT !.pc = pc], UNCHANGED <<manifest, reactivated>>,
         \/ toolOp.pc = "files" /\ pc = "manifest"
         \/ toolOp.pc = "network" /\ pc = "run"
  PROVE  ManifestsInv'
<1>1. /\ ToolOpShape(toolOp') /\ toolOp'.pc = pc
      /\ toolOp'.tool = toolOp.tool /\ toolOp'.read = toolOp.read
  BY DEF ManifestsInv, ToolOpShape, ToolField
<1> QED
  BY <1>1 DEF ManifestsInv, Reliable, Reliability, Runs

\* A tool that is generated starts with a reliable manifest.
LEMMA ToolGenerated ==
  ASSUME ManifestsInv, NEW t \in Tool, NEW version \in 1..MaxVersion, NEW mode \in Modes,
         NEW overwrite \in BOOLEAN, GenerateTool(t, version, mode, overwrite)
  PROVE  ManifestsInv'
<1> DEFINE m == NewManifest(version, mode)
<1>1. version \in Nat
  BY ToolAssumption
<1>2. m \in ToolManifest /\ m.status = "active" /\ Reliable(m)
  BY <1>1, NewManifestFits
<1>3. toolOp' = [NoToolOp EXCEPT !.pc = "files", !.tool = t, !.read = m]
      /\ UNCHANGED <<manifest, reactivated>>
  BY DEF GenerateTool
<1> HIDE DEF m
<1>4. /\ ToolOpShape(toolOp') /\ toolOp'.pc = "files" /\ toolOp'.tool = t /\ toolOp'.read = m
  BY <1>3 DEF NoToolOp, ToolOpShape, ToolField
<1> QED
  BY <1>2, <1>3, <1>4 DEF ManifestsInv, Reliable, Reliability, Runs

\* Its files are written.
LEMMA ToolWritten == ASSUME ManifestsInv, WriteToolFiles PROVE ManifestsInv'
BY ToolProceeds DEF WriteToolFiles

\* Its manifest is stored.
LEMMA ToolRegistered == ASSUME ManifestsInv, RegisterTool PROVE ManifestsInv'
<1> DEFINE t == toolOp.tool
<1>1. /\ toolOp.pc = "manifest" /\ t \in Tool /\ toolOp.read \in ToolManifest
      /\ toolOp.read.status = "active" /\ Reliable(toolOp.read)
  BY DEF RegisterTool, ManifestsInv
<1>2. /\ manifest' = [manifest EXCEPT ![t] = toolOp.read]
      /\ reactivated' = [reactivated EXCEPT ![t] = FALSE]
      /\ toolOp' = [toolOp EXCEPT !.pc = "row"]
  BY DEF RegisterTool
<1>3. /\ ToolOpShape(toolOp') /\ toolOp'.pc = "row"
      /\ toolOp'.tool = t /\ toolOp'.read = toolOp.read
  BY <1>2 DEF ManifestsInv, ToolOpShape, ToolField
<1>4. /\ manifest' = [u \in Tool |-> manifest'[u]]
      /\ reactivated' \in [Tool -> BOOLEAN]
      /\ \A u \in Tool : /\ manifest'[u] = IF u = t THEN toolOp.read ELSE manifest[u]
                         /\ u # t => reactivated'[u] = reactivated[u]
  BY <1>1, <1>2 DEF ManifestsInv
<1>5. \A u \in Tool : manifest'[u] # None =>
               /\ manifest'[u] \in ToolManifest
               /\ manifest'[u].status = "active" /\ ~reactivated'[u] => Reliable(manifest'[u])
  BY <1>1, <1>4 DEF ManifestsInv
<1> QED
  BY <1>1, <1>3, <1>4, <1>5 DEF ManifestsInv, Reliable, Reliability, Runs

\* A manifest is replaced, and the tool may be marked as touched.
LEMMA ToolReplaced ==
  ASSUME ManifestsInv, NEW t \in Tool, NEW m \in ToolManifest, NEW touched \in BOOLEAN,
         m.status = "active" /\ ~touched /\ ~reactivated[t] => Reliable(m),
         manifest' = [manifest EXCEPT ![t] = m],
         reactivated' = [reactivated EXCEPT ![t] = @ \/ touched], UNCHANGED toolOp
  PROVE  ManifestsInv'
<1>1. /\ manifest' = [u \in Tool |-> manifest'[u]]
      /\ \A u \in Tool : manifest'[u] = IF u = t THEN m ELSE manifest[u]
  BY DEF ManifestsInv
<1>2. /\ reactivated' \in [Tool -> BOOLEAN]
      /\ \A u \in Tool : reactivated[u] => reactivated'[u]
      /\ \A u \in Tool : u # t => reactivated'[u] = reactivated[u]
      /\ ~reactivated'[t] => ~reactivated[t] /\ ~touched
  BY DEF ManifestsInv
<1>3. \A u \in Tool : manifest'[u] # None =>
               /\ manifest'[u] \in ToolManifest
               /\ manifest'[u].status = "active" /\ ~reactivated'[u] => Reliable(manifest'[u])
  BY <1>1, <1>2 DEF ManifestsInv
<1>4. toolOp.pc # "idle" => (~reactivated'[toolOp.tool] => ~reactivated[toolOp.tool])
  BY <1>2 DEF ManifestsInv
<1> QED
  BY <1>1, <1>2, <1>3, <1>4 DEF ManifestsInv

\* An operator changes the status of what was read; making a tool active again
\* is remembered.
LEMMA ToolGoverned == ASSUME ManifestsInv, EditSound(toolEdit), GovernTool PROVE ManifestsInv'
<1> DEFINE e == toolEdit
           m == [e.read EXCEPT !.status = e.status]
<1>1. /\ e.tool \in Tool /\ e.read \in ToolManifest /\ e.handled \in BOOLEAN
      /\ e.status \in {"active", "disabled", "deprecated"}
      /\ e.read.status = "active" /\ ~e.handled => Reliable(e.read)
      /\ manifest' = [manifest EXCEPT ![e.tool] = m]
      /\ reactivated' = [reactivated EXCEPT ![e.tool] = @ \/ Reactivates(e)]
      /\ toolOp' = toolOp
  BY DEF GovernTool, EditSound
<1>2. m \in ToolManifest /\ m.status = e.status /\ (e.read.status = e.status => m = e.read)
  BY <1>1 DEF ToolManifest
<1>3. Reactivates(e) \in BOOLEAN /\ (m.status = "active" /\ ~Reactivates(e) => Reliable(m))
  BY <1>1, <1>2 DEF Reactivates
<1> HIDE DEF e, m
<1> QED
  BY <1>1, <1>2, <1>3, ToolReplaced

\* A client registers a manifest of its own.
LEMMA ToolCreated ==
  ASSUME ManifestsInv, NEW t \in Tool, NEW m \in Registered, CreateTool(t, m)
  PROVE  ManifestsInv'
<1>1. m \in ToolManifest
  BY ToolAssumption DEF ToolManifest
<1>2. /\ manifest' = [manifest EXCEPT ![t] = m]
      /\ reactivated' = [reactivated EXCEPT ![t] = @ \/ TRUE]
      /\ toolOp' = toolOp
  BY DEF CreateTool, ManifestsInv
<1> QED
  BY <1>1, <1>2, ToolReplaced

\* An execution reads the manifest of an active tool.
LEMMA ToolExecuted ==
  ASSUME ManifestsInv, NEW r, r.tool \in Tool, NEW id, NEW network, ExecuteTool(r, id, network)
  PROVE  ManifestsInv'
<1>1. /\ manifest[r.tool] # None /\ manifest[r.tool] \in ToolManifest
      /\ manifest[r.tool].status = "active"
      /\ ~reactivated[r.tool] => Reliable(manifest[r.tool])
      /\ toolOp' = [NoToolOp EXCEPT !.pc = "network", !.tool = r.tool, !.id = id,
                                    !.network = network, !.request = r, !.read = manifest[r.tool]]
      /\ UNCHANGED <<manifest, reactivated>>
  BY DEF ExecuteTool, ToolRequested, Runnable, ManifestsInv
<1>2. /\ ToolOpShape(toolOp') /\ toolOp'.pc = "network"
      /\ toolOp'.tool = r.tool /\ toolOp'.read = manifest[r.tool]
  BY <1>1 DEF NoToolOp, ToolOpShape, ToolField
<1> QED
  BY <1>1, <1>2 DEF ManifestsInv, Reliable, Reliability, Runs

\* The network approval is claimed, or the operation ends.
LEMMA ToolConnected == ASSUME ManifestsInv, ClaimToolNetwork PROVE ManifestsInv'
<1>1. CASE toolOp.pc = "network" /\ toolOp' = [toolOp EXCEPT !.pc = "run"]
           /\ UNCHANGED <<manifest, reactivated>>
  BY <1>1, ToolProceeds
<1>2. CASE toolOp' = NoToolOp /\ UNCHANGED <<manifest, reactivated>>
  BY <1>2, ToolStops
<1> QED
  BY <1>1, <1>2 DEF ClaimToolNetwork

\* A run is counted; without an operator it cannot end in a deprecation.
LEMMA ToolRan == ASSUME ManifestsInv, RunTool PROVE ManifestsInv'
<1> DEFINE read == toolOp.read
           t == toolOp.tool
<1>1. /\ toolOp.pc = "run" /\ t \in Tool /\ read \in ToolManifest /\ read.status = "active"
      /\ ~reactivated[t] => Reliable(read)
      /\ UNCHANGED <<manifest, reactivated>>
  BY DEF RunTool, ManifestsInv
<1>2. CASE toolOp' = NoToolOp
  BY <1>1, <1>2, ToolStops
<1>3. ASSUME NEW counted \in {[read EXCEPT !.good = @ + 1], [read EXCEPT !.bad = @ + 1]},
             toolOp' = [toolOp EXCEPT !.pc = "counts", !.read = Governed(counted),
                                      !.retire = Reliability(counted) = "deprecate"]
      PROVE  ManifestsInv'
  <2>1. /\ counted \in ToolManifest /\ counted.status = "active"
        /\ \/ counted.good = read.good + 1 /\ counted.bad = read.bad
           \/ counted.good = read.good /\ counted.bad = read.bad + 1
    <3> HIDE DEF read, t
    <3>1. CASE counted = [read EXCEPT !.good = @ + 1]
      BY <1>1, <3>1, ManifestFits
    <3>2. CASE counted = [read EXCEPT !.bad = @ + 1]
      BY <1>1, <3>2, ManifestFits
    <3> QED
      BY <1>3, <3>1, <3>2
  <2> HIDE DEF read, t
  <2> DEFINE g == Governed(counted)
             retire == Reliability(counted) = "deprecate"
  <2>2. ~reactivated[t] => Reliability(counted) # "deprecate"
    BY <1>1, <2>1, DisabledFirst
  <2>3. /\ g \in ToolManifest /\ (g.status = "deprecated" => Reliability(counted) = "deprecate")
        /\ (g.status = "active" => Reliable(g))
    BY <2>1, GovernedFits
  <2>4. toolOp' = [toolOp EXCEPT !.pc = "counts", !.read = g, !.retire = retire]
    BY <1>3
  <2> HIDE DEF g, retire
  <2>5. /\ ToolOpShape(toolOp') /\ toolOp'.pc = "counts" /\ toolOp'.tool = t /\ toolOp'.read = g
    BY <2>4 DEF ManifestsInv, ToolOpShape, ToolField, t
  <2> QED
    BY <1>1, <2>2, <2>3, <2>5 DEF ManifestsInv, Reliable, Reliability, Runs
<1> QED
  BY <1>2, <1>3 DEF RunTool

\* The counts are written back.
LEMMA ToolCounted == ASSUME ManifestsInv, RecordCounts PROVE ManifestsInv'
<1> DEFINE t == toolOp.tool
<1>1. /\ toolOp.pc = "counts" /\ t \in Tool /\ toolOp.read \in ToolManifest
      /\ ~reactivated[t] /\ toolOp.read.status = "active" => Reliable(toolOp.read)
      /\ reactivated' = reactivated
  BY DEF RecordCounts, ManifestsInv
<1>2. /\ manifest' = [manifest EXCEPT ![t] = toolOp.read]
      /\ toolOp' = [toolOp EXCEPT !.pc = "usage"]
  BY DEF RecordCounts
<1>3. /\ ToolOpShape(toolOp') /\ toolOp'.pc = "usage"
      /\ toolOp'.tool = t /\ toolOp'.read = toolOp.read
  BY <1>2 DEF ManifestsInv, ToolOpShape, ToolField
<1>4. /\ manifest' = [u \in Tool |-> manifest'[u]]
      /\ \A u \in Tool : manifest'[u] = IF u = t THEN toolOp.read ELSE manifest[u]
  BY <1>1, <1>2 DEF ManifestsInv
<1>5. \A u \in Tool : manifest'[u] # None =>
               /\ manifest'[u] \in ToolManifest
               /\ manifest'[u].status = "active" /\ ~reactivated'[u] => Reliable(manifest'[u])
  BY <1>1, <1>4 DEF ManifestsInv
<1> QED
  BY <1>1, <1>3, <1>4, <1>5 DEF ManifestsInv

\* The invariant of the manifests holds at first.
LEMMA ManifestsStart == ASSUME GatesInit PROVE ManifestsInv
<1>1. /\ manifest = [t \in Tool |-> None] /\ reactivated = [t \in Tool |-> FALSE]
      /\ toolOp = NoToolOp
  BY DEF GatesInit, ToolInit
<1>2. ToolOpShape(NoToolOp) /\ NoToolOp.pc = "idle"
  BY DEF ToolOpShape, ToolField, NoToolOp
<1> QED
  BY <1>1, <1>2 DEF ManifestsInv

\* Every step of the gate keeps the invariant of the manifests.
LEMMA ManifestsHold == ASSUME ManifestsInv, EditSound(toolEdit), ToolNext PROVE ManifestsInv'
<1>1. CASE \E t \in Tool, version \in 1..MaxVersion, mode \in Modes, overwrite \in BOOLEAN :
             GenerateTool(t, version, mode, overwrite)
  BY <1>1, ToolGenerated
<1>2. CASE GovernTool
  BY <1>2, ToolGoverned
<1>3. CASE \E t \in Tool, m \in Registered : CreateTool(t, m)
  BY <1>3, ToolCreated
<1>4. CASE UNCHANGED ToolVars
  BY <1>4, ToolsStay
<1>5. CASE \E r \in ToolRequest, id \in ToolId \cup {None}, network \in NetworkId \cup {None} :
             ExecuteTool(r, id, network)
  BY <1>5, ToolExecuted, ToolAssumption
<1>6. CASE RunTool
  BY <1>6, ToolRan
<1>7. CASE RegisterRow \/ RecordUsage \/ ToolCrash
  BY <1>7, ToolStops DEF RegisterRow, RecordUsage, ToolCrash
<1> QED
  BY <1>1, <1>2, <1>3, <1>4, <1>5, <1>6, <1>7, ToolWritten, ToolRegistered, ToolConnected, ToolCounted
  DEF ToolNext, ReadGovernance, DeprecateRow, EditTool, RequestTool, ApproveTool, DenyTool,
      ToolExpires, ToolVars

\* An update of the governance reads a manifest that is sound, or handled.
LEMMA GovernanceRead ==
  ASSUME ManifestsInv, NEW t \in Tool, NEW status \in {"active", "disabled", "deprecated"},
         ReadGovernance(t, status)
  PROVE  EditSound(toolEdit)'
<1> DEFINE e == [tool |-> t, status |-> status, read |-> manifest[t], handled |-> reactivated[t]]
<1>1. toolEdit' = e /\ manifest[t] # None
  BY DEF ReadGovernance
<1>2. e.tool = t /\ e.status = status /\ e.read = manifest[t] /\ e.handled = reactivated[t]
  OBVIOUS
<1> HIDE DEF e
<1>3. EditSound(e)
  BY <1>1, <1>2 DEF EditSound, ManifestsInv
<1> QED
  BY <1>1, <1>3

ReliabilityInv == ManifestsInv /\ EditSound(toolEdit)

\* The invariant of the tools holds at first.
LEMMA ReliabilityStarts == ASSUME GatesInit PROVE ReliabilityInv
<1>1. toolEdit = None
  BY DEF GatesInit, ToolInit
<1> QED
  BY <1>1, ManifestsStart DEF ReliabilityInv, EditSound

\* Every step of every gate keeps the invariant of the tools.
LEMMA ReliabilityHolds == ASSUME ReliabilityInv, [GatesNext]_gateVars PROVE ReliabilityInv'
<1> USE DEF ReliabilityInv
<1>1. CASE ToolNext
  <2>1. CASE \E t \in Tool, status \in {"active", "disabled", "deprecated"} : ReadGovernance(t, status)
    BY <1>1, <2>1, ManifestsHold, GovernanceRead
  <2>2. CASE toolEdit' = None
    BY <1>1, <2>2, ManifestsHold DEF EditSound
  <2>3. CASE toolEdit' = toolEdit
    BY <1>1, <2>3, ManifestsHold
  <2> QED
    BY <1>1, <2>1, <2>2, <2>3
    DEF ToolNext, GenerateTool, GovernTool, CreateTool, DeprecateRow, EditTool, RequestTool,
        ApproveTool, DenyTool, ToolExpires, ExecuteTool, WriteToolFiles, RegisterTool, RegisterRow,
        ClaimToolNetwork, RunTool, RecordCounts, RecordUsage, ToolCrash
<1>2. CASE UNCHANGED <<ToolVars, toolEdit>>
  <2>1. ManifestsInv'
    BY <1>2, ToolsStay
  <2> QED
    BY <1>2, <2>1
<1> QED
  BY <1>1, <1>2
  DEF GatesNext, FileStep, CommandStep, ProviderStep, ToolStep, NetworkStep, WorldStep,
      OtherThanCalls, gateVars, toolVars, ToolVars

\* The one step that writes the counts writes what the run has made of them.
LEMMA CountsStep ==
  ASSUME ReliabilityInv, [GatesNext]_gateVars, NEW t \in Tool,
         toolOp.pc = "counts", toolOp.tool = t, toolOp'.pc = "usage",
         manifest'[t].status = "deprecated"
  PROVE  reactivated[t]
<1>1. toolOp' # toolOp
  OBVIOUS
<1>2. ~ToolIdle
  BY DEF ToolIdle
<1>3. NoToolOp.pc # "usage"
  BY DEF NoToolOp
<1>4. CASE RecordCounts
  <2>1. manifest'[t] = toolOp.read
    BY <1>4 DEF RecordCounts, ReliabilityInv, ManifestsInv
  <2> QED
    BY <2>1 DEF ReliabilityInv, ManifestsInv
<1>5. CASE ToolNext
  BY <1>1, <1>2, <1>3, <1>4, <1>5
  DEF ToolNext, GenerateTool, WriteToolFiles, RegisterTool, RegisterRow, ReadGovernance, GovernTool,
      CreateTool, DeprecateRow, EditTool, RequestTool, ApproveTool, DenyTool, ToolExpires,
      ExecuteTool, ClaimToolNetwork, RunTool, RecordUsage, ToolCrash
<1> QED
  BY <1>1, <1>5
  DEF GatesNext, FileStep, CommandStep, ProviderStep, ToolStep, NetworkStep, WorldStep,
      OtherThanCalls, gateVars, toolVars

(* Whatever the numbers of runs that warn and deprecate, as long as the first
   is the smaller: the counts deprecate a tool only if an operator has made it
   active again or has registered it, although operators and runs write back
   what they have read before the other has written (tool_runtime.py:1569). *)
THEOREM DisabledBeforeDeprecated == GatesSpec => CountsDisableFirst
<1>1. GatesInit => ReliabilityInv
  BY ReliabilityStarts
<1>2. ReliabilityInv /\ [GatesNext]_gateVars => ReliabilityInv'
  BY ReliabilityHolds
<1>3. ReliabilityInv /\ [GatesNext]_gateVars =>
        [\A t \in Tool :
         toolOp.pc = "counts" /\ toolOp.tool = t /\ toolOp'.pc = "usage"
           /\ manifest'[t].status = "deprecated" => reactivated[t]]_gateVars
  BY CountsStep
<1> QED
  BY <1>1, <1>2, <1>3, PTL DEF GatesSpec, CountsDisableFirst

----------------------------------------------------------------------------
(* Files. *)

FileOpField == {"pc", "request", "id", "decision"}

FileOpShape(o) == o = [f \in FileOpField |-> o[f]]

\* What is not there is nothing else.
Entry(k) == k = [kind |-> k.kind, at |-> k.at] /\ (k.kind = "absent" => k = Gone)

Filed(F) == F = [x \in Place |-> F[x]] /\ \A x \in Place : Entry(F[x])

FilesInv ==
    /\ Filed(files)
    /\ fileOp = [p \in FileProcess |-> fileOp[p]]
    /\ \A p \in FileProcess :
          /\ FileOpShape(fileOp[p])
          /\ fileOp[p].pc \in {"idle", "decided", "perform", "transfer"}
          /\ fileOp[p].pc # "idle" => fileOp[p].request \in FileRequest
          /\ fileOp[p].pc = "transfer" => fileOp[p].request.action \in Targeted

\* G differs from F at one place at most.
OnlyAt(F, G, x) == \A y \in Place : G[y] # F[y] => y = x

\* What a state of the files is after one place of F was changed.
LEMMA Placing ==
  ASSUME NEW F, Filed(F), NEW x, NEW k, Entry(k)
  PROVE  /\ Filed([F EXCEPT ![x] = k]) /\ OnlyAt(F, [F EXCEPT ![x] = k], x)
         /\ x \in Place => [F EXCEPT ![x] = k][x] = k
BY DEF Filed, OnlyAt

\* Entries.
LEMMA EntriesFit ==
  /\ Entry(Gone)
  /\ \A at : Entry(Kept("file", at)) /\ Entry(Kept("cut", at)) /\ Entry(Kept("tree", at))
             /\ Entry(Kept("empty", at))
  /\ \A at, kind : kind # "absent" => Entry(Kept(kind, at))
  /\ \A at, kind : Kept(kind, at).kind = kind
BY DEF Entry, Gone, Kept

\* Taking away what is at a place.
LEMMA Removing ==
  ASSUME NEW F, Filed(F), NEW x
  PROVE  Filed([F EXCEPT ![x] = Gone]) /\ OnlyAt(F, [F EXCEPT ![x] = Gone], x)
BY Placing, EntriesFit

\* Failing to take it away.
LEMMA Failing ==
  ASSUME NEW F, Filed(F), NEW x, NEW G \in Fails(F, x)
  PROVE  Filed(G) /\ OnlyAt(F, G, x)
<1>1. PICK k \in Remains(F[x]) : G = [F EXCEPT ![x] = k]
  BY DEF Fails
<1>2. CASE x \in Place
  <2>1. Entry(k)
    BY <1>1, <1>2, EntriesFit DEF Remains, Filed
  <2> QED
    BY <1>1, <2>1, Placing
<1>3. CASE x \notin Place
  <2>1. G = F
    BY <1>1, <1>3 DEF Filed
  <2> QED
    BY <2>1 DEF OnlyAt
<1> QED
  BY <1>2, <1>3

\* Operations without a target change at most what they name.
LEMMA OutcomesFit ==
  ASSUME NEW F, Filed(F), NEW r \in FileRequest, r.action \notin Targeted, NEW G \in Outcomes(F, r)
  PROVE  Filed(G) /\ \A y \in Place : G[y] # F[y] =>
             y = r.path /\ r.action \in {"write", "binary_write", "delete"}
<1>1. r.action \in {"read", "binary_read", "metadata", "list", "write", "binary_write", "delete"}
  BY FileAssumption DEF Targeted
<1>2. CASE r.action \in {"read", "binary_read", "metadata", "list"}
  <2>1. G = F
    BY <1>2 DEF Outcomes, ReadText, ReadBinary, Metadata, ListDirectory
  <2> QED
    BY <2>1
<1>3. CASE r.action \in {"write", "binary_write"}
  <2>1. G \in WriteText(F, r)
    BY <1>3 DEF Outcomes, WriteBinary
  <2>2. \/ G = F
        \/ \E kind \in {"file", "cut"} : G = [F EXCEPT ![r.path] = Kept(kind, stamp + 1)]
    BY <2>1 DEF WriteText
  <2>3. CASE G = F
    BY <2>3
  <2>4. ASSUME NEW kind \in {"file", "cut"}, G = [F EXCEPT ![r.path] = Kept(kind, stamp + 1)]
        PROVE  Filed(G) /\ OnlyAt(F, G, r.path)
    <3>1. Entry(Kept(kind, stamp + 1))
      BY EntriesFit
    <3> QED
      BY <2>4, <3>1, Placing
  <2> QED
    BY <1>3, <2>2, <2>3, <2>4 DEF OnlyAt
<1>4. CASE r.action = "delete"
  <2>1. G \in DeletePath(F, r)
    BY <1>4 DEF Outcomes
  <2>2. G = F \/ G \in Fails(F, r.path) \/ G = [F EXCEPT ![r.path] = Gone]
    BY <2>1 DEF DeletePath
  <2>3. CASE G = F
    BY <2>3
  <2>4. CASE G \in Fails(F, r.path)
    <3>1. Filed(G) /\ OnlyAt(F, G, r.path)
      BY <2>4, Failing
    <3> QED
      BY <1>4, <3>1 DEF OnlyAt
  <2>5. CASE G = [F EXCEPT ![r.path] = Gone]
    <3>1. Filed(G) /\ OnlyAt(F, G, r.path)
      BY <2>5, Removing
    <3> QED
      BY <1>4, <3>1 DEF OnlyAt
  <2> QED
    BY <2>2, <2>3, <2>4, <2>5
<1> QED
  BY <1>1, <1>2, <1>3, <1>4

\* A step changes the target; and the source only when that has arrived there.
Spares(F, G, r) ==
    /\ Filed(G)
    /\ \A x \in Place : G[x] # F[x] =>
          \/ x = r.target
          \/ x = r.path /\ r.action \in {"move", "rename"}
                /\ (G[r.target] = F[x] \/ (Directory(F, r.target) /\ G[r.target].kind = "tree"))

\* Changes of the target only.
LEMMA TargetOnly ==
  ASSUME NEW F, NEW G, NEW r, Filed(G), OnlyAt(F, G, r.target)
  PROVE  Spares(F, G, r)
BY DEF Spares, OnlyAt

\* Nothing changes.
LEMMA NothingSpares == ASSUME NEW F, Filed(F), NEW r PROVE Spares(F, F, r)
BY DEF Spares

\* What arrives at the target is the source, or is in the directory there.
LEMMA Arriving ==
  ASSUME NEW F, Filed(F), NEW r, r.path \in Place, r.target \in Place
  PROVE  /\ Filed(Arrived(F, r)) /\ OnlyAt(F, Arrived(F, r), r.target)
         /\ \/ Arrived(F, r)[r.target] = F[r.path]
            \/ Directory(F, r.target) /\ Arrived(F, r)[r.target].kind = "tree"
<1>1. CASE Directory(F, r.target)
  <2> DEFINE k == Kept("tree", stamp + 1)
  <2>1. Arrived(F, r) = [F EXCEPT ![r.target] = k]
    BY <1>1 DEF Arrived
  <2>2. Entry(k) /\ k.kind = "tree"
    BY EntriesFit
  <2> HIDE DEF k
  <2>3. /\ Filed([F EXCEPT ![r.target] = k]) /\ OnlyAt(F, [F EXCEPT ![r.target] = k], r.target)
        /\ [F EXCEPT ![r.target] = k][r.target] = k
    BY <2>2, Placing
  <2> QED
    BY <1>1, <2>1, <2>2, <2>3
<1>2. CASE ~Directory(F, r.target)
  <2>1. Entry(F[r.path])
    BY DEF Filed
  <2> QED
    BY <1>2, <2>1, Placing DEF Arrived
<1> QED
  BY <1>1, <1>2

\* Copies, whole or partial, change the target only.
LEMMA CopiesSpare ==
  ASSUME NEW F, Filed(F), NEW r, r.path \in Place, r.target \in Place, NEW G \in Copies(F, r)
  PROVE  Spares(F, G, r)
<1>1. CASE G \in Partial(F, r)
  <2>1. PICK kind \in {"empty", "tree", "cut"} : G = [F EXCEPT ![r.target] = Kept(kind, stamp + 1)]
    BY <1>1 DEF Partial
  <2> QED
    BY <2>1, Placing, EntriesFit, TargetOnly
<1>2. CASE G = Arrived(F, r)
  BY <1>2, Arriving, TargetOnly
<1>3. CASE G = F
  BY <1>3, NothingSpares
<1> QED
  BY <1>1, <1>2, <1>3 DEF Copies

\* After what is to be moved has arrived, it may be taken away, or in part.
LEMMA ArrivedSpares ==
  ASSUME NEW F, Filed(F), NEW r, r.path \in Place, r.target \in Place,
         r.action \in {"move", "rename"}, NEW W, Filed(W), OnlyAt(F, W, r.target),
         \/ W[r.target] = F[r.path]
         \/ Directory(F, r.target) /\ W[r.target].kind = "tree",
         NEW G, Filed(G), OnlyAt(W, G, r.path)
  PROVE  Spares(F, G, r)
<1>1. CASE r.path = r.target
  BY <1>1, TargetOnly DEF OnlyAt
<1>2. CASE r.path # r.target
  <2>1. G[r.target] = W[r.target]
    BY <1>2 DEF OnlyAt
  <2> QED
    BY <1>2, <2>1 DEF Spares, OnlyAt
<1> QED
  BY <1>1, <1>2

\* Moves.
LEMMA MovesSpare ==
  ASSUME NEW F, Filed(F), NEW r, r.path \in Place, r.target \in Place, r.action = "move",
         NEW G \in MovePath(F, r)
  PROVE  Spares(F, G, r)
<1> DEFINE W == Arrived(F, r)
<1>1. G \in Copies(F, r) \/ G \in Fails(W, r.path) \/ G = [W EXCEPT ![r.path] = Gone]
  BY DEF MovePath
<1>2. Filed(W) /\ OnlyAt(F, W, r.target)
      /\ (W[r.target] = F[r.path] \/ (Directory(F, r.target) /\ W[r.target].kind = "tree"))
  BY Arriving
<1> HIDE DEF W
<1>3. CASE G \in Copies(F, r)
  BY <1>3, CopiesSpare
<1>4. CASE G \in Fails(W, r.path) \/ G = [W EXCEPT ![r.path] = Gone]
  <2>1. Filed(G) /\ OnlyAt(W, G, r.path)
    BY <1>2, <1>4, Failing, Removing
  <2> QED
    BY <1>2, <2>1, ArrivedSpares
<1> QED
  BY <1>1, <1>3, <1>4

\* Renames.
LEMMA RenamesSpare ==
  ASSUME NEW F, Filed(F), NEW r, r.path \in Place, r.target \in Place, r.action = "rename",
         NEW G \in RenamePath(F, r)
  PROVE  Spares(F, G, r)
<1> DEFINE W == [F EXCEPT ![r.target] = F[r.path]]
<1>1. G = F \/ G = [W EXCEPT ![r.path] = Gone]
  <2>1. [W EXCEPT ![r.path] = Gone] = [F EXCEPT ![r.target] = F[r.path], ![r.path] = Gone]
    OBVIOUS
  <2> QED
    BY <2>1 DEF RenamePath
<1>2. Filed(W) /\ OnlyAt(F, W, r.target) /\ W[r.target] = F[r.path]
  <2>1. Entry(F[r.path])
    BY DEF Filed
  <2> QED
    BY <2>1, Placing
<1> HIDE DEF W
<1>3. CASE G = F
  BY <1>3, NothingSpares
<1>4. CASE G = [W EXCEPT ![r.path] = Gone]
  <2>1. Filed(G) /\ OnlyAt(W, G, r.path)
    BY <1>2, <1>4, Removing
  <2> QED
    BY <1>2, <2>1, ArrivedSpares
<1> QED
  BY <1>1, <1>3, <1>4

\* Every operation with a target.
LEMMA TransfersSpare ==
  ASSUME NEW F, Filed(F), NEW r \in FileRequest, r.action \in Targeted, NEW G \in Transfers(F, r)
  PROVE  Spares(F, G, r)
<1>1. r.path \in Place /\ r.target \in Place
  BY FileAssumption DEF Targeted
<1>2. CASE G = F
  BY <1>2, NothingSpares
<1>3. CASE r.action = "move" /\ G \in MovePath(F, r)
  BY <1>1, <1>3, MovesSpare
<1>4. CASE r.action = "rename" /\ G \in RenamePath(F, r)
  BY <1>1, <1>4, RenamesSpare
<1>5. CASE r.action = "copy" /\ G \in CopyPath(F, r)
  BY <1>1, <1>2, <1>5, CopiesSpare DEF CopyPath
<1> QED
  BY <1>2, <1>3, <1>4, <1>5 DEF Transfers, Targeted

\* Clearing the target leaves everything else, and it as well if it may not go.
LEMMA ClearingFits ==
  ASSUME FilesInv, NEW p \in FileProcess, ClearTarget(p)
  PROVE  LET r == fileOp[p].request
         IN  Filed(files') /\ \A x \in Place : files'[x] # files[x] => x = r.target /\ r.overwrite
<1> DEFINE r == fileOp[p].request
<1>1. CASE ~InTheWay(files, r) /\ files' = [files EXCEPT ![r.target] = Gone]
  <2>1. Filed(files') /\ OnlyAt(files, files', r.target)
    BY <1>1, Removing DEF FilesInv
  <2>2. ASSUME NEW x \in Place, files'[x] # files[x] PROVE x = r.target /\ r.overwrite
    <3>1. x = r.target
      BY <2>1, <2>2 DEF OnlyAt
    <3>2. files'[x] = Gone
      BY <1>1, <3>1 DEF FilesInv, Filed
    <3>3. Present(files, x)
      BY <2>2, <3>2 DEF Present, FilesInv, Filed, Entry
    <3> QED
      BY <1>1, <3>1, <3>3 DEF InTheWay
  <2> QED
    BY <2>1, <2>2
<1>2. CASE files' = files
  BY <1>2 DEF FilesInv
<1>3. ASSUME NEW F \in Fails(files, r.target), files' = F, r.overwrite
      PROVE  Filed(files') /\ \A x \in Place : files'[x] # files[x] => x = r.target /\ r.overwrite
  BY <1>3, Failing DEF OnlyAt, FilesInv
<1> QED
  BY <1>1, <1>2, <1>3 DEF ClearTarget, FileLeaves

\* The operation of one process is replaced by another well-formed one.
LEMMA FileOpsFit ==
  ASSUME FilesInv, NEW p \in FileProcess, NEW o, FileOpShape(o),
         o.pc \in {"idle", "decided", "perform", "transfer"}, o.pc # "idle" => o.request \in FileRequest,
         o.pc = "transfer" => o.request.action \in Targeted,
         fileOp' = [fileOp EXCEPT ![p] = o], Filed(files)'
  PROVE  FilesInv'
<1>1. fileOp' = [q \in FileProcess |-> fileOp'[q]]
      /\ \A q \in FileProcess : fileOp'[q] = IF q = p THEN o ELSE fileOp[q]
  BY DEF FilesInv
<1> QED
  BY <1>1 DEF FilesInv

\* A process that serves nothing.
LEMMA NoFileOpFits == FileOpShape(NoFileOp) /\ NoFileOp.pc = "idle"
BY DEF FileOpShape, FileOpField, NoFileOp

\* Steps that leave files and operations alone.
LEMMA FilesStay == ASSUME FilesInv, UNCHANGED <<files, fileOp>> PROVE FilesInv'
BY DEF FilesInv, Filed

\* An operation that goes on to another step.
LEMMA FileOpProceeds ==
  ASSUME FilesInv, NEW p \in FileProcess, NEW pc \in {"perform", "transfer"},
         fileOp[p].pc \in {"decided", "perform"}, Filed(files)',
         pc = "transfer" => fileOp[p].request.action \in Targeted,
         fileOp' = [fileOp EXCEPT ![p].pc = pc]
  PROVE  FilesInv'
<1> DEFINE o == [fileOp[p] EXCEPT !.pc = pc]
<1>1. FileOpShape(o) /\ o.pc = pc /\ o.request = fileOp[p].request
  BY DEF FilesInv, FileOpShape, FileOpField
<1>2. o.request \in FileRequest /\ fileOp' = [fileOp EXCEPT ![p] = o]
  BY <1>1 DEF FilesInv
<1> HIDE DEF o
<1> QED
  BY <1>1, <1>2, FileOpsFit

\* The steps of the gate keep the invariant of the files.
LEMMA FileStepsFit == ASSUME FilesInv, FileNext PROVE FilesInv'
<1>1. ASSUME NEW p \in FileProcess, NEW r \in FileRequest, NEW id, EvaluateFile(p, r, id)
      PROVE  FilesInv'
  <2> DEFINE o == [pc |-> "decided", request |-> r, id |-> id, decision |-> FileDecision(r)]
  <2>1. FileOpShape(o) /\ o.pc = "decided" /\ o.request = r
    BY DEF FileOpShape, FileOpField
  <2>2. fileOp' = [fileOp EXCEPT ![p] = o] /\ files' = files
    BY <1>1 DEF EvaluateFile
  <2>3. Filed(files)'
    BY <2>2 DEF FilesInv, Filed
  <2> HIDE DEF o
  <2> QED
    BY <2>1, <2>2, <2>3, FileOpsFit
<1>2. ASSUME NEW p \in FileProcess, ClaimFile(p) \/ AdmitFile(p)
      PROVE  FilesInv'
  <2>1. fileOp' = [fileOp EXCEPT ![p].pc = "perform"] /\ files' = files /\ fileOp[p].pc = "decided"
    BY <1>2 DEF ClaimFile, AdmitFile
  <2>2. Filed(files)'
    BY <2>1 DEF FilesInv, Filed
  <2> QED
    BY <2>1, <2>2, FileOpProceeds
<1>3. ASSUME NEW p \in FileProcess, fileOp' = [fileOp EXCEPT ![p] = NoFileOp], Filed(files')
      PROVE  FilesInv'
  <2>1. Filed(files)'
    BY <1>3 DEF Filed
  <2> QED
    BY <1>3, <2>1, FileOpsFit, NoFileOpFits
<1>4. ASSUME NEW p \in FileProcess, RefuseFile(p) \/ FileCrash(p)
      PROVE  FilesInv'
  BY <1>3, <1>4 DEF RefuseFile, FileCrash, FileEnds, FilesInv
<1>5. ASSUME NEW p \in FileProcess, PerformFile(p)
      PROVE  FilesInv'
  <2>1. PICK F \in Outcomes(files, fileOp[p].request) : files' = F
    BY <1>5 DEF PerformFile, FileLeaves
  <2>2. fileOp[p].request \in FileRequest /\ fileOp[p].request.action \notin Targeted
    BY <1>5 DEF PerformFile, FilesInv
  <2>3. Filed(files')
    BY <2>1, <2>2, OutcomesFit DEF FilesInv
  <2> QED
    BY <1>3, <1>5, <2>3 DEF PerformFile, FileEnds
<1>6. ASSUME NEW p \in FileProcess, ClearTarget(p)
      PROVE  FilesInv'
  <2>1. Filed(files')
    BY <1>6, ClearingFits
  <2>2. Filed(files)'
    BY <2>1 DEF Filed
  <2>3. CASE fileOp' = [fileOp EXCEPT ![p].pc = "transfer"]
    BY <1>6, <2>2, <2>3, FileOpProceeds DEF ClearTarget
  <2>4. CASE FileEnds(p)
    BY <1>3, <2>1, <2>4 DEF FileEnds
  <2> QED
    BY <1>6, <2>3, <2>4 DEF ClearTarget
<1>7. ASSUME NEW p \in FileProcess, TransferFile(p)
      PROVE  FilesInv'
  <2>1. PICK F \in Transfers(files, fileOp[p].request) : files' = F
    BY <1>7 DEF TransferFile, FileLeaves
  <2>2. fileOp[p].request \in FileRequest /\ fileOp[p].request.action \in Targeted
    BY <1>7 DEF TransferFile, FilesInv
  <2>3. Filed(files')
    BY <2>1, <2>2, TransfersSpare DEF FilesInv, Spares
  <2> QED
    BY <1>3, <1>7, <2>3 DEF TransferFile, FileEnds
<1>8. ASSUME NEW x \in Place, EditFile(x)
      PROVE  FilesInv'
  <2>1. PICK kind \in FileKind : files' = [files EXCEPT ![x] = Kept(kind, stamp + 1)]
    BY <1>8 DEF EditFile
  <2>2. Entry(Kept(kind, stamp + 1))
    BY FileAssumption, EntriesFit
  <2>3. Filed([files EXCEPT ![x] = Kept(kind, stamp + 1)])
    BY <2>2, Placing DEF FilesInv
  <2>4. Filed(files)'
    BY <2>1, <2>3 DEF Filed
  <2> QED
    BY <1>8, <2>4 DEF EditFile, FilesInv
<1>9. CASE UNCHANGED <<files, fileOp>>
  BY <1>9, FilesStay
<1>10. FileNext => \/ UNCHANGED <<files, fileOp>>
                   \/ \E p \in FileProcess, r \in FileRequest, id \in FileId \cup {None} : EvaluateFile(p, r, id)
                   \/ \E p \in FileProcess : \/ ClaimFile(p) \/ AdmitFile(p) \/ RefuseFile(p)
                                             \/ PerformFile(p) \/ ClearTarget(p) \/ TransferFile(p)
                                             \/ FileCrash(p)
                   \/ \E x \in Place : EditFile(x)
  BY DEF FileNext, RequestFile, ApproveFile, DenyFile, FileExpires
<1> QED
  BY <1>1, <1>2, <1>4, <1>5, <1>6, <1>7, <1>8, <1>9, <1>10

\* The invariant of the files holds at first.
LEMMA FilesStart == ASSUME GatesInit PROVE FilesInv
<1>1. files \in [Place -> {Gone} \cup {Kept(kind, 0) : kind \in FileKind}]
      /\ fileOp = [p \in FileProcess |-> NoFileOp]
  BY DEF GatesInit, FileInit
<1>2. Entry(Gone) /\ \A kind \in FileKind : Entry(Kept(kind, 0))
  BY FileAssumption, EntriesFit
<1>3. Filed(files)
  BY <1>1, <1>2 DEF Filed
<1> QED
  BY <1>1, <1>3, NoFileOpFits DEF FilesInv

\* Every step of every gate keeps the invariant of the files.
LEMMA FilesHold == ASSUME FilesInv, [GatesNext]_gateVars PROVE FilesInv'
<1>1. CASE FileNext
  BY <1>1, FileStepsFit
<1>2. CASE UNCHANGED <<files, fileOp>>
  BY <1>2, FilesStay
<1> QED
  BY <1>1, <1>2
  DEF GatesNext, FileStep, CommandStep, ProviderStep, ToolStep, NetworkStep, WorldStep,
      OtherThanCalls, gateVars, fileVars

\* Only its own steps go on with an operation, and they spare the files.
LEMMA SparingStep ==
  ASSUME FilesInv, [GatesNext]_gateVars, NEW p \in FileProcess,
         fileOp[p].pc \in {"perform", "transfer"}, fileOp'[p] # fileOp[p],
         NEW x \in Place, files'[x] # files[x]
  PROVE  LET o == fileOp[p]
             r == o.request
         IN  \/ x = r.path /\ r.action \in {"write", "binary_write", "delete"}
             \/ x = r.target /\ (o.pc = "perform" => r.overwrite)
             \/ x = r.path /\ r.action \in {"move", "rename"} /\ o.pc = "transfer"
                           /\ Landed(x, r.target)
<1> DEFINE r == fileOp[p].request
           goal == \/ x = r.path /\ r.action \in {"write", "binary_write", "delete"}
                   \/ x = r.target /\ (fileOp[p].pc = "perform" => r.overwrite)
                   \/ x = r.path /\ r.action \in {"move", "rename"} /\ fileOp[p].pc = "transfer"
                                 /\ Landed(x, r.target)
<1>1. r \in FileRequest
  BY DEF FilesInv
<1>2. fileOp' # fileOp /\ files' # files
  OBVIOUS
<1>3. ASSUME NEW q \in FileProcess, NEW o, fileOp' = [fileOp EXCEPT ![q] = o] PROVE q = p
  BY <1>3 DEF FilesInv
<1>4. ASSUME NEW q \in FileProcess, PerformFile(q) PROVE goal
  <2>1. q = p /\ fileOp[p].pc = "perform" /\ r.action \notin Targeted
    BY <1>3, <1>4 DEF PerformFile, FileEnds
  <2>2. PICK F \in Outcomes(files, r) : files' = F
    BY <1>4, <2>1 DEF PerformFile, FileLeaves
  <2> QED
    BY <1>1, <2>1, <2>2, OutcomesFit DEF FilesInv
<1>5. ASSUME NEW q \in FileProcess, ClearTarget(q) PROVE goal
  <2>1. q = p
    BY <1>3, <1>5 DEF ClearTarget, FileEnds
  <2> QED
    BY <1>5, <2>1, ClearingFits
<1>6. ASSUME NEW q \in FileProcess, TransferFile(q) PROVE goal
  <2>1. q = p /\ fileOp[p].pc = "transfer" /\ r.action \in Targeted
    BY <1>3, <1>6 DEF TransferFile, FileEnds, FilesInv
  <2>2. PICK F \in Transfers(files, r) : files' = F
    BY <1>6, <2>1 DEF TransferFile, FileLeaves
  <2>3. Spares(files, files', r)
    BY <1>1, <2>1, <2>2, TransfersSpare DEF FilesInv
  <2> QED
    BY <2>1, <2>3 DEF Spares, Landed
<1>7. CASE FileNext
  BY <1>2, <1>4, <1>5, <1>6, <1>7
  DEF FileNext, RequestFile, ApproveFile, DenyFile, FileExpires, EvaluateFile, ClaimFile,
      AdmitFile, RefuseFile, FileCrash, EditFile
<1> QED
  BY <1>2, <1>7
  DEF GatesNext, FileStep, CommandStep, ProviderStep, ToolStep, NetworkStep, WorldStep,
      OtherThanCalls, gateVars, fileVars

(* Whatever the places, requests and processes: however a file operation ends,
   it has only changed what it was told to, and a move loses its source only
   when that has reached the target (guardrails.py:1378). *)
THEOREM SourcesAreKept == GatesSpec => SourcesSurvive
<1>1. GatesInit => FilesInv
  BY FilesStart
<1>2. FilesInv /\ [GatesNext]_gateVars => FilesInv'
  BY FilesHold
<1>3. FilesInv /\ [GatesNext]_gateVars =>
        [\A p \in FileProcess :
         LET o == fileOp[p]
             r == o.request
         IN  o.pc \in {"perform", "transfer"} /\ fileOp'[p] # o =>
                \A x \in Place : files'[x] # files[x] =>
                    \/ x = r.path /\ r.action \in {"write", "binary_write", "delete"}
                    \/ x = r.target /\ (o.pc = "perform" => r.overwrite)
                    \/ x = r.path /\ r.action \in {"move", "rename"} /\ o.pc = "transfer"
                                  /\ Landed(x, r.target)]_gateVars
  BY SparingStep
<1> QED
  BY <1>1, <1>2, <1>3, PTL DEF GatesSpec, SourcesSurvive

----------------------------------------------------------------------------
(* Approvals: the records of a gate, and how a step may replace one of them. *)

\* A record of an approval, of whatever gate.
Slip(x) == x = [f \in DOMAIN x |-> x[f]] /\ {"status", "expired", "bound"} \subseteq DOMAIN x

Legal(from, to) ==
    \/ from = "absent" /\ to = "pending"
    \/ from = "pending" /\ to \in {"approved", "denied"}
    \/ from = "approved" /\ to = "executed"

Entries(S, ids) == S = [id \in ids |-> S[id]] /\ \A id \in ids : Slip(S[id])

\* One record of S is replaced as approvals are.
Turn(S, T, ids) ==
    \E id \in ids : \E x :
        /\ T = [S EXCEPT ![id] = x] /\ Slip(x)
        /\ x.status = S[id].status \/ Legal(S[id].status, x.status)
        /\ S[id].status # "absent" => x.bound = S[id].bound

\* Records that have just been made.
LEMMA NewSlip == \A b : /\ Slip(NoApproval) /\ NoApproval.status = "absent"
                        /\ Slip(NewApproval(b)) /\ NewApproval(b).status = "pending" /\ NewApproval(b).bound = b
BY DEF Slip, NoApproval, NewApproval

\* A record that is answered.
LEMMA SlipDecided ==
  ASSUME NEW x, Slip(x), NEW v
  PROVE  Slip(Decided(x, v)) /\ Decided(x, v).status = v /\ Decided(x, v).bound = x.bound
BY DEF Slip, Decided

\* A record that is used up.
LEMMA SlipClaimed ==
  ASSUME NEW x, Slip(x)
  PROVE  Slip(Claimed(x)) /\ Claimed(x).status = "executed" /\ Claimed(x).bound = x.bound
BY DEF Slip, Claimed

\* A record that expires.
LEMMA SlipExpired ==
  ASSUME NEW x, Slip(x)
  PROVE  LET y == [x EXCEPT !.expired = TRUE]
         IN  Slip(y) /\ y.status = x.status /\ y.bound = x.bound
BY DEF Slip

\* Replacing one record keeps the others, and what is used up stays used up.
LEMMA Turning ==
  ASSUME NEW ids, NEW S, NEW T, Entries(S, ids), Turn(S, T, ids)
  PROVE  /\ Entries(T, ids)
         /\ \A id \in ids : S[id].status = "executed" =>
                T[id].status = "executed" /\ T[id].bound = S[id].bound
         /\ \E id \in ids :
                /\ T[id].status = S[id].status \/ Legal(S[id].status, T[id].status)
                /\ \A other \in ids \ {id} : T[other].status = S[other].status
<1>1. PICK id, x :
        /\ id \in ids
        /\ T = [S EXCEPT ![id] = x] /\ Slip(x)
        /\ x.status = S[id].status \/ Legal(S[id].status, x.status)
        /\ S[id].status # "absent" => x.bound = S[id].bound
  BY DEF Turn
<1>2. \A other \in ids : T[other] = IF other = id THEN x ELSE S[other]
  BY <1>1 DEF Entries
<1>3. T = [other \in ids |-> T[other]]
  BY <1>1 DEF Entries
<1>4. Entries(T, ids)
  BY <1>1, <1>2, <1>3 DEF Entries
<1> QED
  BY <1>1, <1>2, <1>4 DEF Legal

----------------------------------------------------------------------------

\* What a step does to the approvals S of a gate and the acts A they have let
\* through: one record moves on, or one that is used up is acted upon.
Books(S, T, A, B, ids) ==
    \/ Turn(S, T, ids) /\ B = A
    \/ /\ T = S
       /\ \E id \in ids : S[id].status = "executed" /\ A[id] = 0 /\ B = [A EXCEPT ![id] = 1]
    \/ T = S /\ B = A

\* Only what is used up has been acted upon.
Balanced(S, A, ids) ==
    /\ Entries(S, ids)
    /\ A = [id \in ids |-> A[id]]
    /\ \A id \in ids : S[id].status # "executed" => A[id] = 0

\* Nothing has been acted upon at first.
LEMMA BalanceStarts ==
  ASSUME NEW ids
  PROVE  Balanced([id \in ids |-> NoApproval], [id \in ids |-> 0], ids)
<1>1. Slip(NoApproval)
  BY NewSlip
<1> QED
  BY <1>1 DEF Balanced, Entries

\* Steps of the books keep them balanced.
LEMMA BalanceKept ==
  ASSUME NEW S, NEW T, NEW A, NEW B, NEW ids, Balanced(S, A, ids), Books(S, T, A, B, ids)
  PROVE  Balanced(T, B, ids)
<1>1. CASE Turn(S, T, ids) /\ B = A
  BY <1>1, Turning DEF Balanced
<1>2. CASE T = S /\ \E id \in ids : S[id].status = "executed" /\ A[id] = 0 /\ B = [A EXCEPT ![id] = 1]
  BY <1>2 DEF Balanced
<1>3. CASE T = S /\ B = A
  BY <1>3 DEF Balanced
<1> QED
  BY <1>1, <1>2, <1>3 DEF Books

\* The moves that all gates have in common.
LEMMA CommonMoves ==
  ASSUME NEW S, NEW ids, Entries(S, ids), NEW id \in ids
  PROVE  /\ \A b : S[id].status = "absent" => Turn(S, [S EXCEPT ![id] = NewApproval(b)], ids)
         /\ \A v \in {"approved", "denied"} :
               S[id].status = "pending" => Turn(S, [S EXCEPT ![id] = Decided(@, v)], ids)
         /\ S[id].status \in {"pending", "approved"} =>
               Turn(S, [S EXCEPT ![id].expired = TRUE], ids)
         /\ S[id].status = "approved" => Turn(S, [S EXCEPT ![id] = Claimed(@)], ids)
<1>1. Slip(S[id])
  BY DEF Entries
<1>2. ASSUME NEW x, Slip(x),
             x.status = S[id].status \/ Legal(S[id].status, x.status),
             S[id].status # "absent" => x.bound = S[id].bound
      PROVE  Turn(S, [S EXCEPT ![id] = x], ids)
  BY <1>2 DEF Turn
<1>3. \A b : S[id].status = "absent" => Turn(S, [S EXCEPT ![id] = NewApproval(b)], ids)
  BY <1>2, NewSlip DEF Legal
<1>4. ASSUME NEW v \in {"approved", "denied"}, S[id].status = "pending"
      PROVE  Turn(S, [S EXCEPT ![id] = Decided(@, v)], ids)
  <2>1. Slip(Decided(S[id], v)) /\ Decided(S[id], v).status = v /\ Decided(S[id], v).bound = S[id].bound
    BY <1>1, SlipDecided
  <2>2. Turn(S, [S EXCEPT ![id] = Decided(S[id], v)], ids)
    BY <1>2, <1>4, <2>1 DEF Legal
  <2> QED
    BY <2>2
<1>5. Turn(S, [S EXCEPT ![id].expired = TRUE], ids)
  <2> DEFINE y == [S[id] EXCEPT !.expired = TRUE]
  <2>1. Slip(y) /\ y.status = S[id].status /\ y.bound = S[id].bound
    BY <1>1, SlipExpired
  <2>2. [S EXCEPT ![id].expired = TRUE] = [S EXCEPT ![id] = y]
    OBVIOUS
  <2> HIDE DEF y
  <2> QED
    BY <1>2, <2>1, <2>2
<1>6. S[id].status = "approved" => Turn(S, [S EXCEPT ![id] = Claimed(@)], ids)
  <2>1. Slip(Claimed(S[id])) /\ Claimed(S[id]).status = "executed" /\ Claimed(S[id]).bound = S[id].bound
    BY <1>1, SlipClaimed
  <2>2. S[id].status = "approved" => Turn(S, [S EXCEPT ![id] = Claimed(S[id])], ids)
    BY <1>2, <2>1 DEF Legal
  <2> QED
    BY <2>2
<1> QED
  BY <1>3, <1>4, <1>5, <1>6

\* The record that a step of an operation of its gate uses up is the one claimed.
LEMMA ClaimUsesUp ==
  ASSUME NEW S, NEW ids, Entries(S, ids), NEW id \in ids, S[id].status = "approved"
  PROVE  LET T == [S EXCEPT ![id] = Claimed(@)]
         IN  T[id].status = "executed" /\ T[id].bound = S[id].bound
BY SlipClaimed DEF Entries

----------------------------------------------------------------------------

Going(o) == o.pc \in {"perform", "transfer"}

\* An operation that goes ahead is backed by a record, or needs none.
FileBacked(o, S, A) ==
    /\ Going(o) =>
          /\ o.id # None => /\ S[o.id].status = "executed"
                            /\ S[o.id].bound.request = o.request
                            /\ S[o.id].bound.decision = o.decision
          /\ o.id = None /\ o.decision.mode = "approval" => Environment = "development"
    /\ o.pc = "perform" /\ o.id # None => A[o.id] = 0

FileLedgerInv ==
    /\ FilesInv
    /\ Balanced(fileApprovals, fileActs, FileId)
    /\ \A p \in FileProcess :
          /\ fileOp[p].pc # "idle" => fileOp[p].id \in FileId \cup {None}
          /\ FileBacked(fileOp[p], fileApprovals, fileActs)
    /\ \A p, q \in FileProcess :
          p # q /\ Going(fileOp[p]) /\ Going(fileOp[q]) /\ fileOp[p].id # None =>
              fileOp[q].id # fileOp[p].id

FileBooks == Books(fileApprovals, fileApprovals', fileActs, fileActs', FileId)

\* The operation of one process moves on, the records stay or turn.
LEMMA FileOneMoves ==
  ASSUME FileLedgerInv, FilesInv', NEW p \in FileProcess, NEW o,
         fileOp' = [fileOp EXCEPT ![p] = o],
         \/ fileApprovals' = fileApprovals
         \/ Turn(fileApprovals, fileApprovals', FileId),
         fileActs' = fileActs,
         o.pc # "idle" => o.id \in FileId \cup {None},
         FileBacked(o, fileApprovals', fileActs'),
         Going(o) /\ o.id # None =>
             \A q \in FileProcess \ {p} : Going(fileOp[q]) => fileOp[q].id # o.id
  PROVE  FileLedgerInv' /\ FileBooks
<1>1. FileBooks
  BY DEF FileBooks, Books
<1>2. Balanced(fileApprovals, fileActs, FileId)'
  BY <1>1, BalanceKept DEF FileBooks, FileLedgerInv
<1>3. \A q \in FileProcess : fileOp'[q] = IF q = p THEN o ELSE fileOp[q]
  BY DEF FileLedgerInv, FilesInv
<1>4. \A id \in FileId : fileApprovals[id].status = "executed" =>
          fileApprovals'[id].status = "executed" /\ fileApprovals'[id].bound = fileApprovals[id].bound
  BY Turning DEF FileLedgerInv, Balanced
<1>5. \A q \in FileProcess : fileOp'[q].pc # "idle" => fileOp'[q].id \in FileId \cup {None}
  BY <1>3 DEF FileLedgerInv
<1>6. ASSUME NEW q \in FileProcess, q # p
      PROVE  FileBacked(fileOp'[q], fileApprovals', fileActs')
  BY <1>3, <1>4, <1>6 DEF FileLedgerInv, FileBacked, Going
<1>7. \A q, s \in FileProcess :
          q # s /\ Going(fileOp'[q]) /\ Going(fileOp'[s]) /\ fileOp'[q].id # None =>
              fileOp'[s].id # fileOp'[q].id
  BY <1>3 DEF FileLedgerInv
<1> QED
  BY <1>1, <1>2, <1>3, <1>5, <1>6, <1>7 DEF FileLedgerInv

\* Records of the file gate turn while no operation moves.
LEMMA FileRecordsMove ==
  ASSUME FileLedgerInv, FilesInv',
         \/ fileApprovals' = fileApprovals
         \/ Turn(fileApprovals, fileApprovals', FileId),
         UNCHANGED <<fileOp, fileActs>>
  PROVE  FileLedgerInv' /\ FileBooks
<1>1. FileBooks
  BY DEF FileBooks, Books
<1>2. Balanced(fileApprovals, fileActs, FileId)'
  BY <1>1, BalanceKept DEF FileBooks, FileLedgerInv
<1>3. \A id \in FileId : fileApprovals[id].status = "executed" =>
          fileApprovals'[id].status = "executed" /\ fileApprovals'[id].bound = fileApprovals[id].bound
  BY Turning DEF FileLedgerInv, Balanced
<1>4. \A q \in FileProcess : FileBacked(fileOp[q], fileApprovals', fileActs')
  BY <1>3 DEF FileLedgerInv, FileBacked, Going
<1> QED
  BY <1>1, <1>2, <1>4 DEF FileLedgerInv

\* A file operation acts once on its record, and ends or goes on.
LEMMA FileActed ==
  ASSUME FileLedgerInv, FilesInv', NEW p \in FileProcess, NEW o,
         fileOp[p].pc = "perform", fileOp' = [fileOp EXCEPT ![p] = o],
         o.pc = "idle" \/ (/\ o.pc = "transfer" /\ o.id = fileOp[p].id
                           /\ o.request = fileOp[p].request /\ o.decision = fileOp[p].decision),
         fileApprovals' = fileApprovals,
         fileActs' = IF fileOp[p].id = None THEN fileActs ELSE [fileActs EXCEPT ![fileOp[p].id] = @ + 1]
  PROVE  FileLedgerInv' /\ FileBooks
<1> DEFINE id == fileOp[p].id
<1>1. FileBacked(fileOp[p], fileApprovals, fileActs) /\ id \in FileId \cup {None}
  BY DEF FileLedgerInv
<1>2. id # None => /\ fileApprovals[id].status = "executed" /\ fileActs[id] = 0
                   /\ fileActs' = [fileActs EXCEPT ![id] = 1]
  <2>1. id # None => fileApprovals[id].status = "executed" /\ fileActs[id] = 0
    BY <1>1 DEF FileBacked, Going
  <2>2. ASSUME id # None PROVE fileActs' = [fileActs EXCEPT ![id] = 1]
    <3>1. fileActs' = [fileActs EXCEPT ![id] = fileActs[id] + 1]
      BY <2>2
    <3>2. fileActs[id] + 1 = 1
      BY <2>1, <2>2
    <3> HIDE DEF id
    <3> QED
      BY <3>1, <3>2
  <2> QED
    BY <2>1, <2>2
<1>3. FileBooks
  BY <1>1, <1>2 DEF FileBooks, Books
<1>4. Balanced(fileApprovals, fileActs, FileId)'
  BY <1>3, BalanceKept DEF FileBooks, FileLedgerInv
<1>5. \A q \in FileProcess : fileOp'[q] = IF q = p THEN o ELSE fileOp[q]
  BY DEF FileLedgerInv, FilesInv
<1>6. \A q \in FileProcess \ {p} : fileOp[q].pc = "perform" /\ fileOp[q].id # None =>
          fileActs'[fileOp[q].id] = fileActs[fileOp[q].id]
  BY <1>2 DEF FileLedgerInv, Balanced, Going
<1>7. FileBacked(o, fileApprovals', fileActs')
  BY <1>1 DEF FileBacked, Going
<1>8. \A q \in FileProcess : FileBacked(fileOp'[q], fileApprovals', fileActs')
  BY <1>5, <1>6, <1>7 DEF FileLedgerInv, FileBacked
<1>9. \A q \in FileProcess : fileOp'[q].pc # "idle" => fileOp'[q].id \in FileId \cup {None}
  BY <1>1, <1>5 DEF FileLedgerInv
<1>10. \A q, s \in FileProcess :
          q # s /\ Going(fileOp'[q]) /\ Going(fileOp'[s]) /\ fileOp'[q].id # None =>
              fileOp'[s].id # fileOp'[q].id
  <2>1. Going(o) => o.id = id /\ Going(fileOp[p])
    BY DEF Going
  <2> QED
    BY <1>5, <2>1 DEF FileLedgerInv
<1> QED
  BY <1>3, <1>4, <1>8, <1>9, <1>10 DEF FileLedgerInv

\* The steps of an operation that act.
LEMMA FilePerformed ==
  ASSUME FileLedgerInv, FilesInv', NEW p \in FileProcess, PerformFile(p) \/ ClearTarget(p)
  PROVE  FileLedgerInv' /\ FileBooks
<1> DEFINE o == [fileOp[p] EXCEPT !.pc = "transfer"]
<1>1. /\ fileOp[p].pc = "perform" /\ fileApprovals' = fileApprovals
      /\ fileOp' = [fileOp EXCEPT ![p] = NoFileOp] \/ fileOp' = [fileOp EXCEPT ![p] = o]
      /\ fileActs' = IF fileOp[p].id = None THEN fileActs ELSE [fileActs EXCEPT ![fileOp[p].id] = @ + 1]
  BY DEF PerformFile, ClearTarget, FileEnds
<1>2. /\ o.pc = "transfer" /\ o.id = fileOp[p].id
      /\ o.request = fileOp[p].request /\ o.decision = fileOp[p].decision
  BY DEF FileLedgerInv, FilesInv, FileOpShape, FileOpField
<1> HIDE DEF o
<1> QED
  BY <1>1, <1>2, FileActed, NoFileOpFits

\* An operation that has acted ends.
LEMMA FileTransferred ==
  ASSUME FileLedgerInv, FilesInv', NEW p \in FileProcess, TransferFile(p)
  PROVE  FileLedgerInv' /\ FileBooks
<1>1. fileOp' = [fileOp EXCEPT ![p] = NoFileOp] /\ UNCHANGED <<fileActs, fileApprovals>>
  BY DEF TransferFile, FileEnds
<1> QED
  BY <1>1, FileOneMoves, NoFileOpFits DEF FileBacked, Going

\* The record that is claimed was free, so that no other operation has it.
LEMMA FileClaimed ==
  ASSUME FileLedgerInv, FilesInv', NEW p \in FileProcess, ClaimFile(p)
  PROVE  FileLedgerInv' /\ FileBooks
<1> DEFINE id == fileOp[p].id
           o == [fileOp[p] EXCEPT !.pc = "perform"]
<1>1. /\ fileOp[p].pc = "decided" /\ id # None
      /\ Claimable(fileApprovals[id], FileBinding(fileOp[p].request, fileOp[p].decision))
      /\ fileApprovals' = [fileApprovals EXCEPT ![id] = Claimed(@)]
      /\ fileOp' = [fileOp EXCEPT ![p] = o] /\ fileActs' = fileActs
  BY DEF ClaimFile, FileClaimable
<1>2. /\ id \in FileId /\ fileApprovals[id].status = "approved"
      /\ fileApprovals[id].bound.request = fileOp[p].request
      /\ fileApprovals[id].bound.decision = fileOp[p].decision
  BY <1>1 DEF FileLedgerInv, Claimable, FileBinding
<1>3. /\ o.pc = "perform" /\ o.id = id /\ o.request = fileOp[p].request
      /\ o.decision = fileOp[p].decision
  BY DEF FileLedgerInv, FilesInv, FileOpShape, FileOpField
<1>4. Turn(fileApprovals, fileApprovals', FileId)
  BY <1>1, <1>2, CommonMoves DEF FileLedgerInv, Balanced
<1>5. fileApprovals'[id].status = "executed" /\ fileApprovals'[id].bound = fileApprovals[id].bound
  BY <1>1, <1>2, ClaimUsesUp DEF FileLedgerInv, Balanced
<1>6. fileActs[id] = 0
  BY <1>2 DEF FileLedgerInv, Balanced
<1> HIDE DEF o, id
<1>7. FileBacked(o, fileApprovals', fileActs')
  BY <1>1, <1>2, <1>3, <1>5, <1>6 DEF FileBacked
<1>8. \A q \in FileProcess : Going(fileOp[q]) => fileOp[q].id # o.id
  BY <1>1, <1>2, <1>3 DEF FileLedgerInv, FileBacked
<1> QED
  BY <1>1, <1>2, <1>3, <1>4, <1>7, <1>8, FileOneMoves

\* An operation goes ahead without a record.
LEMMA FileAdmitted ==
  ASSUME FileLedgerInv, FilesInv', NEW p \in FileProcess, AdmitFile(p)
  PROVE  FileLedgerInv' /\ FileBooks
<1> DEFINE o == [fileOp[p] EXCEPT !.pc = "perform"]
<1>1. /\ fileOp[p].id = None
      /\ fileOp[p].decision.mode = "approval" => Environment = "development"
      /\ fileOp' = [fileOp EXCEPT ![p] = o] /\ UNCHANGED <<fileActs, fileApprovals>>
  BY DEF AdmitFile, Admissible
<1>2. o.pc = "perform" /\ o.id = None /\ o.decision = fileOp[p].decision
  BY <1>1 DEF FileLedgerInv, FilesInv, FileOpShape, FileOpField
<1> HIDE DEF o
<1>3. FileBacked(o, fileApprovals', fileActs')
  BY <1>1, <1>2 DEF FileBacked
<1> QED
  BY <1>1, <1>2, <1>3, FileOneMoves

\* A request is decided.
LEMMA FileEvaluated ==
  ASSUME FileLedgerInv, FilesInv', NEW p \in FileProcess, NEW r, NEW id \in FileId \cup {None},
         EvaluateFile(p, r, id)
  PROVE  FileLedgerInv' /\ FileBooks
<1> DEFINE o == [pc |-> "decided", request |-> r, id |-> id, decision |-> FileDecision(r)]
<1>1. fileOp' = [fileOp EXCEPT ![p] = o] /\ UNCHANGED <<fileActs, fileApprovals>>
  BY DEF EvaluateFile
<1>2. o.pc = "decided" /\ o.id = id
  OBVIOUS
<1> HIDE DEF o
<1> QED
  BY <1>1, <1>2, FileOneMoves DEF FileBacked, Going

\* A request is refused, or its process stops.
LEMMA FileStopped ==
  ASSUME FileLedgerInv, FilesInv', NEW p \in FileProcess, RefuseFile(p) \/ FileCrash(p)
  PROVE  FileLedgerInv' /\ FileBooks
<1>1. fileOp' = [fileOp EXCEPT ![p] = NoFileOp] /\ UNCHANGED <<fileActs, fileApprovals>>
  BY DEF RefuseFile, FileCrash, FileEnds
<1> QED
  BY <1>1, FileOneMoves, NoFileOpFits DEF FileBacked, Going

\* File approvals are asked for, answered, and expire.
LEMMA FileApprovalsMove ==
  ASSUME FileLedgerInv, FilesInv', NEW id \in FileId,
         \/ \E p \in FileProcess, r \in FileRequest : RequestFile(p, id, r)
         \/ ApproveFile(id) \/ DenyFile(id) \/ FileExpires(id)
  PROVE  FileLedgerInv' /\ FileBooks
<1>1. Entries(fileApprovals, FileId)
  BY DEF FileLedgerInv, Balanced
<1>2. Turn(fileApprovals, fileApprovals', FileId)
  <2>1. ASSUME NEW p \in FileProcess, NEW r \in FileRequest, RequestFile(p, id, r)
        PROVE  Turn(fileApprovals, fileApprovals', FileId)
    BY <1>1, <2>1, CommonMoves DEF RequestFile
  <2>2. CASE ApproveFile(id)
    BY <1>1, <2>2, CommonMoves DEF ApproveFile, Approvable
  <2>3. CASE DenyFile(id)
    BY <1>1, <2>3, CommonMoves DEF DenyFile, Deniable
  <2>4. CASE FileExpires(id)
    BY <1>1, <2>4, CommonMoves DEF FileExpires
  <2> QED
    BY <2>1, <2>2, <2>3, <2>4
<1>3. UNCHANGED <<fileOp, fileActs>>
  BY DEF RequestFile, ApproveFile, DenyFile, FileExpires
<1> QED
  BY <1>2, <1>3, FileRecordsMove

\* Every step of every gate keeps the books of the file gate.
LEMMA FileLedgerHolds ==
  ASSUME FileLedgerInv, [GatesNext]_gateVars
  PROVE  FileLedgerInv' /\ FileBooks
<1>1. FilesInv'
  BY FilesHold DEF FileLedgerInv
<1>2. CASE FileNext
  <2>1. CASE \E p \in FileProcess, id \in FileId, r \in FileRequest : RequestFile(p, id, r)
    BY <1>1, <2>1, FileApprovalsMove
  <2>2. CASE \E id \in FileId : ApproveFile(id) \/ DenyFile(id) \/ FileExpires(id)
    BY <1>1, <2>2, FileApprovalsMove
  <2>3. CASE \E p \in FileProcess, r \in FileRequest, id \in FileId \cup {None} : EvaluateFile(p, r, id)
    BY <1>1, <2>3, FileEvaluated
  <2>4. CASE \E p \in FileProcess : ClaimFile(p)
    BY <1>1, <2>4, FileClaimed
  <2>5. CASE \E p \in FileProcess : AdmitFile(p)
    BY <1>1, <2>5, FileAdmitted
  <2>6. CASE \E p \in FileProcess : RefuseFile(p) \/ FileCrash(p)
    BY <1>1, <2>6, FileStopped
  <2>7. CASE \E p \in FileProcess : PerformFile(p) \/ ClearTarget(p) \/ TransferFile(p)
    BY <1>1, <2>7, FilePerformed, FileTransferred
  <2>8. CASE \E x \in Place : EditFile(x)
    BY <1>1, <2>8, FileRecordsMove DEF EditFile
  <2> QED
    BY <1>2, <2>1, <2>2, <2>3, <2>4, <2>5, <2>6, <2>7, <2>8 DEF FileNext
<1>3. CASE UNCHANGED <<fileApprovals, fileOp, fileActs>>
  BY <1>1, <1>3, FileRecordsMove
<1> QED
  BY <1>2, <1>3
  DEF GatesNext, FileStep, CommandStep, ProviderStep, ToolStep, NetworkStep, WorldStep,
      OtherThanCalls, gateVars, fileVars

\* The books of the file gate are balanced at first.
LEMMA FileLedgerStarts == ASSUME GatesInit PROVE FileLedgerInv
<1>1. /\ fileApprovals = [id \in FileId |-> NoApproval] /\ fileActs = [id \in FileId |-> 0]
      /\ fileOp = [p \in FileProcess |-> NoFileOp]
  BY DEF GatesInit, FileInit
<1>2. Balanced(fileApprovals, fileActs, FileId)
  BY <1>1, BalanceStarts
<1> QED
  BY <1>1, <1>2, FilesStart, NoFileOpFits DEF FileLedgerInv, FileBacked, Going

----------------------------------------------------------------------------
(* Commands. *)

CommandOpField == {"pc", "request", "id", "background", "decision", "outcome"}

CommandOpShape(o) == o = [f \in CommandOpField |-> o[f]]

\* As with files; and the record has not been acted upon before the launch.
CommandBacked(o, S, A) ==
    /\ o.pc # "idle" => o.id \in CommandId \cup {None}
    /\ o.pc \in {"launch", "record", "mark"} =>
        /\ o.pc = "mark" => o.id # None
        /\ o.id # None => /\ S[o.id].status = "executed"
                          /\ S[o.id].bound.request = o.request
                          /\ S[o.id].bound.decision = o.decision
                          /\ o.pc = "launch" \/ o.background = TRUE => A[o.id] = 0
        /\ o.id = None /\ o.decision.mode = "approval" => CommandEnvironment = "development"

\* What is safe needs no record, and names none.
CommandSafe(o) == o.pc = "authorize" /\ o.decision.mode = "safe" => o.id = None

CommandLedgerInv ==
    /\ Balanced(commandApprovals, commandActs, CommandId)
    /\ CommandOpShape(commandOp) /\ commandOp.background \in BOOLEAN
    /\ commandOp.pc \in {"idle", "authorize", "launch", "record", "mark"}
    /\ CommandBacked(commandOp, commandApprovals, commandActs)
    /\ CommandSafe(commandOp)

CommandBooks == Books(commandApprovals, commandApprovals', commandActs, commandActs', CommandId)

\* No command is served.
LEMMA NoCommandOpFits ==
  CommandOpShape(NoCommandOp) /\ NoCommandOp.pc = "idle" /\ NoCommandOp.background \in BOOLEAN
BY DEF CommandOpShape, CommandOpField, NoCommandOp

\* Records of commands, which name the run that used them.
LEMMA SlipWithRun ==
  /\ \A b : LET x == CommandApproval(NewApproval(b), "none")
            IN  Slip(x) /\ x.status = "pending" /\ x.bound = b
  /\ LET x == CommandApproval(NoApproval, "none") IN Slip(x) /\ x.status = "absent"
BY DEF Slip, CommandApproval, NewApproval, NoApproval

\* The mark after the run changes nothing of a record that is used up.
LEMMA SlipMarked ==
  ASSUME NEW x, Slip(x), NEW run
  PROVE  LET y == [Claimed(x) EXCEPT !.run = run]
         IN  Slip(y) /\ y.status = "executed" /\ y.bound = x.bound
BY DEF Slip, Claimed

\* Nothing is launched: the records stay or turn, and the operation is backed.
LEMMA CommandMoves ==
  ASSUME CommandLedgerInv, CommandOpShape(commandOp)', (commandOp.background \in BOOLEAN)',
         (commandOp.pc \in {"idle", "authorize", "launch", "record", "mark"})',
         \/ commandApprovals' = commandApprovals
         \/ Turn(commandApprovals, commandApprovals', CommandId),
         commandActs' = commandActs,
         CommandBacked(commandOp', commandApprovals', commandActs'), CommandSafe(commandOp')
  PROVE  CommandLedgerInv' /\ CommandBooks
<1>1. CommandBooks
  BY DEF CommandBooks, Books
<1>2. Balanced(commandApprovals, commandActs, CommandId)'
  BY <1>1, BalanceKept DEF CommandBooks, CommandLedgerInv
<1> QED
  BY <1>1, <1>2 DEF CommandLedgerInv

\* Records of the command gate turn while the operation stays.
LEMMA CommandRecordsMove ==
  ASSUME CommandLedgerInv,
         \/ commandApprovals' = commandApprovals
         \/ Turn(commandApprovals, commandApprovals', CommandId),
         UNCHANGED <<commandOp, commandActs>>
  PROVE  CommandLedgerInv' /\ CommandBooks
<1>1. \A id \in CommandId : commandApprovals[id].status = "executed" =>
          /\ commandApprovals'[id].status = "executed"
          /\ commandApprovals'[id].bound = commandApprovals[id].bound
  BY Turning DEF CommandLedgerInv, Balanced
<1>2. CommandBacked(commandOp', commandApprovals', commandActs')
  BY <1>1 DEF CommandLedgerInv, CommandBacked
<1> QED
  BY <1>2, CommandMoves DEF CommandLedgerInv, CommandSafe

\* A request is decided.
LEMMA CommandEvaluated ==
  ASSUME CommandLedgerInv, NEW r, NEW id \in CommandId \cup {None}, NEW background \in BOOLEAN,
         EvaluateCommand(r, id, background)
  PROVE  CommandLedgerInv' /\ CommandBooks
<1> DEFINE o == [pc |-> "authorize", request |-> r, id |-> id, background |-> background,
                 decision |-> CommandDecision(r), outcome |-> "none"]
<1>1. commandOp' = o /\ UNCHANGED <<commandApprovals, commandActs>>
  BY DEF EvaluateCommand
<1>2. CommandOpShape(o) /\ o.background = background /\ o.id = id /\ o.pc = "authorize"
  BY DEF CommandOpShape, CommandOpField
<1> HIDE DEF o
<1>3. CommandBacked(o, commandApprovals', commandActs')
  BY <1>2 DEF CommandBacked
<1>4. CommandSafe(o)
  <2>1. CommandDecision(r).mode = "safe" => id = None
    BY DEF EvaluateCommand
  <2> QED
    BY <1>2, <2>1 DEF CommandSafe, o
<1> QED
  BY <1>1, <1>2, <1>3, <1>4, CommandMoves

\* It goes on with a record that is used up there and then, or without one, or
\* not at all.
LEMMA CommandAuthorized ==
  ASSUME CommandLedgerInv, AuthorizeCommand
  PROVE  CommandLedgerInv' /\ CommandBooks
<1> DEFINE id == commandOp.id
           decision == commandOp.decision
           o == [commandOp EXCEPT
                   !.pc = IF commandOp.background THEN "record" ELSE "launch",
                   !.outcome = IF commandOp.background THEN "starting" ELSE "none"]
<1>1. /\ commandOp.pc = "authorize" /\ commandActs' = commandActs /\ id \in CommandId \cup {None}
      /\ \/ /\ decision.mode = "safe" \/ Authorized(commandOp.request, id, decision)
            /\ commandOp' = o
            /\ commandApprovals' = IF id = None THEN commandApprovals
                                   ELSE [commandApprovals EXCEPT ![id] = Claimed(@)]
         \/ commandOp' = NoCommandOp /\ commandApprovals' = commandApprovals
  BY DEF AuthorizeCommand, CommandLedgerInv, CommandBacked
<1>2. /\ CommandOpShape(o) /\ o.background = commandOp.background /\ o.background \in BOOLEAN
      /\ o.id = id /\ o.request = commandOp.request /\ o.decision = decision
      /\ o.pc \in {"record", "launch"}
  BY DEF CommandLedgerInv, CommandOpShape, CommandOpField
<1>3. decision.mode = "safe" => id = None
  BY <1>1 DEF CommandLedgerInv, CommandSafe
<1> HIDE DEF o, id, decision
<1>4. CASE commandOp' = NoCommandOp /\ commandApprovals' = commandApprovals
  <2>1. CommandBacked(NoCommandOp, commandApprovals', commandActs')
    BY NoCommandOpFits DEF CommandBacked
  <2>2. CommandSafe(NoCommandOp)
    BY NoCommandOpFits DEF CommandSafe
  <2> QED
    BY <1>1, <1>4, <2>1, <2>2, CommandMoves, NoCommandOpFits
<1>5. CASE /\ commandOp' = o /\ id = None /\ commandApprovals' = commandApprovals
           /\ decision.mode = "safe" \/ Authorized(commandOp.request, id, decision)
  <2>1. CommandBacked(o, commandApprovals', commandActs')
    BY <1>2, <1>5 DEF Authorized, CommandBacked
  <2> QED
    BY <1>1, <1>2, <1>5, <2>1, CommandMoves DEF CommandSafe
<1>6. CASE /\ commandOp' = o /\ id # None /\ commandApprovals' = [commandApprovals EXCEPT ![id] = Claimed(@)]
           /\ decision.mode = "safe" \/ Authorized(commandOp.request, id, decision)
  <2>1. /\ id \in CommandId /\ commandApprovals[id].status = "approved"
        /\ commandApprovals[id].bound = CommandBinding(commandOp.request, decision)
    BY <1>1, <1>3, <1>6 DEF Authorized, Claimable
  <2>2. Entries(commandApprovals, CommandId) /\ commandActs[id] = 0
    BY <2>1 DEF CommandLedgerInv, Balanced
  <2>3. Turn(commandApprovals, commandApprovals', CommandId)
    BY <1>6, <2>1, <2>2, CommonMoves
  <2>4. commandApprovals'[id].status = "executed" /\ commandApprovals'[id].bound = commandApprovals[id].bound
    BY <1>6, <2>1, <2>2, ClaimUsesUp
  <2>5. CommandBacked(o, commandApprovals', commandActs')
    BY <1>1, <1>2, <1>6, <2>1, <2>2, <2>4 DEF CommandBacked, CommandBinding
  <2> QED
    BY <1>1, <1>2, <1>6, <2>3, <2>5, CommandMoves DEF CommandSafe
<1> QED
  BY <1>1, <1>4, <1>5, <1>6

\* The launch acts once on the record.
LEMMA CommandLaunched ==
  ASSUME CommandLedgerInv, LaunchCommand
  PROVE  CommandLedgerInv' /\ CommandBooks
<1> DEFINE id == commandOp.id
<1>1. PICK outcome \in {"completed", "timed_out", "failed"} :
           /\ commandOp' = IF commandOp.background THEN NoCommandOp
                           ELSE [commandOp EXCEPT !.pc = "record", !.outcome = outcome]
           /\ commandActs' = IF id = None \/ outcome = "failed" THEN commandActs
                             ELSE [commandActs EXCEPT ![id] = @ + 1]
  BY DEF LaunchCommand
<1>2. /\ commandOp.pc = "launch" /\ commandApprovals' = commandApprovals
      /\ id \in CommandId \cup {None}
      /\ id # None => commandApprovals[id].status = "executed" /\ commandActs[id] = 0
  BY DEF LaunchCommand, CommandLedgerInv, CommandBacked
<1>3. CommandBooks
  <2>1. CASE commandActs' = commandActs
    BY <1>2, <2>1 DEF CommandBooks, Books
  <2>2. CASE id # None /\ commandActs' = [commandActs EXCEPT ![id] = @ + 1]
    <3>0. commandActs[id] = 0
      BY <1>2, <2>2
    <3>1. commandActs' = [commandActs EXCEPT ![id] = 1]
      BY <3>0, <2>2
    <3> QED
      BY <1>2, <2>2, <3>1 DEF CommandBooks, Books
  <2> QED
    BY <1>1, <2>1, <2>2
<1>4. Balanced(commandApprovals, commandActs, CommandId)'
  BY <1>3, BalanceKept DEF CommandBooks, CommandLedgerInv
<1>5. CASE commandOp' = NoCommandOp
  BY <1>3, <1>4, <1>5, NoCommandOpFits DEF CommandLedgerInv, CommandBacked, CommandSafe
<1>6. CASE commandOp.background = FALSE
           /\ commandOp' = [commandOp EXCEPT !.pc = "record", !.outcome = outcome]
  <2>1. /\ CommandOpShape(commandOp') /\ commandOp'.pc = "record" /\ commandOp'.id = id
        /\ commandOp'.background = FALSE /\ commandOp'.request = commandOp.request
        /\ commandOp'.decision = commandOp.decision
    BY <1>6 DEF CommandLedgerInv, CommandOpShape, CommandOpField
  <2>2. CommandBacked(commandOp', commandApprovals', commandActs')
    BY <1>2, <2>1 DEF CommandLedgerInv, CommandBacked
  <2> QED
    BY <1>3, <1>4, <2>1, <2>2 DEF CommandLedgerInv, CommandSafe
<1>7. commandOp.background \in BOOLEAN
  BY DEF CommandLedgerInv
<1> QED
  BY <1>1, <1>5, <1>6, <1>7

\* The operation goes on to another step with the same record.
LEMMA CommandProceeds ==
  ASSUME CommandLedgerInv, commandOp.pc \notin {"idle", "authorize"}, NEW pc \in {"launch", "mark"},
         commandOp' = [commandOp EXCEPT !.pc = pc], commandActs' = commandActs,
         \/ commandApprovals' = commandApprovals
         \/ Turn(commandApprovals, commandApprovals', CommandId),
         pc = "launch" => commandOp.background = TRUE \/ commandOp.id = None,
         pc = "mark" => commandOp.id # None
  PROVE  CommandLedgerInv' /\ CommandBooks
<1>1. /\ CommandOpShape(commandOp') /\ commandOp'.pc = pc /\ commandOp'.id = commandOp.id
      /\ commandOp'.background = commandOp.background /\ commandOp'.request = commandOp.request
      /\ commandOp'.decision = commandOp.decision
  BY DEF CommandLedgerInv, CommandOpShape, CommandOpField
<1>2. \A id \in CommandId : commandApprovals[id].status = "executed" =>
          /\ commandApprovals'[id].status = "executed"
          /\ commandApprovals'[id].bound = commandApprovals[id].bound
  BY Turning DEF CommandLedgerInv, Balanced
<1>3. CommandBacked(commandOp', commandApprovals', commandActs')
  BY <1>1, <1>2 DEF CommandLedgerInv, CommandBacked
<1> QED
  BY <1>1, <1>3, CommandMoves DEF CommandLedgerInv, CommandSafe

\* The operation ends, or the process stops.
LEMMA CommandStops ==
  ASSUME CommandLedgerInv, commandOp' = NoCommandOp, commandActs' = commandActs,
         \/ commandApprovals' = commandApprovals
         \/ Turn(commandApprovals, commandApprovals', CommandId)
  PROVE  CommandLedgerInv' /\ CommandBooks
BY CommandMoves, NoCommandOpFits DEF CommandBacked, CommandSafe

\* The run is put on file.
LEMMA CommandRecorded ==
  ASSUME CommandLedgerInv, RecordRun
  PROVE  CommandLedgerInv' /\ CommandBooks
<1>1. UNCHANGED <<commandApprovals, commandActs>> /\ commandOp.background \in BOOLEAN
      /\ commandOp.pc = "record"
  BY DEF RecordRun, CommandLedgerInv
<1>2. CASE commandOp.id # None
  BY <1>1, <1>2, CommandProceeds DEF RecordRun
<1>3. CASE commandOp.id = None /\ commandOp.background = TRUE
  BY <1>1, <1>3, CommandProceeds DEF RecordRun
<1>4. CASE commandOp.id = None /\ commandOp.background = FALSE
  BY <1>1, <1>4, CommandStops DEF RecordRun
<1> QED
  BY <1>1, <1>2, <1>3, <1>4

\* The record is marked with the run.
LEMMA CommandMarked ==
  ASSUME CommandLedgerInv, MarkExecuted
  PROVE  CommandLedgerInv' /\ CommandBooks
<1> DEFINE id == commandOp.id
           y == [Claimed(commandApprovals[id]) EXCEPT !.run = commandOp.outcome]
<1>1. /\ commandOp.pc = "mark" /\ id \in CommandId /\ commandApprovals[id].status = "executed"
      /\ commandActs' = commandActs /\ commandOp.background \in BOOLEAN
      /\ commandApprovals' = commandApprovals \/ commandApprovals' = [commandApprovals EXCEPT ![id] = y]
  BY DEF MarkExecuted, CommandLedgerInv, CommandBacked
<1>2. Slip(y) /\ y.status = "executed" /\ y.bound = commandApprovals[id].bound
  BY <1>1, SlipMarked DEF CommandLedgerInv, Balanced, Entries
<1> HIDE DEF y
<1>3. commandApprovals' = commandApprovals \/ Turn(commandApprovals, commandApprovals', CommandId)
  BY <1>1, <1>2 DEF Turn
<1>4. CASE commandOp.background = TRUE
  BY <1>1, <1>3, <1>4, CommandProceeds DEF MarkExecuted
<1>5. CASE commandOp.background = FALSE
  BY <1>1, <1>3, <1>5, CommandStops DEF MarkExecuted
<1> QED
  BY <1>1, <1>4, <1>5

\* Command approvals are asked for, answered, and expire.
LEMMA CommandApprovalsMove ==
  ASSUME CommandLedgerInv, NEW id \in CommandId,
         \/ \E r \in CommandRequest : RequestCommand(id, r)
         \/ ApproveCommand(id) \/ DenyCommand(id) \/ CommandExpires(id)
  PROVE  CommandLedgerInv' /\ CommandBooks
<1>1. Entries(commandApprovals, CommandId)
  BY DEF CommandLedgerInv, Balanced
<1>2. Turn(commandApprovals, commandApprovals', CommandId)
  <2>1. ASSUME NEW r \in CommandRequest, RequestCommand(id, r)
        PROVE  Turn(commandApprovals, commandApprovals', CommandId)
    <3> DEFINE x == CommandApproval(NewApproval(CommandBinding(r, CommandDecision(r))), "none")
    <3>1. commandApprovals' = [commandApprovals EXCEPT ![id] = x] /\ commandApprovals[id].status = "absent"
      BY <2>1 DEF RequestCommand
    <3>2. Slip(x) /\ x.status = "pending"
      BY SlipWithRun
    <3> HIDE DEF x
    <3> QED
      BY <3>1, <3>2 DEF Turn, Legal
  <2>2. CASE ApproveCommand(id)
    BY <1>1, <2>2, CommonMoves DEF ApproveCommand, Approvable
  <2>3. CASE DenyCommand(id)
    BY <1>1, <2>3, CommonMoves DEF DenyCommand, Deniable
  <2>4. CASE CommandExpires(id)
    BY <1>1, <2>4, CommonMoves DEF CommandExpires
  <2> QED
    BY <2>1, <2>2, <2>3, <2>4
<1>3. UNCHANGED <<commandOp, commandActs>>
  BY DEF RequestCommand, ApproveCommand, DenyCommand, CommandExpires
<1> QED
  BY <1>2, <1>3, CommandRecordsMove

\* Every step of every gate keeps the books of the command gate.
LEMMA CommandLedgerHolds ==
  ASSUME CommandLedgerInv, [GatesNext]_gateVars
  PROVE  CommandLedgerInv' /\ CommandBooks
<1>1. CASE CommandNext
  <2>1. CASE \E id \in CommandId, r \in CommandRequest : RequestCommand(id, r)
    BY <2>1, CommandApprovalsMove
  <2>2. CASE \E id \in CommandId : ApproveCommand(id) \/ DenyCommand(id) \/ CommandExpires(id)
    BY <2>2, CommandApprovalsMove
  <2>3. CASE \E r \in CommandRequest, id \in CommandId \cup {None}, background \in BOOLEAN :
               ExecuteCommand(r, id, background)
    BY <2>3, CommandEvaluated DEF ExecuteCommand
  <2>4. CASE \E id \in CommandId : \E actor : ExecuteApproved(id, actor)
    BY <2>4, CommandEvaluated DEF ExecuteApproved
  <2>5. CASE CommandCrash
    BY <2>5, CommandStops DEF CommandCrash
  <2>6. CASE EditCommandRules
    BY <2>6, CommandRecordsMove DEF EditCommandRules
  <2> QED
    BY <1>1, <2>1, <2>2, <2>3, <2>4, <2>5, <2>6, CommandAuthorized, CommandLaunched, CommandRecorded, CommandMarked
    DEF CommandNext
<1>2. CASE UNCHANGED <<commandApprovals, commandOp, commandActs>>
  BY <1>2, CommandRecordsMove
<1>3. CASE EditCommandRules
  BY <1>3, CommandRecordsMove DEF EditCommandRules
<1> QED
  BY <1>1, <1>2, <1>3
  DEF GatesNext, FileStep, CommandStep, ProviderStep, ToolStep, NetworkStep, WorldStep,
      OtherThanCalls, gateVars, commandVars

\* The books of the command gate are balanced at first.
LEMMA CommandLedgerStarts == ASSUME GatesInit PROVE CommandLedgerInv
<1>1. /\ commandApprovals = [id \in CommandId |-> CommandApproval(NoApproval, "none")]
      /\ commandActs = [id \in CommandId |-> 0] /\ commandOp = NoCommandOp
  BY DEF GatesInit, CommandInit
<1>2. Balanced(commandApprovals, commandActs, CommandId)
  BY <1>1, SlipWithRun DEF Balanced, Entries
<1> QED
  BY <1>1, <1>2, NoCommandOpFits DEF CommandLedgerInv, CommandBacked, CommandSafe

----------------------------------------------------------------------------
(* Provider calls. *)

Out == {"network", "send", "streaming"}

\* A call that has been let out is backed by a record, or needs none; the
\* first attempt is the act.
CallBacked(o, S, A) ==
    o.pc # "idle" =>
        /\ o.id \in ProviderId \cup {None}
        /\ o.attempt \in Nat \ {0}
        /\ o.pc \notin {"send", "streaming"} => o.attempt = 1
        /\ ~External(o.request) => o.id = None
        /\ o.pc \in Out \cup {"claim"} /\ External(o.request) /\ o.id = None =>
               ProviderEnvironment = "development"
        /\ o.pc \in Out /\ o.id # None =>
               /\ S[o.id].status = "executed"
               /\ S[o.id].bound.request = o.request
               /\ o.pc \in {"network", "send"} /\ o.attempt = 1 => A[o.id] = 0

ProviderLedgerInv ==
    /\ Calls
    /\ Balanced(providerApprovals, providerActs, ProviderId)
    /\ \A c \in Call : CallBacked(calls[c], providerApprovals, providerActs)
    /\ \A c, d \in Call :
          c # d /\ calls[c].pc \in Out /\ calls[d].pc \in Out /\ calls[c].id # None =>
              calls[d].id # calls[c].id

ProviderBooks ==
    Books(providerApprovals, providerApprovals', providerActs, providerActs', ProviderId)

\* What is used up stays used up, for what it was bound to.
LEMMA BooksKeep ==
  ASSUME NEW S, NEW T, NEW A, NEW B, NEW ids, Balanced(S, A, ids), Books(S, T, A, B, ids)
  PROVE  \A id \in ids : S[id].status = "executed" =>
             T[id].status = "executed" /\ T[id].bound = S[id].bound
BY Turning DEF Books, Balanced

\* One call moves on, and the records with it.
LEMMA ProviderMoves ==
  ASSUME ProviderLedgerInv, NEW c \in Call, NEW o, CallShape(o),
         calls' = [calls EXCEPT ![c] = o], ProviderBooks,
         CallBacked(o, providerApprovals', providerActs'),
         o.pc \in Out /\ o.id # None =>
             \A d \in Call \ {c} : calls[d].pc \in Out => calls[d].id # o.id,
         \A d \in Call \ {c} : calls[d].pc \in Out /\ calls[d].id # None =>
             providerActs'[calls[d].id] = providerActs[calls[d].id]
  PROVE  ProviderLedgerInv' /\ ProviderBooks
<1>1. Balanced(providerApprovals, providerActs, ProviderId)'
  BY BalanceKept DEF ProviderBooks, ProviderLedgerInv
<1>2. Calls' /\ \A d \in Call : calls'[d] = IF d = c THEN o ELSE calls[d]
  BY CallsFit DEF ProviderLedgerInv, Calls
<1>3. \A id \in ProviderId : providerApprovals[id].status = "executed" =>
          /\ providerApprovals'[id].status = "executed"
          /\ providerApprovals'[id].bound = providerApprovals[id].bound
  BY BooksKeep DEF ProviderBooks, ProviderLedgerInv
<1>4. ASSUME NEW d \in Call, d # c
      PROVE  CallBacked(calls'[d], providerApprovals', providerActs')
  <2>1. calls'[d] = calls[d] /\ CallBacked(calls[d], providerApprovals, providerActs)
    BY <1>2, <1>4 DEF ProviderLedgerInv
  <2>2. calls[d].pc \in Out => calls[d].pc # "idle"
    BY DEF Out
  <2>3. calls[d].pc \in Out /\ calls[d].id # None =>
            /\ providerActs'[calls[d].id] = providerActs[calls[d].id]
            /\ providerApprovals'[calls[d].id].status = "executed"
            /\ providerApprovals'[calls[d].id].bound = providerApprovals[calls[d].id].bound
    BY <1>3, <1>4, <2>1, <2>2 DEF CallBacked
  <2> QED
    BY <2>1, <2>3 DEF CallBacked
<1>5. \A d, e \in Call :
          d # e /\ calls'[d].pc \in Out /\ calls'[e].pc \in Out /\ calls'[d].id # None =>
              calls'[e].id # calls'[d].id
  BY <1>2 DEF ProviderLedgerInv
<1> QED
  BY <1>1, <1>2, <1>4, <1>5 DEF ProviderLedgerInv

\* The records stay or turn, and one call moves on.
LEMMA ProviderOneMoves ==
  ASSUME ProviderLedgerInv, NEW c \in Call, NEW o, CallShape(o),
         calls' = [calls EXCEPT ![c] = o], providerActs' = providerActs,
         \/ providerApprovals' = providerApprovals
         \/ Turn(providerApprovals, providerApprovals', ProviderId),
         CallBacked(o, providerApprovals', providerActs'),
         o.pc \in Out /\ o.id # None =>
             \A d \in Call \ {c} : calls[d].pc \in Out => calls[d].id # o.id
  PROVE  ProviderLedgerInv' /\ ProviderBooks
<1>1. ProviderBooks
  BY DEF ProviderBooks, Books
<1> QED
  BY <1>1, ProviderMoves

\* A call ends.
LEMMA ProviderEnds ==
  ASSUME ProviderLedgerInv, NEW c \in Call, calls' = [calls EXCEPT ![c] = NoCall],
         UNCHANGED <<providerApprovals, providerActs>>
  PROVE  ProviderLedgerInv' /\ ProviderBooks
<1>1. CallShape(NoCall) /\ NoCall.pc = "idle"
  BY DEF CallShape, CallField, NoCall
<1> QED
  BY <1>1, ProviderOneMoves DEF CallBacked, Out

\* Records of the provider gate turn while no call moves.
LEMMA ProviderRecordsMove ==
  ASSUME ProviderLedgerInv,
         \/ providerApprovals' = providerApprovals
         \/ Turn(providerApprovals, providerApprovals', ProviderId),
         UNCHANGED <<calls, providerActs>>
  PROVE  ProviderLedgerInv' /\ ProviderBooks
<1>1. ProviderBooks
  BY DEF ProviderBooks, Books
<1>2. Balanced(providerApprovals, providerActs, ProviderId)'
  BY <1>1, BalanceKept DEF ProviderBooks, ProviderLedgerInv
<1>3. \A id \in ProviderId : providerApprovals[id].status = "executed" =>
          /\ providerApprovals'[id].status = "executed"
          /\ providerApprovals'[id].bound = providerApprovals[id].bound
  BY <1>1, BooksKeep DEF ProviderBooks, ProviderLedgerInv
<1>4. \A d \in Call : CallBacked(calls[d], providerApprovals', providerActs')
  BY <1>3 DEF ProviderLedgerInv, CallBacked, Out
<1> QED
  BY <1>1, <1>2, <1>4 DEF ProviderLedgerInv, Calls

\* A call goes from one step to another that says no more about its record.
LEMMA ProviderGoes ==
  ASSUME ProviderLedgerInv, NEW c \in Call, NEW o, CallShape(o), calls' = [calls EXCEPT ![c] = o],
         UNCHANGED <<providerApprovals, providerActs>>,
         calls[c].pc # "idle", o.id = calls[c].id, o.request = calls[c].request,
         o.attempt = calls[c].attempt,
         \/ calls[c].pc = "circuit" /\ o.pc = "authorize"
         \/ calls[c].pc = "authorize" /\ o.pc = "claim"
            /\ (External(o.request) /\ o.id = None => ProviderEnvironment = "development")
         \/ calls[c].pc = "claim" /\ o.pc = "network" /\ o.id = None
         \/ calls[c].pc = "network" /\ o.pc = "send"
         \/ calls[c].pc = "send" /\ o.pc = "streaming"
  PROVE  ProviderLedgerInv' /\ ProviderBooks
<1>1. CallBacked(calls[c], providerApprovals, providerActs)
  BY DEF ProviderLedgerInv
<1>2. CallBacked(o, providerApprovals, providerActs)
  BY <1>1 DEF CallBacked, Out
<1>3. o.pc \in Out /\ o.id # None =>
             \A d \in Call \ {c} : calls[d].pc \in Out => calls[d].id # o.id
  BY DEF ProviderLedgerInv, Out
<1> QED
  BY <1>2, <1>3, ProviderOneMoves

\* The call after a step that only changes where it is.
LEMMA GoesTo ==
  ASSUME Calls, NEW c \in Call, NEW pc, Goes(c, pc)
  PROVE  \E o : /\ CallShape(o) /\ calls' = [calls EXCEPT ![c] = o]
                /\ o.pc = pc /\ o.id = calls[c].id /\ o.request = calls[c].request
                /\ o.attempt = calls[c].attempt
<1> DEFINE o == [calls[c] EXCEPT !.pc = pc]
<1>1. /\ CallShape(o) /\ o.pc = pc /\ o.id = calls[c].id /\ o.request = calls[c].request
      /\ o.attempt = calls[c].attempt
  BY CallsFit DEF CallShape, CallField
<1>2. calls' = [calls EXCEPT ![c] = o]
  BY DEF Goes
<1> HIDE DEF o
<1> QED
  BY <1>1, <1>2

\* A call begins.
LEMMA ProviderBegins ==
  ASSUME ProviderLedgerInv, NEW c \in Call, NEW r, NEW id \in ProviderId \cup {None}, NEW network,
         BeginCall(c, r, id, network)
  PROVE  ProviderLedgerInv' /\ ProviderBooks
<1> DEFINE o == [NoCall EXCEPT !.pc = "circuit", !.request = r, !.id = id, !.network = network]
<1>1. /\ calls' = [calls EXCEPT ![c] = o] /\ UNCHANGED <<providerApprovals, providerActs>>
      /\ ~External(r) => id = None
  BY DEF BeginCall
<1>2. /\ CallShape(o) /\ o.pc = "circuit" /\ o.request = r /\ o.id = id /\ o.attempt = 1
  BY DEF CallShape, CallField, NoCall
<1> HIDE DEF o
<1>3. CallBacked(o, providerApprovals', providerActs') /\ o.pc \notin Out
  BY <1>1, <1>2 DEF CallBacked, Out
<1> QED
  BY <1>1, <1>2, <1>3, ProviderOneMoves

\* A call passes the circuit, or is turned away.
LEMMA ProviderPasses ==
  ASSUME ProviderLedgerInv, NEW c \in Call, PassCircuit(c)
  PROVE  ProviderLedgerInv' /\ ProviderBooks
<1>1. CASE calls' = [calls EXCEPT ![c] = NoCall]
  BY <1>1, ProviderEnds DEF PassCircuit
<1>2. ASSUME NEW probes, calls' = [calls EXCEPT ![c].pc = "authorize", ![c].probe = probes]
      PROVE  ProviderLedgerInv' /\ ProviderBooks
  <2> DEFINE o == [calls[c] EXCEPT !.pc = "authorize", !.probe = probes]
  <2>1. calls' = [calls EXCEPT ![c] = o]
    BY <1>2 DEF ProviderLedgerInv, Calls
  <2>2. /\ CallShape(o) /\ o.pc = "authorize" /\ o.id = calls[c].id
        /\ o.request = calls[c].request /\ o.attempt = calls[c].attempt
    BY DEF ProviderLedgerInv, Calls, CallShape, CallField
  <2>3. calls[c].pc = "circuit" /\ UNCHANGED <<providerApprovals, providerActs>>
    BY DEF PassCircuit
  <2> HIDE DEF o
  <2> QED
    BY <2>1, <2>2, <2>3, ProviderGoes
<1> QED
  BY <1>1, <1>2 DEF PassCircuit

\* An external call without a record goes on in development only.
LEMMA ProviderAuthorized ==
  ASSUME ProviderLedgerInv, NEW c \in Call, AuthorizeCall(c)
  PROVE  ProviderLedgerInv' /\ ProviderBooks
<1>1. calls[c].pc = "authorize" /\ UNCHANGED <<providerApprovals, providerActs>>
  BY DEF AuthorizeCall
<1>2. CASE Goes(c, "claim") /\ (External(calls[c].request) /\ calls[c].id = None =>
                                    ProviderEnvironment = "development")
  <2>1. PICK o : /\ CallShape(o) /\ calls' = [calls EXCEPT ![c] = o]
                 /\ o.pc = "claim" /\ o.id = calls[c].id /\ o.request = calls[c].request
                 /\ o.attempt = calls[c].attempt
    BY <1>2, GoesTo DEF ProviderLedgerInv
  <2> QED
    BY <1>1, <1>2, <2>1, ProviderGoes
<1>3. CASE CallFails(c, "other")
  BY <1>1, <1>3, ProviderEnds DEF CallFails
<1> QED
  BY <1>2, <1>3 DEF AuthorizeCall

\* The record that is claimed was free, so that no other call has it.
LEMMA ProviderClaims ==
  ASSUME ProviderLedgerInv, NEW c \in Call, ClaimProvider(c)
  PROVE  ProviderLedgerInv' /\ ProviderBooks
<1> DEFINE id == calls[c].id
<1>1. /\ calls[c].pc = "claim" /\ providerActs' = providerActs
      /\ CallBacked(calls[c], providerApprovals, providerActs)
  BY DEF ClaimProvider, ProviderLedgerInv
<1>2. CASE Goes(c, "network") /\ providerApprovals' = providerApprovals
           /\ (~External(calls[c].request) \/ id = None)
  <2>1. PICK o : /\ CallShape(o) /\ calls' = [calls EXCEPT ![c] = o]
                 /\ o.pc = "network" /\ o.id = id /\ o.request = calls[c].request
                 /\ o.attempt = calls[c].attempt
    BY <1>2, GoesTo DEF ProviderLedgerInv
  <2>2. id = None
    BY <1>1, <1>2 DEF CallBacked
  <2> QED
    BY <1>1, <1>2, <2>1, <2>2, ProviderGoes
<1>3. CASE /\ id # None /\ ProviderValid(id, calls[c].request)
           /\ providerApprovals' = [providerApprovals EXCEPT ![id] = Claimed(@)]
           /\ Goes(c, "network")
  <2>1. PICK o : /\ CallShape(o) /\ calls' = [calls EXCEPT ![c] = o]
                 /\ o.pc = "network" /\ o.id = id /\ o.request = calls[c].request
                 /\ o.attempt = calls[c].attempt
    BY <1>3, GoesTo DEF ProviderLedgerInv
  <2>2. /\ id \in ProviderId /\ providerApprovals[id].status = "approved"
        /\ providerApprovals[id].bound.request = calls[c].request
    BY <1>1, <1>3 DEF CallBacked, ProviderValid, Claimable, ProviderBinding
  <2>3. Entries(providerApprovals, ProviderId) /\ providerActs[id] = 0
    BY <2>2 DEF ProviderLedgerInv, Balanced
  <2>4. Turn(providerApprovals, providerApprovals', ProviderId)
    BY <1>3, <2>2, <2>3, CommonMoves
  <2>5. providerApprovals'[id].status = "executed" /\ providerApprovals'[id].bound = providerApprovals[id].bound
    BY <1>3, <2>2, <2>3, ClaimUsesUp
  <2>6. CallBacked(o, providerApprovals', providerActs')
    BY <1>1, <1>3, <2>1, <2>2, <2>3, <2>5 DEF CallBacked, Out
  <2>7. ASSUME NEW d \in Call, calls[d].pc \in Out PROVE calls[d].id # id
    <3>1. CallBacked(calls[d], providerApprovals, providerActs)
      BY DEF ProviderLedgerInv
    <3> QED
      BY <1>3, <2>2, <2>7, <3>1 DEF CallBacked, Out
  <2> QED
    BY <1>1, <2>1, <2>4, <2>6, <2>7, ProviderOneMoves
<1>4. CASE CallFails(c, "other") /\ providerApprovals' = providerApprovals
  BY <1>1, <1>4, ProviderEnds DEF CallFails
<1> QED
  BY <1>2, <1>3, <1>4 DEF ClaimProvider

\* The network approval is claimed, or the call fails.
LEMMA ProviderConnects ==
  ASSUME ProviderLedgerInv, NEW c \in Call, ClaimCallNetwork(c)
  PROVE  ProviderLedgerInv' /\ ProviderBooks
<1>1. calls[c].pc = "network" /\ UNCHANGED <<providerApprovals, providerActs>>
  BY DEF ClaimCallNetwork
<1>2. CASE Goes(c, "send")
  <2>1. PICK o : /\ CallShape(o) /\ calls' = [calls EXCEPT ![c] = o]
                 /\ o.pc = "send" /\ o.id = calls[c].id /\ o.request = calls[c].request
                 /\ o.attempt = calls[c].attempt
    BY <1>2, GoesTo DEF ProviderLedgerInv
  <2> QED
    BY <1>1, <2>1, ProviderGoes
<1>3. CASE CallFails(c, "other")
  BY <1>1, <1>3, ProviderEnds DEF CallFails
<1> QED
  BY <1>2, <1>3 DEF ClaimCallNetwork

\* Where a call may be after an attempt.
LEMMA ProviderTries ==
  ASSUME ProviderLedgerInv, NEW c \in Call, SendCall(c)
  PROVE  \E o : /\ CallShape(o) /\ calls' = [calls EXCEPT ![c] = o]
                /\ \/ o.pc = "idle"
                   \/ /\ o.pc = "streaming" /\ o.attempt = calls[c].attempt
                      /\ o.id = calls[c].id /\ o.request = calls[c].request
                   \/ /\ o.pc = "send" /\ o.attempt = calls[c].attempt + 1
                      /\ o.id = calls[c].id /\ o.request = calls[c].request
<1>1. CASE calls' = [calls EXCEPT ![c] = NoCall]
  <2>1. CallShape(NoCall) /\ NoCall.pc = "idle"
    BY DEF CallShape, CallField, NoCall
  <2> QED
    BY <1>1, <2>1
<1>2. CASE Goes(c, "streaming")
  BY <1>2, GoesTo DEF ProviderLedgerInv
<1>3. CASE calls' = [calls EXCEPT ![c].attempt = @ + 1]
  <2> DEFINE o == [calls[c] EXCEPT !.attempt = @ + 1]
  <2>1. calls' = [calls EXCEPT ![c] = o]
    BY <1>3
  <2>2. /\ CallShape(o) /\ o.pc = calls[c].pc /\ o.attempt = calls[c].attempt + 1
        /\ o.id = calls[c].id /\ o.request = calls[c].request
    BY DEF ProviderLedgerInv, Calls, CallShape, CallField
  <2>3. calls[c].pc = "send"
    BY DEF SendCall
  <2> HIDE DEF o
  <2> QED
    BY <2>1, <2>2, <2>3
<1> QED
  BY <1>1, <1>2, <1>3 DEF SendCall, CallFails, CallSucceeds

\* The first attempt acts on the record; further attempts do not count again.
LEMMA ProviderSends ==
  ASSUME ProviderLedgerInv, NEW c \in Call, SendCall(c)
  PROVE  ProviderLedgerInv' /\ ProviderBooks
<1> DEFINE id == calls[c].id
<1>1. PICK o : /\ CallShape(o) /\ calls' = [calls EXCEPT ![c] = o]
               /\ \/ o.pc = "idle"
                  \/ /\ o.pc = "streaming" /\ o.attempt = calls[c].attempt
                     /\ o.id = calls[c].id /\ o.request = calls[c].request
                  \/ /\ o.pc = "send" /\ o.attempt = calls[c].attempt + 1
                     /\ o.id = calls[c].id /\ o.request = calls[c].request
  BY ProviderTries
<1>2. /\ calls[c].pc = "send" /\ providerApprovals' = providerApprovals
      /\ providerActs' = IF id = None \/ calls[c].attempt > 1 THEN providerActs
                         ELSE [providerActs EXCEPT ![id] = @ + 1]
      /\ CallBacked(calls[c], providerApprovals, providerActs)
  BY DEF SendCall, ProviderLedgerInv
<1>3. calls[c].attempt \in Nat \ {0} /\ id \in ProviderId \cup {None}
  BY <1>2 DEF CallBacked
<1>4. CallBacked(o, providerApprovals', providerActs')
  BY <1>1, <1>2, <1>3 DEF CallBacked, Out
<1>5. \A d \in Call \ {c} : calls[d].pc \in Out /\ id # None => calls[d].id # id
  BY <1>2 DEF ProviderLedgerInv, Out
<1>6. o.pc \in Out /\ o.id # None =>
             \A d \in Call \ {c} : calls[d].pc \in Out => calls[d].id # o.id
  BY <1>1, <1>5 DEF Out
<1>7. CASE id = None \/ calls[c].attempt > 1
  BY <1>1, <1>2, <1>4, <1>6, <1>7, ProviderOneMoves
<1>8. CASE id # None /\ ~(calls[c].attempt > 1)
  <2>1. calls[c].attempt = 1
    BY <1>3, <1>8
  <2>2. id \in ProviderId /\ providerApprovals[id].status = "executed" /\ providerActs[id] = 0
    BY <1>2, <1>3, <1>8, <2>1 DEF CallBacked, Out
  <2>3. providerActs' = [providerActs EXCEPT ![id] = 1]
    BY <1>2, <1>8, <2>2
  <2>4. ProviderBooks
    BY <1>2, <2>2, <2>3 DEF ProviderBooks, Books
  <2>5. \A d \in Call \ {c} : calls[d].pc \in Out /\ calls[d].id # None =>
             providerActs'[calls[d].id] = providerActs[calls[d].id]
    BY <1>5, <1>8, <2>3
  <2> QED
    BY <1>1, <1>4, <1>6, <2>4, <2>5, ProviderMoves
<1> QED
  BY <1>7, <1>8

\* Every step of a call keeps the books of the provider gate.
LEMMA ProviderStepped ==
  ASSUME ProviderLedgerInv, NEW c \in Call, CallStep(c)
  PROVE  ProviderLedgerInv' /\ ProviderBooks
<1>1. CASE EndStream(c)
  BY <1>1, ProviderEnds DEF EndStream, CallSucceeds, CallFails
<1> QED
  BY <1>1, ProviderPasses, ProviderAuthorized, ProviderClaims, ProviderConnects, ProviderSends
  DEF CallStep

\* A process stops and its calls are gone.
LEMMA ProviderCrashed ==
  ASSUME ProviderLedgerInv, NEW p \in Server, ProviderCrash(p)
  PROVE  ProviderLedgerInv' /\ ProviderBooks
<1>1. /\ calls' = [c \in Call |-> IF CallAt[c] = p THEN NoCall ELSE calls[c]]
      /\ UNCHANGED <<providerApprovals, providerActs>>
  BY DEF ProviderCrash
<1>2. CallShape(NoCall) /\ NoCall.pc = "idle" /\ "idle" \notin Out
  BY DEF CallShape, CallField, NoCall, Out
<1>3. Calls' /\ \A c \in Call : calls'[c] = NoCall \/ calls'[c] = calls[c]
  BY <1>1, <1>2, CallsFit DEF ProviderLedgerInv, Calls
<1>4. \A c \in Call : CallBacked(calls'[c], providerApprovals', providerActs')
  BY <1>1, <1>2, <1>3 DEF ProviderLedgerInv, CallBacked
<1>5. \A d, e \in Call :
          d # e /\ calls'[d].pc \in Out /\ calls'[e].pc \in Out /\ calls'[d].id # None =>
              calls'[e].id # calls'[d].id
  BY <1>2, <1>3 DEF ProviderLedgerInv
<1>6. ProviderBooks
  BY <1>1 DEF ProviderBooks, Books
<1> QED
  BY <1>1, <1>3, <1>4, <1>5, <1>6 DEF ProviderLedgerInv, Balanced, Entries

\* Provider approvals are asked for, answered, and expire.
LEMMA ProviderApprovalsMove ==
  ASSUME ProviderLedgerInv, NEW id \in ProviderId,
         \/ \E r \in ProviderRequest : RequestProvider(id, r)
         \/ ApproveProvider(id) \/ DenyProvider(id) \/ ProviderExpires(id)
  PROVE  ProviderLedgerInv' /\ ProviderBooks
<1>1. Entries(providerApprovals, ProviderId)
  BY DEF ProviderLedgerInv, Balanced
<1>2. Turn(providerApprovals, providerApprovals', ProviderId)
  <2>1. ASSUME NEW r \in ProviderRequest, RequestProvider(id, r)
        PROVE  Turn(providerApprovals, providerApprovals', ProviderId)
    BY <1>1, <2>1, CommonMoves DEF RequestProvider
  <2>2. CASE ApproveProvider(id)
    BY <1>1, <2>2, CommonMoves DEF ApproveProvider, Approvable
  <2>3. CASE DenyProvider(id)
    BY <1>1, <2>3, CommonMoves DEF DenyProvider, Deniable
  <2>4. CASE ProviderExpires(id)
    BY <1>1, <2>4, CommonMoves DEF ProviderExpires
  <2> QED
    BY <2>1, <2>2, <2>3, <2>4
<1>3. UNCHANGED <<calls, providerActs>>
  BY DEF RequestProvider, ApproveProvider, DenyProvider, ProviderExpires
<1> QED
  BY <1>2, <1>3, ProviderRecordsMove

\* Every step of every gate keeps the books of the provider gate.
LEMMA ProviderLedgerHolds ==
  ASSUME ProviderLedgerInv, [GatesNext]_gateVars
  PROVE  ProviderLedgerInv' /\ ProviderBooks
<1>1. CASE ProviderNext
  <2>1. CASE \E id \in ProviderId, r \in ProviderRequest : RequestProvider(id, r)
    BY <2>1, ProviderApprovalsMove
  <2>2. CASE \E id \in ProviderId : ApproveProvider(id) \/ DenyProvider(id) \/ ProviderExpires(id)
    BY <2>2, ProviderApprovalsMove
  <2>3. CASE \E c \in Call, r \in ProviderRequest, id \in ProviderId \cup {None},
               network \in NetworkId \cup {None} : BeginCall(c, r, id, network)
    BY <2>3, ProviderBegins
  <2>4. CASE \E c \in Call : CallStep(c)
    BY <2>4, ProviderStepped
  <2>5. CASE \E p \in Server : ProviderCrash(p)
    BY <2>5, ProviderCrashed
  <2>6. CASE ChangeCredential \/ \E p \in Server : CoolDown(p)
    BY <2>6, ProviderRecordsMove DEF ChangeCredential, CoolDown
  <2> QED
    BY <1>1, <2>1, <2>2, <2>3, <2>4, <2>5, <2>6 DEF ProviderNext
<1>2. CASE UNCHANGED <<providerApprovals, calls, providerActs>>
  BY <1>2, ProviderRecordsMove
<1> QED
  BY <1>1, <1>2
  DEF GatesNext, FileStep, CommandStep, ProviderStep, ToolStep, NetworkStep, WorldStep,
      gateVars, providerVars

\* The books of the provider gate are balanced at first.
LEMMA ProviderLedgerStarts == ASSUME GatesInit PROVE ProviderLedgerInv
<1>1. /\ providerApprovals = [id \in ProviderId |-> NoApproval]
      /\ providerActs = [id \in ProviderId |-> 0] /\ calls = [c \in Call |-> NoCall]
  BY DEF GatesInit, ProviderInit
<1>2. Balanced(providerApprovals, providerActs, ProviderId)
  BY <1>1, BalanceStarts
<1>3. CallShape(NoCall) /\ NoCall.pc = "idle" /\ "idle" \notin Out
  BY DEF CallShape, CallField, NoCall, Out
<1>4. Calls /\ \A c \in Call : calls[c] = NoCall
  BY <1>1, <1>3 DEF Calls
<1> QED
  BY <1>2, <1>3, <1>4 DEF ProviderLedgerInv, CallBacked

----------------------------------------------------------------------------
(* Network access: nothing is acted upon in the ledger. *)

NetworkLedgerInv == Entries(networkApprovals, NetworkId)

NetworkBooks ==
    networkApprovals' = networkApprovals \/ Turn(networkApprovals, networkApprovals', NetworkId)

\* A network approval is used up.
LEMMA NetworkClaims ==
  ASSUME NetworkLedgerInv, NEW id \in NetworkId, NEW r, ClaimNetwork(id, r)
  PROVE  NetworkBooks
BY CommonMoves DEF ClaimNetwork, NetworkValid, Claimable, NetworkLedgerInv, NetworkBooks

\* Network approvals are asked for, answered, and expire.
LEMMA NetworkMoves ==
  ASSUME NetworkLedgerInv, NetworkNext
  PROVE  NetworkBooks
<1> USE DEF NetworkLedgerInv, NetworkBooks
<1>1. ASSUME NEW id \in NetworkId, NEW r \in NetworkRequest, RequestNetwork(id, r) PROVE NetworkBooks
  BY <1>1, CommonMoves DEF RequestNetwork
<1>2. ASSUME NEW id \in NetworkId, ApproveNetwork(id) PROVE NetworkBooks
  BY <1>2, CommonMoves DEF ApproveNetwork, Approvable
<1>3. ASSUME NEW id \in NetworkId, DenyNetwork(id) PROVE NetworkBooks
  BY <1>3, CommonMoves DEF DenyNetwork, Deniable
<1>4. ASSUME NEW id \in NetworkId, NetworkExpires(id) PROVE NetworkBooks
  BY <1>4, CommonMoves DEF NetworkExpires
<1> QED
  BY <1>1, <1>2, <1>3, <1>4
  DEF NetworkNext, CreateNetworkRule, ReadNetworkRule, SaveNetworkRule

----------------------------------------------------------------------------
(* Tools. *)

ToolBacked ==
    toolOp.pc \in {"network", "run"} =>
        /\ toolOp.id \in ToolId \cup {None}
        /\ toolOp.network \in NetworkId \cup {None}
        /\ toolOp.id # None => toolApprovals[toolOp.id].status = "executed" /\ toolActs[toolOp.id] = 0

ToolLedgerInv ==
    /\ ToolOpShape(toolOp)
    /\ Balanced(toolApprovals, toolActs, ToolId)
    /\ ToolBacked

ToolBooks == Books(toolApprovals, toolApprovals', toolActs, toolActs', ToolId)

\* No tool is served.
LEMMA NoToolOpFits == ToolOpShape(NoToolOp) /\ NoToolOp.pc = "idle"
BY DEF ToolOpShape, ToolField, NoToolOp

\* Records of the tool gate turn while the operation stays.
LEMMA ToolRecordsMove ==
  ASSUME ToolLedgerInv,
         \/ toolApprovals' = toolApprovals
         \/ Turn(toolApprovals, toolApprovals', ToolId),
         UNCHANGED <<toolOp, toolActs>>
  PROVE  ToolLedgerInv' /\ ToolBooks
<1>1. ToolBooks
  BY DEF ToolBooks, Books
<1>2. Balanced(toolApprovals, toolActs, ToolId)'
  BY <1>1, BalanceKept DEF ToolBooks, ToolLedgerInv
<1>3. \A id \in ToolId : toolApprovals[id].status = "executed" => toolApprovals'[id].status = "executed"
  BY Turning DEF ToolLedgerInv, Balanced
<1> QED
  BY <1>1, <1>2, <1>3 DEF ToolLedgerInv, ToolBacked

\* What is not about to run a tool needs no record.
LEMMA ToolMovesOn ==
  ASSUME ToolLedgerInv, ToolOpShape(toolOp)', toolOp'.pc \notin {"network", "run"},
         UNCHANGED <<toolApprovals, toolActs>>
  PROVE  ToolLedgerInv' /\ ToolBooks
<1>1. ToolBooks
  BY DEF ToolBooks, Books
<1>2. Balanced(toolApprovals, toolActs, ToolId)'
  BY DEF ToolLedgerInv, Balanced, Entries
<1> QED
  BY <1>1, <1>2 DEF ToolLedgerInv, ToolBacked

\* A record is used up when the execution begins.
LEMMA ToolExecutes ==
  ASSUME ToolLedgerInv, NEW r, NEW id \in ToolId \cup {None}, NEW network \in NetworkId \cup {None},
         ExecuteTool(r, id, network)
  PROVE  ToolLedgerInv' /\ ToolBooks
<1>1. /\ toolOp' = [NoToolOp EXCEPT !.pc = "network", !.tool = r.tool, !.id = id,
                                    !.network = network, !.request = r, !.read = manifest[r.tool]]
      /\ toolActs' = toolActs
      /\ toolApprovals' = IF id = None THEN toolApprovals ELSE [toolApprovals EXCEPT ![id] = Claimed(@)]
      /\ id # None => toolApprovals[id].status = "approved"
  BY DEF ExecuteTool, Claimable
<1>2. /\ ToolOpShape(toolOp') /\ toolOp'.pc = "network" /\ toolOp'.id = id
      /\ toolOp'.network = network
  BY <1>1 DEF ToolOpShape, ToolField, NoToolOp
<1>3. CASE id = None
  <2>1. ToolBooks /\ Balanced(toolApprovals, toolActs, ToolId)'
    BY <1>1, <1>3 DEF ToolBooks, Books, ToolLedgerInv, Balanced, Entries
  <2> QED
    BY <1>2, <1>3, <2>1 DEF ToolLedgerInv, ToolBacked
<1>4. CASE id # None
  <2>1. id \in ToolId /\ Entries(toolApprovals, ToolId) /\ toolActs[id] = 0
    BY <1>1, <1>4 DEF ToolLedgerInv, Balanced
  <2>2. Turn(toolApprovals, toolApprovals', ToolId)
    BY <1>1, <1>4, <2>1, CommonMoves
  <2>3. toolApprovals'[id].status = "executed"
    BY <1>1, <1>4, <2>1, ClaimUsesUp
  <2>4. ToolBooks
    BY <1>1, <2>2 DEF ToolBooks, Books
  <2>5. Balanced(toolApprovals, toolActs, ToolId)'
    BY <2>4, BalanceKept DEF ToolBooks, ToolLedgerInv
  <2> QED
    BY <1>1, <1>2, <2>1, <2>3, <2>4, <2>5 DEF ToolLedgerInv, ToolBacked
<1> QED
  BY <1>3, <1>4

\* What is connected still has its record.
LEMMA ToolConnects ==
  ASSUME ToolLedgerInv, ClaimToolNetwork
  PROVE  ToolLedgerInv' /\ ToolBooks
<1>1. UNCHANGED <<toolApprovals, toolActs>> /\ toolOp.pc = "network"
  BY DEF ClaimToolNetwork
<1>2. CASE toolOp' = NoToolOp
  BY <1>1, <1>2, ToolMovesOn, NoToolOpFits
<1>3. CASE toolOp' = [toolOp EXCEPT !.pc = "run"]
  <2>1. /\ ToolOpShape(toolOp') /\ toolOp'.pc = "run" /\ toolOp'.id = toolOp.id
        /\ toolOp'.network = toolOp.network
    BY <1>3 DEF ToolLedgerInv, ToolOpShape, ToolField
  <2>2. ToolBooks /\ Balanced(toolApprovals, toolActs, ToolId)'
    BY <1>1 DEF ToolBooks, Books, ToolLedgerInv, Balanced, Entries
  <2> QED
    BY <1>1, <2>1, <2>2 DEF ToolLedgerInv, ToolBacked
<1> QED
  BY <1>2, <1>3 DEF ClaimToolNetwork

\* The run acts once on the record.
LEMMA ToolRuns ==
  ASSUME ToolLedgerInv, RunTool
  PROVE  ToolLedgerInv' /\ ToolBooks
<1> DEFINE id == toolOp.id
<1>1. /\ toolApprovals' = toolApprovals /\ id \in ToolId \cup {None}
      /\ id # None => toolApprovals[id].status = "executed" /\ toolActs[id] = 0
      /\ \/ toolActs' = toolActs
         \/ id # None /\ toolActs' = [toolActs EXCEPT ![id] = @ + 1]
  BY DEF RunTool, ToolLedgerInv, ToolBacked
<1>2. ToolBooks
  <2>1. CASE toolActs' = toolActs
    BY <1>1, <2>1 DEF ToolBooks, Books
  <2>2. CASE id # None /\ toolActs' = [toolActs EXCEPT ![id] = @ + 1]
    <3>1. toolActs[id] = 0
      BY <1>1, <2>2
    <3>2. toolActs' = [toolActs EXCEPT ![id] = 1]
      BY <2>2, <3>1
    <3> QED
      BY <1>1, <2>2, <3>1, <3>2 DEF ToolBooks, Books
  <2> QED
    BY <1>1, <2>1, <2>2
<1>3. Balanced(toolApprovals, toolActs, ToolId)'
  BY <1>2, BalanceKept DEF ToolBooks, ToolLedgerInv
<1>4. ToolOpShape(toolOp') /\ toolOp'.pc \in {"idle", "counts"}
  <2>1. CASE toolOp' = NoToolOp
    BY <2>1, NoToolOpFits
  <2>2. ASSUME NEW read, NEW retire,
               toolOp' = [toolOp EXCEPT !.pc = "counts", !.read = read, !.retire = retire]
        PROVE  ToolOpShape(toolOp') /\ toolOp'.pc = "counts"
    BY <2>2 DEF ToolLedgerInv, ToolOpShape, ToolField
  <2> QED
    BY <2>1, <2>2 DEF RunTool
<1> QED
  BY <1>2, <1>3, <1>4 DEF ToolLedgerInv, ToolBacked

\* Tool approvals are asked for, answered, and expire.
LEMMA ToolApprovalsMove ==
  ASSUME ToolLedgerInv, NEW id \in ToolId,
         \/ \E r \in ToolRequest : RequestTool(id, r)
         \/ ApproveTool(id) \/ DenyTool(id) \/ ToolExpires(id)
  PROVE  ToolLedgerInv' /\ ToolBooks
<1>1. Entries(toolApprovals, ToolId)
  BY DEF ToolLedgerInv, Balanced
<1>2. Turn(toolApprovals, toolApprovals', ToolId)
  <2>1. ASSUME NEW r \in ToolRequest, RequestTool(id, r)
        PROVE  Turn(toolApprovals, toolApprovals', ToolId)
    BY <1>1, <2>1, CommonMoves DEF RequestTool
  <2>2. CASE ApproveTool(id)
    BY <1>1, <2>2, CommonMoves DEF ApproveTool, Approvable
  <2>3. CASE DenyTool(id)
    BY <1>1, <2>3, CommonMoves DEF DenyTool, Deniable
  <2>4. CASE ToolExpires(id)
    BY <1>1, <2>4, CommonMoves DEF ToolExpires
  <2> QED
    BY <2>1, <2>2, <2>3, <2>4
<1>3. UNCHANGED <<toolOp, toolActs>>
  BY DEF RequestTool, ApproveTool, DenyTool, ToolExpires
<1> QED
  BY <1>2, <1>3, ToolRecordsMove

\* Steps of operations that run no tool, or have run it.
LEMMA ToolOthers ==
  ASSUME ToolLedgerInv,
         \/ \E t \in Tool : \E version, mode, overwrite : GenerateTool(t, version, mode, overwrite)
         \/ WriteToolFiles \/ RegisterTool \/ RegisterRow
         \/ RecordCounts \/ RecordUsage \/ ToolCrash
  PROVE  ToolLedgerInv' /\ ToolBooks
<1>1. UNCHANGED <<toolApprovals, toolActs>>
  BY DEF GenerateTool, WriteToolFiles, RegisterTool, RegisterRow, RecordCounts, RecordUsage, ToolCrash
<1>2. CASE toolOp' = NoToolOp
  BY <1>1, <1>2, ToolMovesOn, NoToolOpFits
<1>3. ASSUME NEW pc \in {"manifest", "row", "usage"}, toolOp' = [toolOp EXCEPT !.pc = pc]
      PROVE  ToolLedgerInv' /\ ToolBooks
  <2>1. ToolOpShape(toolOp') /\ toolOp'.pc = pc
    BY <1>3 DEF ToolLedgerInv, ToolOpShape, ToolField
  <2> QED
    BY <1>1, <2>1, ToolMovesOn
<1>4. ASSUME NEW t, NEW read, toolOp' = [NoToolOp EXCEPT !.pc = "files", !.tool = t, !.read = read]
      PROVE  ToolLedgerInv' /\ ToolBooks
  <2>1. ToolOpShape(toolOp') /\ toolOp'.pc = "files"
    BY <1>4 DEF NoToolOp, ToolOpShape, ToolField
  <2> QED
    BY <1>1, <2>1, ToolMovesOn
<1> QED
  BY <1>2, <1>3, <1>4
  DEF GenerateTool, WriteToolFiles, RegisterTool, RegisterRow, RecordCounts, RecordUsage, ToolCrash

\* Every step of every gate keeps the books of the tool gate.
LEMMA ToolLedgerHolds ==
  ASSUME ToolLedgerInv, [GatesNext]_gateVars
  PROVE  ToolLedgerInv' /\ ToolBooks
<1>1. CASE ToolNext
  <2>1. CASE \E id \in ToolId, r \in ToolRequest : RequestTool(id, r)
    BY <2>1, ToolApprovalsMove
  <2>2. CASE \E id \in ToolId : ApproveTool(id) \/ DenyTool(id) \/ ToolExpires(id)
    BY <2>2, ToolApprovalsMove
  <2>3. CASE \E r \in ToolRequest, id \in ToolId \cup {None}, network \in NetworkId \cup {None} :
               ExecuteTool(r, id, network)
    BY <2>3, ToolExecutes
  <2>4. CASE \/ \E t \in Tool, status \in {"active", "disabled", "deprecated"} : ReadGovernance(t, status)
             \/ \E t \in Tool, m \in Registered : CreateTool(t, m)
             \/ GovernTool
    BY <2>4, ToolRecordsMove DEF ReadGovernance, CreateTool, GovernTool
  <2>5. CASE \E t \in Tool : DeprecateRow(t) \/ EditTool(t)
    BY <2>5, ToolRecordsMove DEF DeprecateRow, EditTool
  <2> QED
    BY <1>1, <2>1, <2>2, <2>3, <2>4, <2>5, ToolOthers, ToolConnects, ToolRuns DEF ToolNext
<1>2. CASE UNCHANGED <<toolApprovals, toolOp, toolActs>>
  BY <1>2, ToolRecordsMove
<1> QED
  BY <1>1, <1>2
  DEF GatesNext, FileStep, CommandStep, ProviderStep, ToolStep, NetworkStep, WorldStep,
      OtherThanCalls, gateVars, toolVars

\* The books of the tool gate are balanced at first.
LEMMA ToolLedgerStarts == ASSUME GatesInit PROVE ToolLedgerInv
<1>1. /\ toolApprovals = [id \in ToolId |-> NoApproval]
      /\ toolActs = [id \in ToolId |-> 0] /\ toolOp = NoToolOp
  BY DEF GatesInit, ToolInit
<1>2. Balanced(toolApprovals, toolActs, ToolId)
  BY <1>1, BalanceStarts
<1> QED
  BY <1>1, <1>2, NoToolOpFits DEF ToolLedgerInv, ToolBacked

\* A call or a tool that names a network approval names one that there can be.
NetworksNamed ==
    /\ Calls
    /\ \A c \in Call : calls[c].network \in NetworkId \cup {None}

\* A call is replaced by one with a network approval that there can be.
LEMMA NetworksStay ==
  ASSUME NetworksNamed, NEW c \in Call, NEW o, CallShape(o), calls' = [calls EXCEPT ![c] = o],
         o.network \in NetworkId \cup {None}
  PROVE  NetworksNamed'
BY CallsFit DEF NetworksNamed, Calls

\* The steps of a call never change the network approval it names.
LEMMA NetworksStep ==
  ASSUME NetworksNamed, NEW c \in Call, CallStep(c)
  PROVE  NetworksNamed'
<1>1. CallShape(calls[c]) /\ calls[c].network \in NetworkId \cup {None}
  BY DEF NetworksNamed, Calls
<1>2. CASE calls' = [calls EXCEPT ![c] = NoCall]
  <2>1. CallShape(NoCall) /\ NoCall.network = None
    BY DEF CallShape, CallField, NoCall
  <2> QED
    BY <1>2, <2>1, NetworksStay
<1>3. ASSUME NEW pc, Goes(c, pc) PROVE NetworksNamed'
  <2> DEFINE o == [calls[c] EXCEPT !.pc = pc]
  <2>1. CallShape(o) /\ o.network = calls[c].network
    BY <1>1 DEF CallShape, CallField
  <2>2. calls' = [calls EXCEPT ![c] = o]
    BY <1>3 DEF Goes
  <2> HIDE DEF o
  <2> QED
    BY <1>1, <2>1, <2>2, NetworksStay
<1>4. ASSUME NEW probes, calls' = [calls EXCEPT ![c].pc = "authorize", ![c].probe = probes]
      PROVE  NetworksNamed'
  <2> DEFINE o == [calls[c] EXCEPT !.pc = "authorize", !.probe = probes]
  <2>1. CallShape(o) /\ o.network = calls[c].network
    BY <1>1 DEF CallShape, CallField
  <2>2. calls' = [calls EXCEPT ![c] = o]
    BY <1>4 DEF NetworksNamed, Calls
  <2> HIDE DEF o
  <2> QED
    BY <1>1, <2>1, <2>2, NetworksStay
<1>5. CASE calls' = [calls EXCEPT ![c].attempt = @ + 1]
  <2> DEFINE o == [calls[c] EXCEPT !.attempt = @ + 1]
  <2>1. CallShape(o) /\ o.network = calls[c].network
    BY <1>1 DEF CallShape, CallField
  <2>2. calls' = [calls EXCEPT ![c] = o]
    BY <1>5
  <2> HIDE DEF o
  <2> QED
    BY <1>1, <2>1, <2>2, NetworksStay
<1> QED
  BY <1>2, <1>3, <1>4, <1>5
  DEF CallStep, PassCircuit, AuthorizeCall, ClaimProvider, ClaimCallNetwork, SendCall, EndStream,
      CallFails, CallSucceeds

\* Every step keeps the network approvals that are named.
LEMMA NetworksHold == ASSUME NetworksNamed, [GatesNext]_gateVars PROVE NetworksNamed'
<1>1. ASSUME NEW c \in Call, NEW r, NEW id, NEW network \in NetworkId \cup {None},
             BeginCall(c, r, id, network)
      PROVE  NetworksNamed'
  <2> DEFINE o == [NoCall EXCEPT !.pc = "circuit", !.request = r, !.id = id, !.network = network]
  <2>1. CallShape(o) /\ o.network = network
    BY DEF CallShape, CallField, NoCall
  <2>2. calls' = [calls EXCEPT ![c] = o]
    BY <1>1 DEF BeginCall
  <2> HIDE DEF o
  <2> QED
    BY <2>1, <2>2, NetworksStay
<1>2. ASSUME NEW p \in Server, ProviderCrash(p)
      PROVE  NetworksNamed'
  <2>1. calls' = [c \in Call |-> IF CallAt[c] = p THEN NoCall ELSE calls[c]]
    BY <1>2 DEF ProviderCrash
  <2>2. CallShape(NoCall) /\ NoCall.network = None
    BY DEF CallShape, CallField, NoCall
  <2> QED
    BY <2>1, <2>2 DEF NetworksNamed, Calls
<1>3. CASE calls' = calls
  BY <1>3 DEF NetworksNamed, Calls
<1>4. CASE ProviderNext
  BY <1>1, <1>2, <1>3, <1>4, NetworksStep
  DEF ProviderNext, RequestProvider, ApproveProvider, DenyProvider, ProviderExpires, CoolDown,
      ChangeCredential
<1> QED
  BY <1>3, <1>4
  DEF GatesNext, FileStep, CommandStep, ProviderStep, ToolStep, NetworkStep, WorldStep,
      gateVars, providerVars

----------------------------------------------------------------------------
(* All gates. *)

GatesInv ==
    /\ FileLedgerInv /\ CommandLedgerInv /\ ProviderLedgerInv /\ ToolLedgerInv
    /\ NetworkLedgerInv /\ NetworksNamed

\* Every step turns at most one network approval.
LEMMA NetworkHolds == ASSUME GatesInv, [GatesNext]_gateVars PROVE NetworkBooks /\ NetworkLedgerInv'
<1>1. ASSUME NetworkNext PROVE NetworkBooks
  BY <1>1, NetworkMoves DEF GatesInv
<1>2. ASSUME networkApprovals' = networkApprovals PROVE NetworkBooks
  BY <1>2 DEF NetworkBooks
<1>3. ASSUME NEW c \in Call, CallStep(c) PROVE NetworkBooks
  <2>1. CASE ClaimCallNetwork(c) /\ networkApprovals' # networkApprovals
    <3>1. /\ calls[c].network # None /\ calls[c].network \in NetworkId \cup {None}
          /\ ClaimNetwork(calls[c].network, NetworkOf(calls[c].request))
      BY <2>1 DEF ClaimCallNetwork, GatesInv, NetworksNamed
    <3> QED
      BY <3>1, NetworkClaims DEF GatesInv
  <2> QED
    BY <1>2, <1>3, <2>1
    DEF CallStep, PassCircuit, AuthorizeCall, ClaimProvider, SendCall, EndStream, networkVars
<1>4. ASSUME ClaimToolNetwork, networkApprovals' # networkApprovals PROVE NetworkBooks
  <2>1. toolOp.pc = "network"
    BY <1>4 DEF ClaimToolNetwork
  <2>2. /\ toolOp.network # None /\ toolOp.network \in NetworkId \cup {None}
        /\ ClaimNetwork(toolOp.network, SocketOf(toolOp.network))
    BY <1>4, <2>1 DEF ClaimToolNetwork, GatesInv, ToolLedgerInv, ToolBacked
  <2> QED
    BY <2>2, NetworkClaims DEF GatesInv
<1>5. ASSUME ToolNext PROVE NetworkBooks
  BY <1>2, <1>4, <1>5
  DEF ToolNext, GenerateTool, WriteToolFiles, RegisterTool, RegisterRow, ReadGovernance, GovernTool, CreateTool,
      DeprecateRow, EditTool, RequestTool, ApproveTool, DenyTool, ToolExpires, ExecuteTool, RunTool,
      RecordCounts, RecordUsage, ToolCrash, networkVars
<1>6. ASSUME ProviderNext PROVE NetworkBooks
  BY <1>2, <1>3, <1>6
  DEF ProviderNext, RequestProvider, ApproveProvider, DenyProvider, ProviderExpires, BeginCall,
      CoolDown, ProviderCrash, ChangeCredential, networkVars
<1>7. NetworkBooks
  BY <1>1, <1>2, <1>5, <1>6
  DEF GatesNext, FileStep, CommandStep, ProviderStep, ToolStep, NetworkStep, WorldStep,
      gateVars, networkVars
<1> QED
  BY <1>7, Turning DEF NetworkBooks, NetworkLedgerInv, GatesInv

\* The invariant of all gates is inductive.
LEMMA GatesHold == ASSUME GatesInv, [GatesNext]_gateVars PROVE GatesInv'
BY FileLedgerHolds, CommandLedgerHolds, ProviderLedgerHolds, ToolLedgerHolds, NetworkHolds, NetworksHold
DEF GatesInv

\* The invariant of all gates holds at first.
LEMMA GatesStart == ASSUME GatesInit PROVE GatesInv
<1>1. NetworkLedgerInv
  BY NewSlip DEF GatesInit, NetworkInit, NetworkLedgerInv, Entries
<1>2. NetworksNamed
  <2>1. CallShape(NoCall) /\ NoCall.network = None
    BY DEF CallShape, CallField, NoCall
  <2>2. calls = [c \in Call |-> NoCall]
    BY DEF GatesInit, ProviderInit
  <2> QED
    BY <2>1, <2>2 DEF NetworksNamed, Calls
<1> QED
  BY <1>1, <1>2, FileLedgerStarts, CommandLedgerStarts, ProviderLedgerStarts, ToolLedgerStarts
  DEF GatesInv

\* Each id names the record of its gate.
LEMMA RecordOf ==
  /\ \A a \in FileId : Record(a) = fileApprovals[a]
  /\ \A a \in CommandId : Record(a) = commandApprovals[a]
  /\ \A a \in ProviderId : Record(a) = providerApprovals[a]
  /\ \A a \in ToolId : Record(a) = toolApprovals[a]
  /\ \A a \in NetworkId : Record(a) = networkApprovals[a]
BY GatesApart DEF Record

\* The part of ActsAsApproved about files.
LEMMA FilesActAsApproved ==
  ASSUME GatesInv, Environment = "production", NEW p \in FileProcess,
         Going(fileOp[p]), fileOp[p].decision.mode = "approval"
  PROVE  LET o == fileOp[p]
         IN  /\ UsedBy(o.id, o.request, o.decision)
             /\ \A q \in FileProcess \ {p} : Going(fileOp[q]) => fileOp[q].id # o.id
<1>1. FileBacked(fileOp[p], fileApprovals, fileActs) /\ fileOp[p].id \in FileId \cup {None}
  BY DEF GatesInv, FileLedgerInv, Going
<1>2. fileOp[p].id # None /\ fileOp[p].id \in FileId
  BY <1>1 DEF FileBacked
<1>3. UsedBy(fileOp[p].id, fileOp[p].request, fileOp[p].decision)
  BY <1>1, <1>2, RecordOf DEF FileBacked, UsedBy
<1>4. \A q \in FileProcess \ {p} : Going(fileOp[q]) => fileOp[q].id # fileOp[p].id
  BY <1>2 DEF GatesInv, FileLedgerInv
<1> QED
  BY <1>3, <1>4

\* The part of ActsAsApproved about commands.
LEMMA CommandsActAsApproved ==
  ASSUME GatesInv, CommandEnvironment = "production",
         commandOp.pc \in {"launch", "record", "mark"}, commandOp.decision.mode = "approval"
  PROVE  UsedBy(commandOp.id, commandOp.request, commandOp.decision)
<1>1. CommandBacked(commandOp, commandApprovals, commandActs)
  BY DEF GatesInv, CommandLedgerInv
<1>2. commandOp.id # None /\ commandOp.id \in CommandId
  BY <1>1 DEF CommandBacked
<1> QED
  BY <1>1, <1>2, RecordOf DEF CommandBacked, UsedBy

\* The part of ActsAsApproved about provider calls.
LEMMA CallsActAsApproved ==
  ASSUME GatesInv, ProviderEnvironment = "production", NEW c \in Call,
         calls[c].pc \in {"network", "send", "streaming"}, External(calls[c].request)
  PROVE  LET o == calls[c]
         IN  /\ o.id # None
             /\ Record(o.id).status = "executed" /\ Record(o.id).bound.request = o.request
             /\ \A d \in Call \ {c} :
                    calls[d].pc \in {"network", "send", "streaming"} => calls[d].id # o.id
<1>1. CallBacked(calls[c], providerApprovals, providerActs)
  BY DEF GatesInv, ProviderLedgerInv
<1>2. calls[c].id # None /\ calls[c].id \in ProviderId
  BY <1>1 DEF CallBacked, Out
<1>3. Record(calls[c].id).status = "executed" /\ Record(calls[c].id).bound.request = calls[c].request
  BY <1>1, <1>2, RecordOf DEF CallBacked, Out
<1>4. \A d \in Call \ {c} : calls[d].pc \in Out => calls[d].id # calls[c].id
  BY <1>2 DEF GatesInv, ProviderLedgerInv, Out
<1> QED
  BY <1>2, <1>3, <1>4 DEF Out

(* Whatever the rules, the tasks and the requests become in the meantime: what
   needs approval in production goes ahead on a record of its own that was
   bound to it and is used up (guardrails.py:1099, cli_runtime.py:1571,
   provider_runtime.py:1641). *)
THEOREM ApprovedActsOnly == GatesSpec => []ActsAsApproved
<1>1. GatesInit => GatesInv
  BY GatesStart
<1>2. GatesInv /\ [GatesNext]_gateVars => GatesInv'
  BY GatesHold
<1>3. GatesInv => ActsAsApproved
  BY FilesActAsApproved, CommandsActAsApproved, CallsActAsApproved DEF ActsAsApproved, Going
<1> QED
  BY <1>1, <1>2, <1>3, PTL DEF GatesSpec

----------------------------------------------------------------------------
(* The ledger. *)

LedgerStatus == [a \in Approval |-> Record(a).status]

LedgerActs == [a \in Approval |-> ActsOn(a)]

LedgerStep ==
    \/ \E a \in Approval : Ledger!Ask(a) \/ Ledger!Answer(a) \/ Ledger!UseUp(a) \/ Ledger!Act(a)
    \/ UNCHANGED Ledger!ledgerVars

\* The ledger's variables as functions of the state and of the next.
LEMMA LedgerReads ==
  /\ \A a \in FileId : LedgerStatus[a] = fileApprovals[a].status /\ LedgerActs[a] = fileActs[a]
  /\ \A a \in CommandId : LedgerStatus[a] = commandApprovals[a].status /\ LedgerActs[a] = commandActs[a]
  /\ \A a \in ProviderId : LedgerStatus[a] = providerApprovals[a].status /\ LedgerActs[a] = providerActs[a]
  /\ \A a \in ToolId : LedgerStatus[a] = toolApprovals[a].status /\ LedgerActs[a] = toolActs[a]
  /\ \A a \in NetworkId : LedgerStatus[a] = networkApprovals[a].status /\ LedgerActs[a] = 0
BY GatesApart, RecordOf DEF LedgerStatus, LedgerActs, Approval, ActsOn

\* The same in the next state.
LEMMA LedgerReadsNext ==
  /\ \A a \in FileId : LedgerStatus'[a] = fileApprovals'[a].status /\ LedgerActs'[a] = fileActs'[a]
  /\ \A a \in CommandId : LedgerStatus'[a] = commandApprovals'[a].status /\ LedgerActs'[a] = commandActs'[a]
  /\ \A a \in ProviderId : LedgerStatus'[a] = providerApprovals'[a].status /\ LedgerActs'[a] = providerActs'[a]
  /\ \A a \in ToolId : LedgerStatus'[a] = toolApprovals'[a].status /\ LedgerActs'[a] = toolActs'[a]
  /\ \A a \in NetworkId : LedgerStatus'[a] = networkApprovals'[a].status /\ LedgerActs'[a] = 0
BY GatesApart DEF LedgerStatus, LedgerActs, Approval, Record, ActsOn

\* A record that moves on is a step of the ledger.
LEMMA LedgerMoves ==
  ASSUME NEW id \in Approval, Legal(LedgerStatus[id], LedgerStatus'[id]),
         \A b \in Approval \ {id} : LedgerStatus'[b] = LedgerStatus[b],
         LedgerActs' = LedgerActs
  PROVE  LedgerStep
<1>1. LedgerStatus' = [LedgerStatus EXCEPT ![id] = LedgerStatus'[id]]
  BY DEF LedgerStatus
<1>2. ASSUME NEW from, NEW to, LedgerStatus[id] = from, LedgerStatus'[id] = to
      PROVE  Ledger!Moves(id, from, to)
  BY <1>1, <1>2 DEF Ledger!Moves, LedgerStatus, LedgerActs
<1> QED
  BY <1>2 DEF LedgerStep, Ledger!Ask, Ledger!Answer, Ledger!UseUp, Legal

\* An act upon a record is a step of the ledger.
LEMMA LedgerActed ==
  ASSUME NEW id \in Approval, LedgerStatus[id] = "executed", LedgerActs[id] = 0, LedgerActs'[id] = 1,
         \A b \in Approval \ {id} : LedgerActs'[b] = LedgerActs[b],
         LedgerStatus' = LedgerStatus
  PROVE  LedgerStep
<1>1. LedgerActs' = [LedgerActs EXCEPT ![id] = 1]
  BY DEF LedgerActs
<1>2. Ledger!Act(id)
  BY <1>1 DEF Ledger!Act, LedgerStatus, LedgerActs
<1> QED
  BY <1>2 DEF LedgerStep

\* What changes neither is not seen by the ledger.
LEMMA LedgerStutters ==
  ASSUME LedgerStatus' = LedgerStatus, LedgerActs' = LedgerActs
  PROVE  LedgerStep
BY DEF LedgerStep, Ledger!ledgerVars, LedgerStatus, LedgerActs

\* What happens to the books of one gate happens to the ledger.
LEMMA BooksAreLedger ==
  ASSUME NEW ids \in SUBSET Approval, NEW S, NEW T, NEW A, NEW B,
         Balanced(S, A, ids), Books(S, T, A, B, ids),
         \A a \in ids : LedgerStatus[a] = S[a].status /\ LedgerStatus'[a] = T[a].status,
         \A a \in ids : LedgerActs[a] = A[a] /\ LedgerActs'[a] = B[a],
         \A a \in Approval \ ids : LedgerStatus'[a] = LedgerStatus[a] /\ LedgerActs'[a] = LedgerActs[a]
  PROVE  LedgerStep
<1>1. LedgerStatus = [a \in Approval |-> LedgerStatus[a]] /\ LedgerStatus' = [a \in Approval |-> LedgerStatus'[a]]
  BY DEF LedgerStatus
<1>2. LedgerActs = [a \in Approval |-> LedgerActs[a]] /\ LedgerActs' = [a \in Approval |-> LedgerActs'[a]]
  BY DEF LedgerActs
<1>3. CASE Turn(S, T, ids) /\ B = A
  <2>1. PICK id \in ids :
                /\ T[id].status = S[id].status \/ Legal(S[id].status, T[id].status)
                /\ \A other \in ids \ {id} : T[other].status = S[other].status
    BY <1>3, Turning DEF Balanced
  <2>2. \A b \in Approval \ {id} : LedgerStatus'[b] = LedgerStatus[b]
    BY <2>1
  <2>3. \A b \in Approval : LedgerActs'[b] = LedgerActs[b]
    BY <1>3
  <2>4. LedgerActs' = LedgerActs
    BY <1>2, <2>3
  <2>5. CASE LedgerStatus'[id] = LedgerStatus[id]
    <3>1. LedgerStatus' = LedgerStatus
      BY <1>1, <2>2, <2>5
    <3> QED
      BY <2>4, <3>1, LedgerStutters
  <2>6. CASE Legal(LedgerStatus[id], LedgerStatus'[id])
    BY <2>2, <2>4, <2>6, LedgerMoves
  <2> QED
    BY <2>1, <2>5, <2>6
<1>4. CASE /\ T = S
           /\ \E id \in ids : S[id].status = "executed" /\ A[id] = 0 /\ B = [A EXCEPT ![id] = 1]
  <2>1. PICK id \in ids : S[id].status = "executed" /\ A[id] = 0 /\ B = [A EXCEPT ![id] = 1]
    BY <1>4
  <2>2. B[id] = 1 /\ \A b \in ids \ {id} : B[b] = A[b]
    BY <2>1 DEF Balanced
  <2>3. \A b \in Approval \ {id} : LedgerActs'[b] = LedgerActs[b]
    BY <2>2
  <2>4. LedgerStatus' = LedgerStatus
    BY <1>1, <1>4
  <2>5. LedgerStatus[id] = "executed" /\ LedgerActs[id] = 0 /\ LedgerActs'[id] = 1
    BY <2>1, <2>2
  <2> QED
    BY <2>3, <2>4, <2>5, LedgerActed
<1>5. CASE T = S /\ B = A
  <2>1. LedgerStatus' = LedgerStatus
    BY <1>1, <1>5
  <2>2. LedgerActs' = LedgerActs
    BY <1>2, <1>5
  <2> QED
    BY <2>1, <2>2, LedgerStutters
<1> QED
  BY <1>3, <1>4, <1>5 DEF Books

\* The records and acts of the gates other than the one in use.
FilesUntouched == UNCHANGED <<fileApprovals, fileActs>>
CommandsUntouched == UNCHANGED <<commandApprovals, commandActs>>
CallsUntouched == UNCHANGED <<providerApprovals, providerActs>>
ToolsUntouched == UNCHANGED <<toolApprovals, toolActs>>
NetworkUntouched == UNCHANGED networkApprovals

\* Steps of the file gate.
LEMMA FilesAreLedger ==
  ASSUME GatesInv, FileBooks, CommandsUntouched, CallsUntouched, ToolsUntouched, NetworkUntouched
  PROVE  LedgerStep
<1>1. /\ Balanced(fileApprovals, fileActs, FileId)
      /\ Books(fileApprovals, fileApprovals', fileActs, fileActs', FileId)
  BY DEF GatesInv, FileLedgerInv, FileBooks
<1>2. \A a \in Approval \ FileId : LedgerStatus'[a] = LedgerStatus[a] /\ LedgerActs'[a] = LedgerActs[a]
  BY LedgerReads, LedgerReadsNext
  DEF Approval, CommandsUntouched, CallsUntouched, ToolsUntouched, NetworkUntouched
<1>3. FileId \in SUBSET Approval
  BY DEF Approval
<1> QED
  BY <1>1, <1>2, <1>3, LedgerReads, LedgerReadsNext, BooksAreLedger

\* Steps of the command gate.
LEMMA CommandsAreLedger ==
  ASSUME GatesInv, CommandBooks, FilesUntouched, CallsUntouched, ToolsUntouched, NetworkUntouched
  PROVE  LedgerStep
<1>1. /\ Balanced(commandApprovals, commandActs, CommandId)
      /\ Books(commandApprovals, commandApprovals', commandActs, commandActs', CommandId)
  BY DEF GatesInv, CommandLedgerInv, CommandBooks
<1>2. \A a \in Approval \ CommandId : LedgerStatus'[a] = LedgerStatus[a] /\ LedgerActs'[a] = LedgerActs[a]
  BY LedgerReads, LedgerReadsNext
  DEF Approval, FilesUntouched, CallsUntouched, ToolsUntouched, NetworkUntouched
<1>3. CommandId \in SUBSET Approval
  BY DEF Approval
<1> QED
  BY <1>1, <1>2, <1>3, LedgerReads, LedgerReadsNext, BooksAreLedger

\* Steps of the provider gate that leave the network alone.
LEMMA CallsAreLedger ==
  ASSUME GatesInv, ProviderBooks, FilesUntouched, CommandsUntouched, ToolsUntouched, NetworkUntouched
  PROVE  LedgerStep
<1>1. /\ Balanced(providerApprovals, providerActs, ProviderId)
      /\ Books(providerApprovals, providerApprovals', providerActs, providerActs', ProviderId)
  BY DEF GatesInv, ProviderLedgerInv, ProviderBooks
<1>2. \A a \in Approval \ ProviderId : LedgerStatus'[a] = LedgerStatus[a] /\ LedgerActs'[a] = LedgerActs[a]
  BY LedgerReads, LedgerReadsNext
  DEF Approval, FilesUntouched, CommandsUntouched, ToolsUntouched, NetworkUntouched
<1>3. ProviderId \in SUBSET Approval
  BY DEF Approval
<1> QED
  BY <1>1, <1>2, <1>3, LedgerReads, LedgerReadsNext, BooksAreLedger

\* Steps of the tool gate that leave the network alone.
LEMMA ToolsAreLedger ==
  ASSUME GatesInv, ToolBooks, FilesUntouched, CommandsUntouched, CallsUntouched, NetworkUntouched
  PROVE  LedgerStep
<1>1. /\ Balanced(toolApprovals, toolActs, ToolId)
      /\ Books(toolApprovals, toolApprovals', toolActs, toolActs', ToolId)
  BY DEF GatesInv, ToolLedgerInv, ToolBooks
<1>2. \A a \in Approval \ ToolId : LedgerStatus'[a] = LedgerStatus[a] /\ LedgerActs'[a] = LedgerActs[a]
  BY LedgerReads, LedgerReadsNext
  DEF Approval, FilesUntouched, CommandsUntouched, CallsUntouched, NetworkUntouched
<1>3. ToolId \in SUBSET Approval
  BY DEF Approval
<1> QED
  BY <1>1, <1>2, <1>3, LedgerReads, LedgerReadsNext, BooksAreLedger

\* Steps that turn a network approval and nothing else.
LEMMA NetworkIsLedger ==
  ASSUME GatesInv, NetworkBooks, FilesUntouched, CommandsUntouched, CallsUntouched, ToolsUntouched
  PROVE  LedgerStep
<1> DEFINE none == [id \in NetworkId |-> 0]
<1>2. Balanced(networkApprovals, none, NetworkId)
  BY DEF GatesInv, NetworkLedgerInv, Balanced
<1>3. Books(networkApprovals, networkApprovals', none, none, NetworkId)
  BY DEF NetworkBooks, Books
<1>4. \A a \in Approval \ NetworkId : LedgerStatus'[a] = LedgerStatus[a] /\ LedgerActs'[a] = LedgerActs[a]
  BY LedgerReads, LedgerReadsNext
  DEF Approval, FilesUntouched, CommandsUntouched, CallsUntouched, ToolsUntouched
<1>5. NetworkId \in SUBSET Approval
  BY DEF Approval
<1>6. \A a \in NetworkId : none[a] = 0
  OBVIOUS
<1> HIDE DEF none
<1> QED
  BY <1>2, <1>3, <1>4, <1>5, <1>6, LedgerReads, LedgerReadsNext, BooksAreLedger

\* A step of the provider gate touches one of two ledgers at a time.
LEMMA ProviderStepLedger == ASSUME GatesInv, ProviderStep PROVE LedgerStep
<1>1. /\ FilesUntouched /\ CommandsUntouched /\ ToolsUntouched /\ ProviderBooks /\ NetworkBooks
  BY ProviderLedgerHolds, NetworkHolds
  DEF GatesNext, GatesInv, ProviderStep, OtherThanCalls, fileVars, commandVars, toolVars, FilesUntouched,
      CommandsUntouched, ToolsUntouched
<1>2. CASE NetworkUntouched
  BY <1>1, <1>2, CallsAreLedger
<1>3. CASE CallsUntouched
  BY <1>1, <1>3, NetworkIsLedger
<1>4. ASSUME NEW c \in Call, CallStep(c) PROVE NetworkUntouched \/ CallsUntouched
  BY <1>4
  DEF CallStep, PassCircuit, AuthorizeCall, ClaimProvider, ClaimCallNetwork, SendCall, EndStream,
      networkVars, NetworkUntouched, CallsUntouched
<1>5. NetworkUntouched \/ CallsUntouched
  BY <1>4
  DEF ProviderStep, ProviderNext, RequestProvider, ApproveProvider, DenyProvider, ProviderExpires,
      BeginCall, CoolDown, ProviderCrash, ChangeCredential, networkVars, NetworkUntouched, CallsUntouched
<1> QED
  BY <1>2, <1>3, <1>5

\* And so does one of the tool gate.
LEMMA ToolStepLedger == ASSUME GatesInv, ToolStep PROVE LedgerStep
<1>1. /\ FilesUntouched /\ CommandsUntouched /\ CallsUntouched /\ ToolBooks /\ NetworkBooks
  BY ToolLedgerHolds, NetworkHolds
  DEF GatesNext, GatesInv, ToolStep, fileVars, commandVars, providerVars, FilesUntouched,
      CommandsUntouched, CallsUntouched
<1>2. CASE NetworkUntouched
  BY <1>1, <1>2, ToolsAreLedger
<1>3. CASE ToolsUntouched
  BY <1>1, <1>3, NetworkIsLedger
<1>4. NetworkUntouched \/ ToolsUntouched
  BY DEF ToolStep, ToolNext, GenerateTool, WriteToolFiles, RegisterTool, RegisterRow, ReadGovernance,
      GovernTool, CreateTool, DeprecateRow, EditTool, RequestTool, ApproveTool, DenyTool, ToolExpires,
      ExecuteTool, ClaimToolNetwork, RunTool,
      RecordCounts, RecordUsage, ToolCrash, networkVars, NetworkUntouched, ToolsUntouched
<1> QED
  BY <1>2, <1>3, <1>4

\* Every step of every gate is a step of the ledger, or none.
LEMMA GatesStepLedger == ASSUME GatesInv, [GatesNext]_gateVars PROVE LedgerStep
<1>1. CASE FileStep
  BY <1>1, FileLedgerHolds, FilesAreLedger
  DEF GatesInv, GatesNext, FileStep, commandVars, providerVars, toolVars, networkVars,
      CommandsUntouched, CallsUntouched, ToolsUntouched, NetworkUntouched
<1>2. CASE CommandStep
  BY <1>2, CommandLedgerHolds, CommandsAreLedger
  DEF GatesInv, GatesNext, CommandStep, fileVars, providerVars, toolVars, networkVars,
      FilesUntouched, CallsUntouched, ToolsUntouched, NetworkUntouched
<1>3. CASE ProviderStep
  BY <1>3, ProviderStepLedger
<1>4. CASE ToolStep
  BY <1>4, ToolStepLedger
<1>5. CASE NetworkStep
  BY <1>5, NetworkHolds, NetworkIsLedger
  DEF GatesNext, NetworkStep, fileVars, commandVars,
      FilesUntouched, CommandsUntouched, CallsUntouched, ToolsUntouched
<1>6. CASE WorldStep \/ UNCHANGED gateVars
  <2>1. FilesUntouched /\ CommandsUntouched /\ CallsUntouched /\ ToolsUntouched /\ NetworkUntouched
    BY <1>6
    DEF WorldStep, gateVars, fileVars, commandVars, providerVars, toolVars, networkVars,
        FilesUntouched, CommandsUntouched, CallsUntouched, ToolsUntouched, NetworkUntouched
  <2> QED
    BY <2>1, NetworkIsLedger DEF NetworkBooks, NetworkUntouched
<1> QED
  BY <1>1, <1>2, <1>3, <1>4, <1>5, <1>6 DEF GatesNext

\* The ledger is empty at first.
LEMMA LedgerStarts == ASSUME GatesInit PROVE Ledger!LedgerInit
<1>1. /\ \A a \in FileId : fileApprovals[a].status = "absent" /\ fileActs[a] = 0
      /\ \A a \in CommandId : commandApprovals[a].status = "absent" /\ commandActs[a] = 0
      /\ \A a \in ProviderId : providerApprovals[a].status = "absent" /\ providerActs[a] = 0
      /\ \A a \in ToolId : toolApprovals[a].status = "absent" /\ toolActs[a] = 0
      /\ \A a \in NetworkId : networkApprovals[a].status = "absent"
  BY NewSlip, SlipWithRun DEF GatesInit, FileInit, CommandInit, ProviderInit, ToolInit, NetworkInit
<1>2. \A a \in Approval : LedgerStatus[a] = "absent" /\ LedgerActs[a] = 0
  BY <1>1, LedgerReads DEF Approval
<1>3. LedgerStatus = [a \in Approval |-> "absent"] /\ LedgerActs = [a \in Approval |-> 0]
  BY <1>2 DEF LedgerStatus, LedgerActs
<1> QED
  BY <1>3 DEF Ledger!LedgerInit, LedgerStatus, LedgerActs

(* The five gates implement the one ledger, whatever the numbers of approvals,
   requests and processes: an approval is answered once, used up once, and
   acted upon at most once (guardrails.py:736, network_policy.py:681,
   provider_runtime.py:1755, cli_runtime.py:2047, tool_runtime.py:902). *)
THEOREM GatesKeepLedger == GatesSpec => ImplementsLedger
<1>1. GatesInit => GatesInv
  BY GatesStart
<1>2. GatesInv /\ [GatesNext]_gateVars => GatesInv'
  BY GatesHold
<1>3. GatesInit => Ledger!LedgerInit
  BY LedgerStarts
<1>4. GatesInv /\ [GatesNext]_gateVars =>
        [\E a \in Approval : Ledger!Ask(a) \/ Ledger!Answer(a) \/ Ledger!UseUp(a) \/ Ledger!Act(a)]_(Ledger!ledgerVars)
  BY GatesStepLedger DEF LedgerStep
<1> QED
  BY <1>1, <1>2, <1>3, <1>4, PTL DEF GatesSpec, ImplementsLedger, Ledger!LedgerSpec

----------------------------------------------------------------------------
(* The command policy.  It classifies a command by a recursion over the    *)
(* commands inside it, so the first question is whether that recursion     *)
(* says anything: a recursion that looks only at smaller elements has a    *)
(* solution (Recursion), and what is inside a command has less text.       *)

\* A nonempty set of numbers has a least one.
LEMMA Least ==
  ASSUME NEW T \in SUBSET Nat, T # {}
  PROVE  \E x \in T : \A y \in T : x <= y
<1>1. PICK x \in T : \A y \in T : ~(<<y, x>> \in OpToRel(<, Nat))
  BY NatLessThanWellFounded, WFMin
<1>2. \A y \in T : ~(y < x)
  BY <1>1 DEF OpToRel
<1> QED
  BY <1>2

\* So there is a smallest element of a set whose elements have a size.
LEMMA Smallest ==
  ASSUME NEW T, NEW size, \A x \in T : size[x] \in Nat, T # {}
  PROVE  \E x \in T : \A y \in T : size[x] <= size[y]
<1> DEFINE sizes == {size[x] : x \in T}
<1>1. PICK n \in sizes : \A m \in sizes : n <= m
  <2>1. sizes \in SUBSET Nat /\ sizes # {}
    OBVIOUS
  <2> HIDE DEF sizes
  <2> QED
    BY <2>1, Least
<1> QED
  BY <1>1

\* step gives the value of every element of S from a function of the values,
\* of which it looks at those of smaller elements only.
Recursive(S, V, size, step) ==
    /\ size \in [S -> Nat]
    /\ step \in [S -> [[S -> V] -> V]]
    /\ \A x \in S : \A g, h \in [S -> V] :
           (\A y \in S : size[y] < size[x] => g[y] = h[y]) => step[x][g] = step[x][h]

\* f computes every element smaller than n as step says.
SolvesBelow(n, f, S, V, size, step) ==
    f \in [S -> V] /\ \A x \in S : size[x] < n => f[x] = step[x][f]

\* Functions that compute all smaller elements agree on them.
LEMMA SolutionsAgree ==
  ASSUME NEW S, NEW V, NEW size, NEW step, Recursive(S, V, size, step),
         NEW n \in Nat, NEW m \in Nat, NEW f, NEW g,
         SolvesBelow(n, f, S, V, size, step), SolvesBelow(m, g, S, V, size, step)
  PROVE  \A x \in S : size[x] < n /\ size[x] < m => f[x] = g[x]
<1> size \in [S -> Nat]
  BY DEF Recursive
<1> DEFINE Bad == {x \in S : size[x] < n /\ size[x] < m /\ f[x] # g[x]}
<1> SUFFICES ASSUME Bad # {} PROVE FALSE
  OBVIOUS
<1>1. PICK x \in Bad : \A y \in Bad : size[x] <= size[y]
  <2>1. \A x \in Bad : size[x] \in Nat
    OBVIOUS
  <2> HIDE DEF Bad
  <2> QED
    BY <2>1, Smallest
<1>2. ASSUME NEW y \in S, size[y] < size[x]
      PROVE  f[y] = g[y]
  <2>1. size[x] \in Nat /\ size[y] \in Nat /\ size[x] < n /\ size[x] < m
    BY <1>1
  <2>2. size[y] < n /\ size[y] < m /\ ~(size[x] <= size[y])
    BY <1>2, <2>1
  <2> QED
    BY <1>1, <2>2
<1>3. step[x][f] = step[x][g]
  BY <1>1, <1>2 DEF Recursive, SolvesBelow
<1> QED
  BY <1>1, <1>3 DEF SolvesBelow

\* Below any size there is a solution.
LEMMA SolutionBelow ==
  ASSUME NEW S, NEW V, V # {}, NEW size, NEW step, Recursive(S, V, size, step)
  PROVE  \A n \in Nat : \E f : SolvesBelow(n, f, S, V, size, step)
<1> size \in [S -> Nat]
  BY DEF Recursive
<1> DEFINE Bad == {n \in Nat : ~\E f : SolvesBelow(n, f, S, V, size, step)}
<1> SUFFICES ASSUME Bad # {} PROVE FALSE
  OBVIOUS
<1>1. PICK n \in Bad : \A m \in Bad : n <= m
  <2>1. Bad \in SUBSET Nat
    OBVIOUS
  <2> HIDE DEF Bad
  <2> QED
    BY <2>1, Least
<1>2. CASE n = 0
  <2>1. PICK v \in V : TRUE
    OBVIOUS
  <2>2. [x \in S |-> v] \in [S -> V]
    OBVIOUS
  <2>3. SolvesBelow(0, [x \in S |-> v], S, V, size, step)
    <3>1. \A x \in S : ~(size[x] < 0)
      OBVIOUS
    <3> QED
      BY <2>2, <3>1 DEF SolvesBelow
  <2> QED
    BY <1>1, <1>2, <2>2, <2>3
<1>3. CASE n # 0
  <2>1. n - 1 \in Nat /\ n - 1 \notin Bad
    BY <1>1, <1>3
  <2>2. PICK f : SolvesBelow(n - 1, f, S, V, size, step)
    BY <2>1
  <2> DEFINE next == [x \in S |-> IF size[x] < n - 1 THEN f[x] ELSE step[x][f]]
  <2>3. next \in [S -> V]
    <3>1. f \in [S -> V] /\ step \in [S -> [[S -> V] -> V]]
      BY <2>2 DEF Recursive, SolvesBelow
    <3> QED
      BY <3>1
  <2>4. ASSUME NEW x \in S, size[x] < n
        PROVE  next[x] = step[x][next]
    <3>1. \A y \in S : size[y] < size[x] => next[y] = f[y]
      BY <2>4, <1>1
    <3>2. step[x][next] = step[x][f]
      BY <2>2, <2>3, <3>1 DEF Recursive, SolvesBelow
    <3>3. next[x] = step[x][f]
      <4>1. CASE size[x] < n - 1
        BY <2>2, <4>1 DEF SolvesBelow
      <4>2. CASE ~(size[x] < n - 1)
        BY <4>2
      <4> QED
        BY <4>1, <4>2
    <3> QED
      BY <3>2, <3>3
  <2> HIDE DEF next
  <2>5. SolvesBelow(n, next, S, V, size, step)
    BY <2>3, <2>4 DEF SolvesBelow
  <2> QED
    BY <1>1, <2>3, <2>5
<1> QED
  BY <1>2, <1>3

\* A recursion whose steps look only at smaller elements has a solution.
LEMMA Recursion ==
  ASSUME NEW S, NEW V, V # {}, NEW size, NEW step, Recursive(S, V, size, step)
  PROVE  \E f \in [S -> V] : \A x \in S : f[x] = step[x][f]
<1> size \in [S -> Nat]
  BY DEF Recursive
<1>0. \A n \in Nat : \E f : SolvesBelow(n, f, S, V, size, step)
  BY SolutionBelow
<1>3. ASSUME NEW n \in Nat, NEW m \in Nat, NEW f, NEW g,
             SolvesBelow(n, f, S, V, size, step), SolvesBelow(m, g, S, V, size, step), NEW x \in S,
             size[x] < n, size[x] < m
      PROVE  f[x] = g[x]
  <2>1. \A y \in S : size[y] < n /\ size[y] < m => f[y] = g[y]
    BY <1>3, SolutionsAgree
  <2> QED
    BY <1>3, <2>1
<1> DEFINE Upto(x) == CHOOSE f : SolvesBelow(size[x] + 1, f, S, V, size, step)
           whole == [x \in S |-> Upto(x)[x]]
<1>1. \A x \in S : SolvesBelow(size[x] + 1, Upto(x), S, V, size, step)
  <2> TAKE x \in S
  <2>1. \E f : SolvesBelow(size[x] + 1, f, S, V, size, step)
    BY <1>0
  <2> QED
    BY <2>1
<1> HIDE DEF Upto
<1>2. whole \in [S -> V]
  BY <1>1 DEF SolvesBelow
<1>4. ASSUME NEW x \in S
      PROVE  whole[x] = step[x][whole]
  <2>1. ASSUME NEW y \in S, size[y] < size[x]
        PROVE  whole[y] = Upto(x)[y]
    <3>1. Upto(y)[y] = Upto(x)[y]
      <4>1. size[y] < size[y] + 1 /\ size[y] < size[x] + 1 /\ size[y] + 1 \in Nat /\ size[x] + 1 \in Nat
        BY <2>1
      <4>3. SolvesBelow(size[x] + 1, Upto(x), S, V, size, step) /\ SolvesBelow(size[y] + 1, Upto(y), S, V, size, step)
        BY <1>1
      <4> QED
        BY <4>1, <4>3, <1>3
    <3> QED
      BY <3>1
  <2>2. step[x][whole] = step[x][Upto(x)]
    BY <1>1, <1>2, <2>1 DEF Recursive, SolvesBelow
  <2>3. Upto(x)[x] = step[x][Upto(x)]
    BY <1>1 DEF SolvesBelow
  <2> QED
    BY <2>2, <2>3
<1> QED
  BY <1>2, <1>4

----------------------------------------------------------------------------
(* The commands that are in a command. *)

\* Adding what is in some of the commands that are directly inside.
Gathered(kids, c, g) == {c} \cup UNION {g[d] : d \in kids[c]}

\* That recursion has a solution, and every solution stays within the command.
LEMMA Gathering ==
  ASSUME NEW kids, \A c \in Command : kids[c] \subseteq Inside(c)
  PROVE  /\ \E f : f = [c \in Command |-> Gathered(kids, c, f)]
         /\ \A f : f = [c \in Command |-> Gathered(kids, c, f)] =>
               /\ f \in [Command -> SUBSET Command]
               /\ \A c \in Command : \A d \in f[c] : TextLength[d] <= TextLength[c]
<1> DEFINE V == SUBSET Command
           step == [c \in Command |-> [g \in [Command -> V] |-> Gathered(kids, c, g)]]
<1>1. step \in [Command -> [[Command -> V] -> V]]
  <2>1. ASSUME NEW c \in Command, NEW g \in [Command -> V]
        PROVE  Gathered(kids, c, g) \in V
    BY <2>1, CommandsAreWhole DEF Gathered
  <2> HIDE DEF V
  <2> QED
    BY <2>1
<1>2. ASSUME NEW c \in Command, NEW g \in [Command -> V], NEW h \in [Command -> V],
             \A d \in Command : TextLength[d] < TextLength[c] => g[d] = h[d]
      PROVE  Gathered(kids, c, g) = Gathered(kids, c, h)
  <2>1. \A d \in kids[c] : g[d] = h[d]
    BY <1>2, CommandsAreWhole
  <2> QED
    BY <2>1 DEF Gathered
<1>3. Recursive(Command, V, TextLength, step)
  BY <1>1, <1>2, CommandsAreWhole DEF Recursive
<1>4. PICK f \in [Command -> V] : \A c \in Command : f[c] = step[c][f]
  <2>1. V # {}
    OBVIOUS
  <2> HIDE DEF V, step
  <2> QED
    BY <1>3, <2>1, Recursion
<1>5. f = [c \in Command |-> Gathered(kids, c, f)]
  BY <1>4
<1>6. ASSUME NEW g, g = [c \in Command |-> Gathered(kids, c, g)]
      PROVE  /\ g \in [Command -> SUBSET Command]
             /\ \A c \in Command : \A d \in g[c] : TextLength[d] <= TextLength[c]
  <2> DEFINE NoLonger(c) == g[c] \subseteq Command /\ \A d \in g[c] : TextLength[d] <= TextLength[c]
             Bad == {c \in Command : ~NoLonger(c)}
  <2>1. \A c \in Command : g[c] = Gathered(kids, c, g)
    BY <1>6
  <2>2. ASSUME Bad # {} PROVE FALSE
    <3>1. PICK c \in Bad : \A d \in Bad : TextLength[c] <= TextLength[d]
      <4>1. \A c \in Bad : TextLength[c] \in Nat
        BY CommandsAreWhole
      <4> HIDE DEF Bad
      <4> QED
        BY <2>2, <4>1, Smallest
    <3>2. ASSUME NEW d \in kids[c]
          PROVE  d \in Command /\ TextLength[d] < TextLength[c] /\ NoLonger(d)
      BY <3>1, CommandsAreWhole
    <3>3. c \in Command /\ g[c] = Gathered(kids, c, g)
      BY <2>1
    <3>4. ASSUME NEW e \in g[c]
          PROVE  e \in Command /\ TextLength[e] <= TextLength[c]
      <4>1. e = c \/ \E d \in kids[c] : e \in g[d]
        BY <3>3, <3>4 DEF Gathered
      <4>2. ASSUME NEW d \in kids[c], e \in g[d]
            PROVE  e \in Command /\ TextLength[e] <= TextLength[c]
        <5>1. /\ e \in Command /\ d \in Command /\ TextLength[e] <= TextLength[d]
              /\ TextLength[d] < TextLength[c]
          BY <3>2, <4>2
        <5>2. TextLength[e] \in Nat /\ TextLength[d] \in Nat /\ TextLength[c] \in Nat
          BY <3>3, <5>1, CommandsAreWhole
        <5> QED
          BY <5>1, <5>2
      <4>3. TextLength[c] \in Nat
        BY <3>3, CommandsAreWhole
      <4> QED
        BY <3>3, <4>1, <4>2, <4>3
    <3> QED
      BY <3>1, <3>4
  <2> QED
    BY <1>6, <2>2
<1> QED
  BY <1>5, <1>6

\* The commands within a command are itself and those within its parts.
LEMMA WithinIs ==
  /\ Within \in [Command -> SUBSET Command]
  /\ \A c \in Command : Within[c] = Below(c) /\ c \in Within[c]
<1> DEFINE kids == [c \in Command |-> Inside(c)]
<1>1. \A c, g : c \in Command => Gathered(kids, c, g) = {c} \cup UNION {g[d] : d \in Inside(c)}
  BY DEF Gathered
<1>2. \E f : f = [c \in Command |-> {c} \cup UNION {f[d] : d \in Inside(c)}]
  <2>1. PICK f : f = [c \in Command |-> Gathered(kids, c, f)]
    BY Gathering
  <2> HIDE DEF kids
  <2> QED
    BY <1>1, <2>1
<1>3. Within = [c \in Command |-> {c} \cup UNION {Within[d] : d \in Inside(c)}]
  BY <1>2 DEF Within
<1>4. Within = [c \in Command |-> Gathered(kids, c, Within)]
  BY <1>1, <1>3
<1>5. Within \in [Command -> SUBSET Command]
  BY <1>4, Gathering
<1>6. \A c \in Command : Within[c] = {c} \cup UNION {Within[d] : d \in Inside(c)}
  BY <1>3
<1> QED
  BY <1>5, <1>6 DEF Below

\* What the first words of a command lead to is that command at first, and
\* never has more text.
LEMMA LeadingFits ==
  ASSUME NEW c \in Command
  PROVE  c \in Leading[c] /\ \A d \in Leading[c] : d \in Command /\ TextLength[d] <= TextLength[c]
<1> DEFINE kids == [a \in Command |-> CASE a.kind = "prefix" -> {Launched(a)}
                                        [] a.kind = "flow"   -> {Head(a.body)}
                                        [] OTHER             -> {}]
           Body(a, g) == {a} \cup CASE a.kind = "prefix" -> g[Launched(a)]
                                    [] a.kind = "flow"   -> g[Head(a.body)]
                                    [] OTHER             -> {}
<1>1. \A a, g : a \in Command => Gathered(kids, a, g) = Body(a, g)
  <2> TAKE a, g
  <2> HAVE a \in Command
  <2>1. CASE a.kind = "prefix"
    BY <2>1 DEF Gathered
  <2>2. CASE a.kind = "flow"
    BY <2>2 DEF Gathered
  <2>3. CASE a.kind \notin {"prefix", "flow"}
    BY <2>3 DEF Gathered
  <2> QED
    BY <2>1, <2>2, <2>3
<1>2. \A a \in Command : kids[a] \subseteq Inside(a)
  <2> TAKE a \in Command
  <2>1. CASE a.kind = "prefix"
    BY <2>1 DEF Inside
  <2>2. CASE a.kind = "flow"
    <3>1. a.body \in Seq(Command) /\ a.body # <<>>
      BY <2>2, CommandsAreWhole
    <3>2. Head(a.body) = a.body[1] /\ 1 \in DOMAIN a.body
      BY <3>1
    <3>3. Inside(a) = {a.body[n] : n \in DOMAIN a.body}
      BY <2>2 DEF Inside, Range
    <3> QED
      BY <2>2, <3>2, <3>3
  <2>3. CASE a.kind \notin {"prefix", "flow"}
    BY <2>3
  <2> QED
    BY <2>1, <2>2, <2>3
<1>3. \E f : f = [a \in Command |-> Body(a, f)]
  <2>1. PICK f : f = [a \in Command |-> Gathered(kids, a, f)]
    <3> HIDE DEF kids
    <3> QED
      BY <1>2, Gathering
  <2> HIDE DEF kids, Body
  <2> QED
    BY <1>1, <2>1
<1>4. Leading = [a \in Command |-> Body(a, Leading)]
  BY <1>3 DEF Leading
<1>5. Leading = [a \in Command |-> Gathered(kids, a, Leading)]
  BY <1>1, <1>4
<1>6. /\ Leading \in [Command -> SUBSET Command]
      /\ \A a \in Command : \A d \in Leading[a] : TextLength[d] <= TextLength[a]
  <2> HIDE DEF kids
  <2> QED
    BY <1>2, <1>5, Gathering
<1>7. Leading[c] = Body(c, Leading)
  BY <1>4
<1> QED
  BY <1>6, <1>7

----------------------------------------------------------------------------
(* The rule that decides. *)

StoredRules == {i \in CommandRuleId : commandRules[i] # NoHook}

(* No two rules are made at the same time. *)
RulesInv ==
    /\ commandRules = [i \in CommandRuleId |-> commandRules[i]]
    /\ IsFiniteSet(StoredRules)
    /\ \A i \in StoredRules :
          commandRules[i] \in LocalCommandRule /\ commandRules[i].born < Cardinality(StoredRules)
    /\ \A i, j \in StoredRules : commandRules[i].born = commandRules[j].born => i = j

\* What the rules that may apply are.
LEMMA RulesFit ==
  ASSUME RulesInv, NEW role
  PROVE  /\ \A r \in Rules(role) :
               r # None /\ r.rule.mode \in Modes /\ r.rule.priority \in Nat /\ r.born \in Nat
         /\ \A r, other \in Rules(role) :
               /\ (r.source = "managed") = (other.source = "managed")
               /\ r.rule.priority = other.rule.priority
               /\ r.born = other.born
               => r = other
<1>1. ASSUME NEW r \in Rules(role)
      PROVE  \/ \E i \in DOMAIN ManagedCommandRules : r = ManagedCommandRules[i]
             \/ \E i \in StoredRules : r = commandRules[i]
  BY <1>1 DEF Rules, StoredRules
<1>2. ASSUME NEW i \in StoredRules
      PROVE  LET r == commandRules[i] IN
             /\ r # None /\ r.source = "local" /\ r.rule.mode \in Modes /\ r.rule.priority \in Nat /\ r.born \in Nat
  <2>1. commandRules[i] \in LocalCommandRule
    BY <1>2 DEF RulesInv
  <2> QED
    BY <2>1, CommandRulesAreRanked DEF LocalCommandRule, CommandRuleFields
<1>3. ASSUME NEW r \in Rules(role)
      PROVE  r # None /\ r.rule.mode \in Modes /\ r.rule.priority \in Nat /\ r.born \in Nat
  BY <1>1, <1>2, CommandRulesAreRanked
<1>4. ASSUME NEW r \in Rules(role), NEW other \in Rules(role),
             (r.source = "managed") = (other.source = "managed"),
             r.rule.priority = other.rule.priority, r.born = other.born
      PROVE  r = other
  <2>1. CASE r.source = "managed"
    <3>1. PICK i \in DOMAIN ManagedCommandRules : r = ManagedCommandRules[i]
      BY <1>1, <1>2, <2>1
    <3>2. PICK j \in DOMAIN ManagedCommandRules : other = ManagedCommandRules[j]
      BY <1>1, <1>2, <1>4, <2>1
    <3> QED
      BY <1>4, <3>1, <3>2, CommandRulesAreRanked
  <2>2. CASE r.source # "managed"
    <3>1. PICK i \in StoredRules : r = commandRules[i]
      BY <1>1, <2>2, CommandRulesAreRanked
    <3>2. PICK j \in StoredRules : other = commandRules[j]
      BY <1>1, <1>4, <2>2, CommandRulesAreRanked
    <3> QED
      BY <1>4, <3>1, <3>2 DEF RulesInv
  <2> QED
    BY <2>1, <2>2
<1> QED
  BY <1>3, <1>4

\* Among rules of one rank, one comes first.
LEMMA FirstOfRank ==
  ASSUME RulesInv, NEW role, NEW T \in SUBSET Rules(role), T # {},
         \A r, other \in T : (r.source = "managed") = (other.source = "managed")
  PROVE  \E r \in T : \A other \in T \ {r} : Ranks(r, other)
<1>1. \A r \in T : r.rule.mode \in Modes /\ r.rule.priority \in Nat /\ r.born \in Nat
  BY RulesFit
<1> DEFINE P == {r.rule.priority : r \in T}
<1>2. PICK least \in P : \A y \in P : least <= y
  <2>1. P \in SUBSET Nat /\ P # {}
    BY <1>1
  <2> HIDE DEF P
  <2> QED
    BY <2>1, Least
<1> DEFINE L == {r \in T : r.rule.priority = least}
           B == {r.born : r \in L}
<1>3. PICK first \in B : \A y \in B : first <= y
  <2>1. B \in SUBSET Nat /\ B # {}
    BY <1>1, <1>2
  <2> HIDE DEF B
  <2> QED
    BY <2>1, Least
<1>4. PICK r \in L : r.born = first
  BY <1>3
<1>5. ASSUME NEW other \in T \ {r}
      PROVE  Ranks(r, other)
  <2>1. /\ r.rule.priority \in Nat /\ r.born \in Nat
        /\ other.rule.priority \in Nat /\ other.born \in Nat
    BY <1>1, <1>4, <1>5
  <2>2. r.rule.priority <= other.rule.priority
    BY <1>2, <1>4, <1>5
  <2>3. r.rule.priority = other.rule.priority => r.born <= other.born
    BY <1>2, <1>3, <1>4, <1>5
  <2>4. (r.source = "managed") = (other.source = "managed")
    BY <1>4, <1>5
  <2>5. r.rule.priority # other.rule.priority \/ r.born # other.born
    <3>1. r \in Rules(role) /\ other \in Rules(role) /\ r # other
      BY <1>4, <1>5
    <3> QED
      BY <2>4, <3>1, RulesFit
  <2> QED
    BY <2>1, <2>2, <2>3, <2>4, <2>5 DEF Ranks
<1> QED
  BY <1>4, <1>5

\* Among any rules, one comes first: managed rules come before the others.
LEMMA FirstOfRules ==
  ASSUME RulesInv, NEW role, NEW T \in SUBSET Rules(role), T # {}
  PROVE  \E r \in T : \A other \in T \ {r} : Ranks(r, other)
<1> DEFINE M == {r \in T : r.source = "managed"}
<1>1. CASE M # {}
  <2>1. M \in SUBSET Rules(role) /\ \A r, other \in M : (r.source = "managed") = (other.source = "managed")
    OBVIOUS
  <2>2. PICK r \in M : \A other \in M \ {r} : Ranks(r, other)
    <3> HIDE DEF M
    <3> QED
      BY <1>1, <2>1, FirstOfRank
  <2>3. ASSUME NEW other \in T \ M
        PROVE  Ranks(r, other)
    BY <2>2, <2>3 DEF Ranks
  <2> QED
    BY <2>2, <2>3
<1>2. CASE M = {}
  <2>1. \A r, other \in T : (r.source = "managed") = (other.source = "managed")
    BY <1>2
  <2> HIDE DEF M
  <2> QED
    BY <2>1, FirstOfRank
<1> QED
  BY <1>1, <1>2

\* What the policy may say.
Whys == {"none", "rule", "payload", "scan", "structural", "unlisted", "token", "read only", "state",
         "startup", "opaque shell", "part", "compound", "executable", "argument"}

Decisions(role) == [mode : Modes, why : Whys, rule : {None} \cup Rules(role)]

\* The rule that decides is one of those that match.
LEMMA ConfiguredFits ==
  ASSUME RulesInv, NEW role, NEW c
  PROVE  /\ Configured(c, role) = NoRule \/ Configured(c, role) \in Decisions(role)
         /\ \/ Configured(c, role) = NoRule
            \/ Configured(c, role).why = "rule" /\ Configured(c, role).rule # None
<1> DEFINE matching == {r \in Rules(role) : RuleMatches(r.rule, c)}
           Before(r) == \A other \in matching \ {r} : Ranks(r, other)
           first == CHOOSE r \in matching : Before(r)
<1>1. CASE matching = {}
  BY <1>1 DEF Configured
<1>2. CASE matching # {}
  <2>1. \E r \in matching : Before(r)
    <3>1. matching \in SUBSET Rules(role)
      OBVIOUS
    <3> HIDE DEF matching
    <3> QED
      BY <1>2, <3>1, FirstOfRules
  <2>2. first \in matching
    <3> HIDE DEF matching, Before
    <3> QED
      BY <2>1
  <2>3. Configured(c, role) = [mode |-> first.rule.mode, why |-> "rule", rule |-> first]
    BY <1>2 DEF Configured
  <2>4. first \in Rules(role) /\ first.rule.mode \in Modes /\ first # None
    BY <2>2, RulesFit
  <2> HIDE DEF first
  <2> QED
    BY <2>3, <2>4 DEF Decisions, Whys
<1> QED
  BY <1>1, <1>2

----------------------------------------------------------------------------
(* What the policy says before any rule. *)

\* What it says of the commands that stand inside others.
Verdicts(role) == CHOOSE default : default = [c \in Command |-> DefaultGiven(c, role, default)]

\* What is said of a script looks at what is said of its parts, and of what
\* is launched in it.
Consulted(script) == Parts(script) \cup {Launched(c) : c \in {d \in Commands(script) : d.kind = "launch"}}

LEMMA PayloadFits ==
  ASSUME NEW role, NEW g \in [Command -> Decisions(role)], NEW c \in Command
  PROVE  Payload(c, g) \in Decisions(role)
BY DEF Payload, Says, Decisions, Whys, Modes

LEMMA ScanFits ==
  ASSUME NEW role, NEW g, NEW script
  PROVE  Scan(script, g) \in Decisions(role)
<1>1. /\ Says("blocked", "scan") \in Decisions(role) /\ Says("approval", "payload") \in Decisions(role)
      /\ Says("approval", "structural") \in Decisions(role) /\ Says("approval", "unlisted") \in Decisions(role)
      /\ Says("approval", "token") \in Decisions(role) /\ Says("safe", "read only") \in Decisions(role)
  BY DEF Says, Decisions, Whys, Modes
<1> QED
  BY <1>1 DEF Scan

\* What is said of a script is one of the things a policy may say.
LEMMA InnerFits ==
  ASSUME RulesInv, NEW role, NEW g \in [Command -> Decisions(role)], NEW script, Parts(script) \subseteq Command
  PROVE  Inner(script, role, g) \in Decisions(role)
<1> DEFINE scan == Scan(script, g)
           asked == {Asks(c, script, scan, role, g) : c \in Parts(script)} \ {NoRule}
           approvals == {a \in asked : a.mode = "approval"}
           leave == {a \in asked : a.mode = "safe"}
<1>1. scan \in Decisions(role)
  BY ScanFits
<1>2. asked \subseteq Decisions(role)
  <2>1. ASSUME NEW c \in Parts(script)
        PROVE  Asks(c, script, scan, role, g) = NoRule \/ Asks(c, script, scan, role, g) \in Decisions(role)
    <3>1. g[c] \in Decisions(role)
      BY <2>1
    <3> QED
      BY <3>1, ConfiguredFits DEF Asks, Asked
  <2> QED
    BY <2>1
<1>3. approvals \subseteq Decisions(role) /\ leave \subseteq Decisions(role)
  BY <1>2
<1>4. /\ Says("approval", "state") \in Decisions(role) /\ Says("blocked", "startup") \in Decisions(role)
      /\ Says("approval", "opaque shell") \in Decisions(role) /\ Says("blocked", "part") \in Decisions(role)
      /\ Says("approval", "compound") \in Decisions(role) /\ Says("safe", "read only") \in Decisions(role)
  BY DEF Says, Decisions, Whys, Modes
<1>5. /\ leave # {} => (CHOOSE a \in leave : TRUE) \in Decisions(role)
      /\ approvals # {} => (CHOOSE a \in approvals : TRUE) \in Decisions(role)
  <2> HIDE DEF leave, approvals
  <2> QED
    BY <1>3
<1>6. Inner(script, role, g) = Judged(script, role, scan, approvals, leave, g)
  BY DEF Inner, Scanned, Weighed
<1> HIDE DEF scan, approvals, leave
<1> QED
  BY <1>1, <1>4, <1>5, <1>6 DEF Judged

LEMMA DefaultGivenFits ==
  ASSUME RulesInv, NEW role, NEW g \in [Command -> Decisions(role)],
         NEW c, c.kind = "shell" /\ ~Opaque(c) => Parts(c.script) \subseteq Command
  PROVE  DefaultGiven(c, role, g) \in Decisions(role)
<1>1. /\ Says("approval", "state") \in Decisions(role) /\ Says("approval", "opaque shell") \in Decisions(role)
      /\ Says("approval", "unlisted") \in Decisions(role) /\ Says("blocked", "executable") \in Decisions(role)
      /\ Says("blocked", "argument") \in Decisions(role) /\ Says("safe", "read only") \in Decisions(role)
  BY DEF Says, Decisions, Whys, Modes
<1>2. c.kind = "shell" /\ ~Opaque(c) => Inner(c.script, role, g) \in Decisions(role)
  BY InnerFits
<1> QED
  BY <1>1, <1>2 DEF DefaultGiven

\* Where two verdicts agree on what a script consults, they agree on it.
LEMMA InnerLooks ==
  ASSUME NEW role, NEW g, NEW h, NEW script, \A c \in Consulted(script) : g[c] = h[c]
  PROVE  Inner(script, role, g) = Inner(script, role, h)
<1>1. \A c \in Parts(script) : g[c] = h[c]
  BY DEF Consulted
<1>2. \A c \in {d \in Commands(script) : d.kind = "launch"} :
         Payload(Launched(c), g).mode = Payload(Launched(c), h).mode
  BY DEF Consulted, Payload
<1>3. {Payload(Launched(c), g).mode : c \in {d \in Commands(script) : d.kind = "launch"}}
        = {Payload(Launched(c), h).mode : c \in {d \in Commands(script) : d.kind = "launch"}}
  BY <1>2
<1>4. Scan(script, g) = Scan(script, h)
  BY <1>3 DEF Scan
<1> DEFINE scan == Scan(script, g)
<1>5. \A c \in Parts(script) : Asks(c, script, scan, role, g) = Asks(c, script, scan, role, h)
  BY <1>1 DEF Asks
<1>6. {Asks(c, script, scan, role, g) : c \in Parts(script)} = {Asks(c, script, scan, role, h) : c \in Parts(script)}
  BY <1>5
<1> HIDE DEF scan
<1>7. ASSUME NEW a, NEW b
      PROVE  Judged(script, role, scan, a, b, g) = Judged(script, role, scan, a, b, h)
  <2> DEFINE Bad(k) == \E c \in Parts(script) :
                          k[c].mode = "blocked" \/ Configured(c, role).mode = "blocked"
  <2>1. Bad(g) <=> Bad(h)
    BY <1>1
  <2>2. \A k : Judged(script, role, scan, a, b, k) =
          IF MentionsState(InScript(script)) THEN Says("approval", "state")
          ELSE IF scan.mode = "blocked" THEN scan
          ELSE IF Unhardened(script) THEN Says("blocked", "startup")
          ELSE IF script.segments = <<>> THEN Says("approval", "opaque shell")
          ELSE IF Bad(k) THEN Says("blocked", "part")
          ELSE IF b # {} /\ Plain(script) /\ ~Structural(script) THEN CHOOSE x \in b : TRUE
          ELSE IF scan.mode = "safe" /\ Plain(script) /\ \A x \in a : x.rule = None THEN scan
          ELSE IF scan.mode = "approval" THEN scan
          ELSE IF a # {} THEN CHOOSE x \in a : TRUE
          ELSE IF ~Plain(script) THEN Says("approval", "compound")
          ELSE Says("safe", "read only")
    BY DEF Judged
  <2> HIDE DEF Bad
  <2> QED
    BY <2>1, <2>2, Zenon
<1>8. Scanned(script, role, scan, g) = Scanned(script, role, scan, h)
  BY <1>6, <1>7 DEF Scanned, Weighed
<1> QED
  BY <1>4, <1>8 DEF Inner, scan

\* What a shell consults has less text than the shell.
LEMMA ConsultedFits ==
  ASSUME NEW c \in Command, c.kind = "shell", ~Opaque(c), NEW d \in Consulted(c.script)
  PROVE  d \in Command /\ TextLength[d] < TextLength[c]
<1>1. ASSUME NEW p \in Parts(c.script)
      PROVE  p \in Command /\ TextLength[p] < TextLength[c]
  BY <1>1, CommandsAreWhole DEF Inside
<1>2. CASE d \in Parts(c.script)
  BY <1>1, <1>2
<1>3. CASE d \notin Parts(c.script)
  <2>1. PICK e \in Commands(c.script) : e.kind = "launch" /\ d = Launched(e)
    BY <1>3 DEF Consulted
  <2>2. PICK p \in Parts(c.script) : e \in Leading[p]
    <3>1. c.script.segments \in Seq(Command) /\ c.script.segments # <<>> /\ e \in Leading[Head(c.script.segments)]
      BY <2>1, CommandsAreWhole DEF Commands
    <3>2. Head(c.script.segments) = c.script.segments[1] /\ 1 \in DOMAIN c.script.segments
      BY <3>1
    <3>3. Head(c.script.segments) \in Parts(c.script)
      BY <3>2 DEF Parts, Segments, Range
    <3> QED
      BY <3>1, <3>3
  <2>3. e \in Command /\ TextLength[e] <= TextLength[p] /\ TextLength[p] < TextLength[c]
    BY <1>1, <2>2, LeadingFits
  <2>4. d \in Inside(e)
    BY <2>1 DEF Inside
  <2>5. d \in Command /\ TextLength[d] < TextLength[e]
    BY <2>3, <2>4, CommandsAreWhole
  <2>6. /\ TextLength[d] \in Nat /\ TextLength[e] \in Nat /\ TextLength[p] \in Nat /\ TextLength[c] \in Nat
    BY <1>1, <2>2, <2>3, <2>5, CommandsAreWhole
  <2> QED
    BY <2>3, <2>5, <2>6
<1> QED
  BY <1>2, <1>3

\* The recursion over nested commands ends: every command has its verdict.
LEMMA VerdictsFit ==
  ASSUME RulesInv, NEW role
  PROVE  \A c \in Command : /\ Verdicts(role)[c] = DefaultGiven(c, role, Verdicts(role))
                            /\ Verdicts(role)[c] \in Decisions(role)
<1> DEFINE V == Decisions(role)
           step == [c \in Command |-> [g \in [Command -> V] |-> DefaultGiven(c, role, g)]]
<1>1. \A c \in Command : c.kind = "shell" /\ ~Opaque(c) => Parts(c.script) \subseteq Command
  BY CommandsAreWhole DEF Inside
<1>2. step \in [Command -> [[Command -> V] -> V]]
  <2>1. ASSUME NEW c \in Command, NEW g \in [Command -> V]
        PROVE  DefaultGiven(c, role, g) \in V
    BY <1>1, DefaultGivenFits
  <2> HIDE DEF V
  <2> QED
    BY <2>1
<1>3. ASSUME NEW c \in Command, NEW g \in [Command -> V], NEW h \in [Command -> V],
             \A d \in Command : TextLength[d] < TextLength[c] => g[d] = h[d]
      PROVE  DefaultGiven(c, role, g) = DefaultGiven(c, role, h)
  <2>1. CASE c.kind = "shell" /\ ~Opaque(c)
    <3>1. \A d \in Consulted(c.script) : g[d] = h[d]
      BY <1>3, <2>1, ConsultedFits
    <3>2. Inner(c.script, role, g) = Inner(c.script, role, h)
      BY <3>1, InnerLooks
    <3> QED
      BY <2>1, <3>2 DEF DefaultGiven
  <2>2. CASE ~(c.kind = "shell" /\ ~Opaque(c))
    BY <2>2 DEF DefaultGiven
  <2> QED
    BY <2>1, <2>2
<1>4. Recursive(Command, V, TextLength, step)
  <2> HIDE DEF V
  <2> QED
    BY <1>2, <1>3, CommandsAreWhole DEF Recursive
<1>5. PICK f \in [Command -> V] : \A c \in Command : f[c] = step[c][f]
  <2>1. Says("safe", "none") \in V
    BY DEF Says, Decisions, Whys, Modes
  <2> HIDE DEF V, step
  <2> QED
    BY <1>4, <2>1, Recursion
<1>6. f = [c \in Command |-> DefaultGiven(c, role, f)]
  BY <1>5
<1> DEFINE vs == Verdicts(role)
<1>7. vs = [c \in Command |-> DefaultGiven(c, role, vs)]
  BY <1>6 DEF Verdicts
<1> HIDE DEF vs, V
<1>8. \A c \in Command : vs[c] = DefaultGiven(c, role, vs)
  BY <1>7
<1>9. vs = f
  <2> DEFINE Bad == {c \in Command : vs[c] # f[c]}
  <2>1. ASSUME Bad # {} PROVE FALSE
    <3>1. PICK c \in Bad : \A d \in Bad : TextLength[c] <= TextLength[d]
      <4>1. \A c \in Bad : TextLength[c] \in Nat
        BY CommandsAreWhole
      <4> HIDE DEF Bad
      <4> QED
        BY <2>1, <4>1, Smallest
    <3>2. \A d \in Command : TextLength[d] < TextLength[c] => vs[d] = f[d]
      <4> TAKE d \in Command
      <4>1. TextLength[c] \in Nat /\ TextLength[d] \in Nat
        BY CommandsAreWhole
      <4> QED
        BY <3>1, <4>1
    <3>3. DefaultGiven(c, role, vs) = DefaultGiven(c, role, f)
      <4>1. CASE c.kind = "shell" /\ ~Opaque(c)
        <5>1. \A d \in Consulted(c.script) : vs[d] = f[d]
          BY <3>2, <4>1, ConsultedFits
        <5>2. Inner(c.script, role, vs) = Inner(c.script, role, f)
          BY <5>1, InnerLooks
        <5> QED
          BY <4>1, <5>2 DEF DefaultGiven
      <4>2. CASE ~(c.kind = "shell" /\ ~Opaque(c))
        BY <4>2 DEF DefaultGiven
      <4> QED
        BY <4>1, <4>2
    <3> QED
      BY <1>6, <1>8, <3>1, <3>3
  <2>2. \A c \in Command : vs[c] = f[c]
    BY <2>1
  <2> QED
    BY <1>7, <1>6, <2>2
<1> QED
  BY <1>5, <1>8, <1>9 DEF vs, V

\* So that what is said of a nested command is what is said of it alone.
LEMMA DefaultIs ==
  ASSUME RulesInv, NEW role, NEW c
  PROVE  /\ Default(c, role) = DefaultGiven(c, role, Verdicts(role))
         /\ c \in Command => Default(c, role) = Verdicts(role)[c]
<1>1. Default(c, role) = DefaultGiven(c, role, Verdicts(role))
  BY DEF Default, Verdicts
<1> QED
  BY <1>1, VerdictsFit

----------------------------------------------------------------------------
(* A script and its parts. *)

\* What a script is made of: commands, at least one of them not substituted.
IsScript(script) ==
    /\ script.segments \in Seq(Command) /\ script.segments # <<>>
    /\ script.subs \subseteq Command

LEMMA PartsFit ==
  ASSUME NEW script, IsScript(script), NEW c \in Parts(script)
  PROVE  /\ c \in Command
         /\ Below(c) \subseteq InScript(script)
         /\ Plain(script) => Parts(script) = {c} /\ c \in Commands(script)
<1>1. Parts(script) = {script.segments[n] : n \in 1..Len(script.segments)} \cup script.subs
  BY DEF Parts, Segments, Substituted, Range, IsScript
<1>2. c \in Command
  BY <1>1 DEF IsScript
<1>3. Below(c) \subseteq InScript(script)
  BY <1>2, WithinIs DEF InScript
<1>4. ASSUME Plain(script)
      PROVE  Parts(script) = {c} /\ c \in Commands(script)
  <2>1. Parts(script) = {c}
    BY <1>1, <1>4 DEF Plain
  <2>2. Head(script.segments) = c /\ script.segments # <<>>
    <3>1. script.segments \in Seq(Command) /\ Len(script.segments) = 1 /\ script.segments # <<>>
      BY <1>4 DEF IsScript, Plain
    <3>2. Head(script.segments) = script.segments[1] /\ 1 \in 1..Len(script.segments)
      BY <3>1
    <3> QED
      BY <1>1, <2>1, <3>1, <3>2
  <2> QED
    BY <1>2, <2>1, <2>2, LeadingFits DEF Commands
<1> QED
  BY <1>2, <1>3, <1>4

\* Where a script as a whole is safe, only commands that read stand in it.
LEMMA ScanIsSafe ==
  ASSUME NEW script, NEW g, Scan(script, g).mode = "safe", NEW c \in Commands(script), c \in Command
  PROVE  Simple(c, ReadOnlyCommands)
<1>1. /\ ~\E d \in Commands(script) : d.kind = "shell" \/ (d.kind = "simple" /\ d.exe \notin ReadOnlyCommands)
      /\ ~\E d \in Commands(script) : ApprovalToken(d)
  <2>1. \A why : Says("blocked", why).mode # "safe" /\ Says("approval", why).mode # "safe"
    BY DEF Says
  <2> DEFINE unlisted == \E d \in Commands(script) : d.kind = "shell" \/ (d.kind = "simple" /\ d.exe \notin ReadOnlyCommands)
             token == \E d \in Commands(script) : ApprovalToken(d)
  <2>2. unlisted \/ token => \E why : Scan(script, g) = Says("blocked", why) \/ Scan(script, g) = Says("approval", why)
    BY DEF Scan
  <2> QED
    BY <2>1, <2>2
<1>2. c.kind \in {"simple", "shell", "prefix", "flow", "launch", "source"}
  BY CommandsAreWhole
<1> QED
  BY <1>1, <1>2 DEF ApprovalToken, Simple

\* What the policy says of a command, before any rule, where the state files
\* are not mentioned.
LEMMA DefaultWithoutState ==
  ASSUME RulesInv, NEW role, NEW c \in Command, ~MentionsState(Below(c))
  PROVE  LET d == Verdicts(role)[c] IN
         /\ c.kind # "shell" => d.why # "state"
         /\ Strict(c) => d.mode # "safe"
         /\ Simple(c, ReadOnlyCommands) => d.mode \in {"safe", "blocked"}
<1>1. Verdicts(role)[c] = DefaultGiven(c, role, Verdicts(role))
  BY VerdictsFit
<1> DEFINE d == Verdicts(role)[c]
           given == DefaultGiven(c, role, Verdicts(role))
<1>2. CASE c.kind = "shell"
  BY <1>2 DEF Strict, Simple
<1>3. CASE c.kind \notin {"simple", "shell"}
  <2>1. given = Says("approval", "unlisted")
    BY <1>3 DEF DefaultGiven
  <2> QED
    BY <1>1, <1>3, <2>1 DEF Strict, Simple, Says
<1>4. CASE c.kind = "simple"
  <2>1. ~TouchesState(c)
    BY DEF MentionsState, Below
  <2>2. given = IF OutsideExecutable(c) \/ Banned(c) THEN Says("blocked", "executable")
                ELSE IF OutsideArgument(c) THEN Says("blocked", "argument")
                ELSE IF c.exe \in ReadOnlyCommands THEN Says("safe", "read only")
                ELSE Says("approval", "unlisted")
    BY <1>4, <2>1 DEF DefaultGiven
  <2>3. /\ given.why # "state"
        /\ c.exe \in {"git", "gh"} => given.mode # "safe"
        /\ c.exe \in ReadOnlyCommands => given.mode \in {"safe", "blocked"}
    <3> HIDE DEF given
    <3> QED
      BY <2>2 DEF ReadOnlyCommands, Says
  <2> QED
    BY <1>1, <1>4, <2>3 DEF Strict, Simple
<1> QED
  BY <1>2, <1>3, <1>4

\* Where a part is blocked, the script is.
LEMMA BlockedPart ==
  ASSUME RulesInv, NEW role, NEW script, IsScript(script), ~MentionsState(InScript(script)),
         NEW c \in Parts(script),
         Verdicts(role)[c].mode = "blocked" \/ Configured(c, role).mode = "blocked"
  PROVE  Inner(script, role, Verdicts(role)).mode = "blocked"
<1> DEFINE g == Verdicts(role)
           scan == Scan(script, g)
<1>1. \E d \in Parts(script) : g[d].mode = "blocked" \/ Configured(d, role).mode = "blocked"
  OBVIOUS
<1>2. script.segments # <<>>
  BY DEF IsScript
<1>3. Says("blocked", "startup").mode = "blocked" /\ Says("blocked", "part").mode = "blocked"
  BY DEF Says
<1> HIDE DEF g, scan
<1>4. ASSUME NEW a, NEW b
      PROVE  Judged(script, role, scan, a, b, g).mode = "blocked"
  BY <1>1, <1>2, <1>3 DEF Judged
<1>5. Inner(script, role, g).mode = "blocked"
  BY <1>4 DEF Inner, Scanned, Weighed, scan
<1> QED
  BY <1>5 DEF g

\* A script is only safe where one rule vouches for all of it, or where it
\* reads, and no rule asks for an approval.
LEMMA SafeScript ==
  ASSUME RulesInv, NEW role, NEW script, IsScript(script), ~MentionsState(InScript(script)),
         Inner(script, role, Verdicts(role)).mode = "safe"
  PROVE  LET g == Verdicts(role)
             scan == Scan(script, g)
         IN  /\ Plain(script)
             /\ \/ \E c \in Parts(script) : Asks(c, script, scan, role, g).mode = "safe"
                                         /\ Asks(c, script, scan, role, g) # NoRule
                \/ /\ scan.mode = "safe"
                   /\ \A c \in Parts(script) :
                         /\ Asks(c, script, scan, role, g).mode = "approval"
                         /\ Asks(c, script, scan, role, g) # NoRule
                         => Asks(c, script, scan, role, g).rule = None
<1> DEFINE g == Verdicts(role)
           scan == Scan(script, g)
           asks(c) == Asks(c, script, scan, role, g)
           asked == {asks(c) : c \in Parts(script)} \ {NoRule}
           approvals == {a \in asked : a.mode = "approval"}
           leave == {a \in asked : a.mode = "safe"}
<1>1. Inner(script, role, g) = Judged(script, role, scan, approvals, leave, g)
  BY DEF Inner, Scanned, Weighed
<1>2. approvals # {} => (CHOOSE a \in approvals : TRUE).mode = "approval"
  <2>1. \A a \in approvals : a.mode = "approval"
    OBVIOUS
  <2> HIDE DEF approvals
  <2> QED
    BY <2>1
<1>3. \A why : Says("blocked", why).mode = "blocked" /\ Says("approval", why).mode = "approval"
  BY DEF Says
<1>4. scan.mode \in {"safe", "approval", "blocked"}
  BY ScanFits DEF Decisions, Modes
<1>5. Judged(script, role, scan, approvals, leave, g).mode = "safe"
  BY <1>1
<1>6. /\ Plain(script)
      /\ leave # {} \/ (scan.mode = "safe" /\ \A a \in approvals : a.rule = None)
  <2> HIDE DEF leave, approvals, scan, g
  <2> QED
    BY <1>2, <1>3, <1>4, <1>5 DEF Judged
<1>7. leave # {} => \E c \in Parts(script) : asks(c).mode = "safe" /\ asks(c) # NoRule
  <2> HIDE DEF asks
  <2> QED
    OBVIOUS
<1>8. (\A a \in approvals : a.rule = None) =>
          \A c \in Parts(script) : asks(c).mode = "approval" /\ asks(c) # NoRule => asks(c).rule = None
  <2> HIDE DEF asks
  <2> QED
    OBVIOUS
<1> QED
  BY <1>6, <1>7, <1>8

\* Where a part needs an approval that no rule vouches for, the script does.
LEMMA ApprovalPart ==
  ASSUME RulesInv, NEW role, NEW script, IsScript(script), ~MentionsState(InScript(script)),
         NEW c \in Parts(script),
         Classified(c, role).mode = "approval", ~Vouched(c, role)
  PROVE  Inner(script, role, Verdicts(role)).mode # "safe"
<1> DEFINE g == Verdicts(role)
           scan == Scan(script, g)
           d == g[c]
           r == Configured(c, role)
<1> SUFFICES ASSUME Inner(script, role, g).mode = "safe" PROVE FALSE
  OBVIOUS
<1>1. /\ c \in Command /\ ~MentionsState(Below(c))
      /\ Plain(script) => Parts(script) = {c} /\ c \in Commands(script)
  BY PartsFit DEF MentionsState
<1>2. Classified(c, role) = Settled(c, d, r)
  BY <1>1, DefaultIs DEF Classified
<1>3. /\ c.kind # "shell" => d.why # "state"
      /\ Strict(c) => d.mode # "safe"
      /\ Simple(c, ReadOnlyCommands) => d.mode \in {"safe", "blocked"}
  BY <1>1, DefaultWithoutState
<1>4. d.mode # "blocked" /\ r.mode # "blocked"
  BY BlockedPart
<1>5. /\ d \in Decisions(role)
      /\ r = NoRule \/ (r \in Decisions(role) /\ r.why = "rule" /\ r.rule # None)
  <2>1. d \in Decisions(role)
    BY <1>1, VerdictsFit
  <2>2. (r = NoRule \/ r \in Decisions(role)) /\ (r = NoRule \/ (r.why = "rule" /\ r.rule # None))
    BY ConfiguredFits
  <2> QED
    BY <2>1, <2>2
<1>6. NoRule.mode = "none"
  BY DEF NoRule, Says
<1>7. d.mode \in {"safe", "approval"} /\ r.mode \in {"none", "safe", "approval"}
  BY <1>4, <1>5, <1>6 DEF Decisions, Modes
<1>8. Asks(c, script, scan, role, g) = Asked(c, script, scan, d, r)
  BY DEF Asks
<1>9. CASE /\ Plain(script)
           /\ \E p \in Parts(script) : Asks(p, script, scan, role, g).mode = "safe"
                                       /\ Asks(p, script, scan, role, g) # NoRule
  <2>1. Parts(script) = {c}
    BY <1>1, <1>9
  <2>2. Asked(c, script, scan, d, r).mode = "safe" /\ Asked(c, script, scan, d, r) # NoRule
    BY <1>8, <1>9, <2>1
  <2> HIDE DEF g, scan, d, r
  <2>3. ~(r # NoRule /\ Strict(c)) /\ r.mode = "safe"
    BY <1>3, <1>6, <1>7, <2>2 DEF Asked
  <2>4. Settled(c, d, r).mode = "approval"
    BY <1>2
  <2>5. ~(c.kind = "shell" /\ r.mode = "safe")
    BY DEF Vouched, r
  <2>6. Settled(c, d, r) = r
    BY <1>3, <1>4, <1>6, <2>3, <2>5 DEF Settled
  <2> QED
    BY <2>3, <2>4, <2>6
<1>10. CASE /\ Plain(script) /\ scan.mode = "safe"
            /\ \A p \in Parts(script) :
                  /\ Asks(p, script, scan, role, g).mode = "approval"
                  /\ Asks(p, script, scan, role, g) # NoRule
                  => Asks(p, script, scan, role, g).rule = None
  <2>1. Simple(c, ReadOnlyCommands)
    BY <1>1, <1>10, ScanIsSafe
  <2>2. d.mode = "safe" /\ ~Strict(c) /\ c.kind # "shell"
    BY <1>3, <1>7, <2>1 DEF Simple, Strict, ReadOnlyCommands
  <2>3. Asked(c, script, scan, d, r).mode = "approval" /\ Asked(c, script, scan, d, r) # NoRule
            => Asked(c, script, scan, d, r).rule = None
    BY <1>8, <1>10
  <2> HIDE DEF g, scan, d, r
  <2>4. r.mode # "approval"
    BY <1>5, <1>6, <2>2, <2>3 DEF Asked
  <2>5. Settled(c, d, r).mode = "approval"
    BY <1>2
  <2>6. Settled(c, d, r) \in {d, r}
    BY DEF Settled
  <2> QED
    BY <2>2, <2>4, <2>5, <2>6
<1> QED
  BY <1>9, <1>10, SafeScript

\* A script is decided at least as strictly as its parts.
LEMMA WrappingKeeps ==
  ASSUME RulesInv, NEW role, NEW script, IsScript(script), script # None, ~MentionsState(InScript(script)),
         NEW c \in Parts(script)
  PROVE  LET whole == Classified([kind |-> "shell", family |-> "bash", hardened |-> TRUE,
                                  script |-> script], role).mode
             alone == Classified(c, role).mode
         IN  /\ whole \in Modes
             /\ \/ Strength(whole) >= Strength(alone)
                \/ alone = "approval" /\ Vouched(c, role)
<1> DEFINE shell == [kind |-> "shell", family |-> "bash", hardened |-> TRUE, script |-> script]
           g == Verdicts(role)
           w == Inner(script, role, g)
           d == g[c]
           r == Configured(c, role)
           o == Configured(shell, role)
<1>1. c \in Command /\ Parts(script) \subseteq Command
  BY PartsFit
<1>2. Default(shell, role) = w
  <2>1. shell.kind = "shell" /\ shell.script = script
    OBVIOUS
  <2> HIDE DEF shell, g
  <2>2. DefaultGiven(shell, role, g) = Inner(shell.script, role, g)
    BY <2>1 DEF DefaultGiven, Opaque
  <2> QED
    BY <2>1, <2>2, DefaultIs DEF g
<1>3. Classified(shell, role) = Settled(shell, w, o) /\ Classified(c, role) = Settled(c, d, r)
  BY <1>1, <1>2, DefaultIs DEF Classified
<1>4. w \in Decisions(role) /\ d \in Decisions(role)
  <2>1. d \in Decisions(role)
    BY <1>1, VerdictsFit
  <2>2. \E h \in [Command -> Decisions(role)] : \A a \in Command : h[a] = g[a]
    <3>1. [a \in Command |-> g[a]] \in [Command -> Decisions(role)]
      BY VerdictsFit
    <3> QED
      BY <3>1
  <2>3. PICK h \in [Command -> Decisions(role)] : \A a \in Command : h[a] = g[a]
    BY <2>2
  <2>4. Consulted(script) \subseteq Command
    <3>1. ASSUME NEW a \in Commands(script), a.kind = "launch"
          PROVE  Launched(a) \in Command
      <4>1. a \in Command
        <5>1. /\ script.segments \in Seq(Command) /\ script.segments # <<>>
              /\ a \in Leading[Head(script.segments)]
          BY <3>1 DEF IsScript, Commands
        <5>2. Head(script.segments) \in Command
          BY <5>1
        <5> QED
          BY <5>1, <5>2, LeadingFits
      <4>2. Launched(a) \in Inside(a)
        BY <3>1 DEF Inside
      <4> QED
        BY <4>1, <4>2, CommandsAreWhole
    <3> QED
      BY <1>1, <3>1 DEF Consulted
  <2>5. Inner(script, role, g) = Inner(script, role, h)
    BY <2>3, <2>4, InnerLooks
  <2>6. Inner(script, role, h) \in Decisions(role)
    BY <1>1, InnerFits
  <2> QED
    BY <2>1, <2>5, <2>6
<1>5. /\ r = NoRule \/ r \in Decisions(role)
      /\ o = NoRule \/ o \in Decisions(role)
  BY ConfiguredFits
<1>6. /\ d.mode = "blocked" \/ r.mode = "blocked" => w.mode = "blocked"
      /\ Settled(c, d, r).mode = "approval" /\ ~Vouched(c, role) => w.mode # "safe"
  BY <1>3, BlockedPart, ApprovalPart
<1>7. /\ w.mode \in Modes /\ d.mode \in Modes
      /\ r = NoRule \/ r.mode \in Modes
      /\ o = NoRule \/ o.mode \in Modes
  BY <1>4, <1>5 DEF Decisions
<1>8. shell.kind = "shell" /\ ~Strict(shell)
  BY DEF Strict, Simple
<1> HIDE DEF w, d, r, o, g, shell
<1>9. Settled(c, d, r) = d \/ (Settled(c, d, r) = r /\ r # NoRule)
  BY <1>7 DEF Settled, NoRule, Says
<1>10. LET s == Settled(shell, w, o).mode IN
       s \in Modes /\ (w.mode = "blocked" => s = "blocked") /\ (w.mode = "approval" => s # "safe")
  BY <1>7, <1>8 DEF Settled, NoRule, Says, Modes
<1> QED
  BY <1>3, <1>6, <1>7, <1>9, <1>10 DEF Strength, Modes, shell

\* The first rules are none, and edits leave them apart.
LEMMA RulesInitially == CommandRulesInit => RulesInv
<1> SUFFICES ASSUME CommandRulesInit PROVE RulesInv
  OBVIOUS
<1>1. StoredRules = {}
  BY DEF CommandRulesInit, StoredRules
<1>2. commandRules = [i \in CommandRuleId |-> commandRules[i]]
  BY DEF CommandRulesInit
<1> QED
  BY <1>1, <1>2, FS_EmptySet DEF RulesInv

LEMMA CreatedRuleFits ==
  ASSUME RulesInv, NEW i \in CommandRuleId, NEW request \in CommandRuleRequest, CreateCommandRule(i, request)
  PROVE  RulesInv'
<1> DEFINE n == Cardinality(StoredRules)
           new == Rule(request, "local", None, n)
<1>1. n \in Nat
  BY FS_CardinalityType DEF RulesInv
<1>2. commandRules[i] = NoHook /\ commandRules' = [commandRules EXCEPT ![i] = new]
  BY DEF CreateCommandRule, StoredRules
<1>3. new \in LocalCommandRule /\ new.born = n /\ new # NoHook
  BY <1>1, CommandRulesAreRanked DEF Rule, LocalCommandRule, NoHook
<1> HIDE DEF new
<1>4. commandRules' = [j \in CommandRuleId |-> commandRules'[j]]
  BY <1>2 DEF RulesInv
<1>5. \A j \in CommandRuleId : commandRules'[j] = IF j = i THEN new ELSE commandRules[j]
  BY <1>2 DEF RulesInv
<1>6. i \notin StoredRules /\ StoredRules' = StoredRules \cup {i}
  BY <1>2, <1>3, <1>5 DEF StoredRules
<1>7. IsFiniteSet(StoredRules') /\ Cardinality(StoredRules') = n + 1
  BY <1>6, FS_AddElement DEF RulesInv
<1>8. ASSUME NEW j \in StoredRules
      PROVE  commandRules[j].born \in Nat /\ commandRules[j].born < n
  BY <1>8 DEF RulesInv, LocalCommandRule
<1>9. \A j \in StoredRules' : commandRules'[j] \in LocalCommandRule /\ commandRules'[j].born < n + 1
  <2> TAKE j \in StoredRules'
  <2>1. j \in CommandRuleId
    BY DEF StoredRules
  <2>2. CASE j = i
    BY <1>1, <1>3, <1>5, <2>2
  <2>3. CASE j # i
    <3>1. j \in StoredRules /\ commandRules'[j] = commandRules[j]
      BY <1>5, <1>6, <2>1, <2>3
    <3>2. commandRules[j] \in LocalCommandRule
      BY <3>1 DEF RulesInv
    <3> QED
      BY <1>1, <1>8, <3>1, <3>2
  <2> QED
    BY <2>2, <2>3
<1>10. \A j, k \in StoredRules' : commandRules'[j].born = commandRules'[k].born => j = k
  <2> TAKE j, k \in StoredRules'
  <2>1. \A l \in StoredRules' : l = i \/ (l \in StoredRules /\ l # i)
    BY <1>6
  <2>2. commandRules'[i].born = n
    BY <1>3, <1>5
  <2>3. \A l \in StoredRules : commandRules'[l] = commandRules[l]
    BY <1>5, <1>6 DEF StoredRules
  <2>4. \A l \in StoredRules : commandRules'[l].born # n
    BY <1>1, <1>8, <2>3
  <2> QED
    BY <2>1, <2>2, <2>3, <2>4 DEF RulesInv
<1> QED
  BY <1>4, <1>7, <1>9, <1>10 DEF RulesInv

LEMMA UpdatedRuleFits ==
  ASSUME RulesInv, NEW i \in CommandRuleId, NEW enabled \in BOOLEAN, UpdateCommandRule(i, enabled)
  PROVE  RulesInv'
<1> DEFINE old == commandRules[i]
           new == [old EXCEPT !.rule.enabled = enabled]
<1>1. i \in StoredRules /\ commandRules' = [commandRules EXCEPT ![i] = new]
  BY DEF UpdateCommandRule, StoredRules
<1>2. old \in LocalCommandRule
  BY <1>1 DEF RulesInv
<1>3. new \in LocalCommandRule /\ new.born = old.born
  <2>1. [old.rule EXCEPT !.enabled = enabled] \in CommandRuleFields
    <3>1. old.rule \in CommandRuleFields
      BY <1>2 DEF LocalCommandRule
    <3> HIDE DEF old
    <3> QED
      BY <3>1 DEF CommandRuleFields
  <2>2. new = [old EXCEPT !.rule = [old.rule EXCEPT !.enabled = enabled]]
    BY <1>2 DEF LocalCommandRule
  <2> DEFINE fields == [old.rule EXCEPT !.enabled = enabled]
  <2> HIDE DEF fields, old
  <2> QED
    BY <1>2, <2>1, <2>2 DEF LocalCommandRule, fields
<1>4. new # NoHook
  BY <1>3 DEF LocalCommandRule, NoHook
<1> HIDE DEF new
<1>5. commandRules' = [j \in CommandRuleId |-> commandRules'[j]]
  BY <1>1 DEF RulesInv
<1>6. \A j \in CommandRuleId : commandRules'[j] = IF j = i THEN new ELSE commandRules[j]
  BY <1>1 DEF RulesInv
<1>7. StoredRules' = StoredRules
  BY <1>1, <1>4, <1>6 DEF StoredRules
<1>8. \A j \in StoredRules : commandRules'[j].born = commandRules[j].born /\ commandRules'[j] \in LocalCommandRule
  BY <1>3, <1>6 DEF RulesInv, StoredRules
<1> QED
  BY <1>5, <1>7, <1>8 DEF RulesInv

\* Whatever the gates do, the rules stay apart.
LEMMA RulesStay == RulesInv /\ [GatesNext]_gateVars => RulesInv'
<1> SUFFICES ASSUME RulesInv, [GatesNext]_gateVars PROVE RulesInv'
  OBVIOUS
<1>1. CASE UNCHANGED commandRules
  BY <1>1 DEF RulesInv, StoredRules
<1>2. CASE EditCommandRules
  <2>1. PICK i \in CommandRuleId :
           \/ \E request \in CommandRuleRequest : CreateCommandRule(i, request)
           \/ \E enabled \in BOOLEAN : UpdateCommandRule(i, enabled)
    BY <1>2 DEF EditCommandRules
  <2> QED
    BY <2>1, CreatedRuleFits, UpdatedRuleFits
<1>3. CASE CommandNext
  <2>1. EditCommandRules \/ UNCHANGED commandRules
    BY <1>3 DEF CommandNext, RequestCommand, ApproveCommand, DenyCommand, CommandExpires,
                ExecuteCommand, ExecuteApproved, EvaluateCommand, AuthorizeCommand, CommandCrash,
                LaunchCommand, RecordRun, MarkExecuted
  <2> QED
    BY <1>1, <1>2, <2>1
<1>4. CommandStep => CommandNext \/ EditCommandRules
  BY DEF CommandStep
<1>5. FileStep \/ ProviderStep \/ ToolStep \/ NetworkStep \/ WorldStep \/ UNCHANGED gateVars => UNCHANGED commandRules
  BY DEF FileStep, ProviderStep, ToolStep, NetworkStep, WorldStep, gateVars, commandVars, OtherThanCalls
<1> QED
  BY <1>1, <1>2, <1>3, <1>4, <1>5 DEF GatesNext

(* A script is never decided more leniently than one of its commands alone,
   up to the two exceptions of the code: however deeply its commands are
   nested and whatever rules the operators make (command_policy.py:825-1040). *)
THEOREM WrappingHolds == GatesSpec => []WrappingNeverWeakens
<1>1. GatesInit => RulesInv
  BY RulesInitially DEF GatesInit, CommandInit
<1>2. RulesInv /\ [GatesNext]_gateVars => RulesInv'
  BY RulesStay
<1>3. RulesInv => WrappingNeverWeakens
  <2> SUFFICES ASSUME RulesInv, NEW script \in Scripts, NEW role, ~MentionsState(InScript(script)),
                      NEW c \in Parts(script)
               PROVE  LET whole == Classified([kind |-> "shell", family |-> "bash", hardened |-> TRUE,
                                               script |-> script], role).mode
                          alone == Classified(c, role).mode
                      IN  \/ Strength(whole) >= Strength(alone)
                          \/ alone = "approval" /\ Vouched(c, role)
    BY DEF WrappingNeverWeakens
  <2>1. script # None
    BY VocabularyAssumption
  <2>2. IsScript(script)
    <3>1. PICK segments \in {<<v>> : v \in Vocabulary} \cup {<<v, u>> : v, u \in Vocabulary},
               subs \in {{}} \cup {{v} : v \in Vocabulary}, redirect \in BOOLEAN :
             script = [segments |-> segments, subs |-> subs, redirect |-> redirect]
      BY DEF Scripts
    <3>2. segments \in Seq(Command) /\ segments # <<>>
      <4>1. ASSUME NEW v \in Vocabulary, NEW u \in Vocabulary
            PROVE  /\ <<v>> \in Seq(Command) /\ <<v>> # <<>>
                   /\ <<v, u>> \in Seq(Command) /\ <<v, u>> # <<>>
        BY VocabularyAssumption
      <4>2. (\E v \in Vocabulary : segments = <<v>>) \/ (\E v, u \in Vocabulary : segments = <<v, u>>)
        OBVIOUS
      <4>3. CASE \E v \in Vocabulary : segments = <<v>>
        BY <4>1, <4>3
      <4>4. CASE \E v, u \in Vocabulary : segments = <<v, u>>
        <5>1. PICK v \in Vocabulary, u \in Vocabulary : segments = <<v, u>>
          BY <4>4
        <5>2. <<v, u>> \in Seq(Command) /\ <<v, u>> # <<>>
          BY <4>1
        <5> QED
          BY <5>1, <5>2
      <4> QED
        BY <4>2, <4>3, <4>4
    <3>3. subs \subseteq Command
      BY VocabularyAssumption
    <3> QED
      BY <3>1, <3>2, <3>3 DEF IsScript
  <2> QED
    BY <2>1, <2>2, WrappingKeeps
<1> QED
  BY <1>1, <1>2, <1>3, PTL DEF GatesSpec

\* The commands that a command leads to through scripts of shells.
Entered(c) == c.kind = "shell" /\ ~Opaque(c) /\ c.script.segments # <<>>

Reached[c \in Command] == {c} \cup UNION {Reached[d] : d \in IF Entered(c) THEN Inside(c) ELSE {}}

LEMMA ReachedIs ==
  \A c \in Command : Reached[c] = {c} \cup UNION {Reached[d] : d \in IF Entered(c) THEN Inside(c) ELSE {}}
<1> DEFINE kids == [c \in Command |-> IF Entered(c) THEN Inside(c) ELSE {}]
           Body(c, g) == {c} \cup UNION {g[d] : d \in IF Entered(c) THEN Inside(c) ELSE {}}
<1>1. \A c, g : c \in Command => Gathered(kids, c, g) = Body(c, g)
  BY DEF Gathered
<1>2. \E f : f = [c \in Command |-> Body(c, f)]
  <2>1. PICK f : f = [c \in Command |-> Gathered(kids, c, f)]
    <3>1. \A c \in Command : kids[c] \subseteq Inside(c)
      OBVIOUS
    <3> HIDE DEF kids
    <3> QED
      BY <3>1, Gathering
  <2> HIDE DEF kids, Body
  <2> QED
    BY <1>1, <2>1
<1>3. Reached = [c \in Command |-> Body(c, Reached)]
  BY <1>2 DEF Reached
<1> QED
  BY <1>3

\* What is in a part is in the whole.
LEMMA StateInParts ==
  ASSUME NEW c \in Command, ~MentionsState(Below(c)), NEW d \in Inside(c)
  PROVE  d \in Command /\ ~MentionsState(Below(d))
<1>1. d \in Command
  BY CommandsAreWhole
<1>2. Below(d) \subseteq Below(c)
  BY <1>1, WithinIs DEF Below
<1> QED
  BY <1>1, <1>2 DEF MentionsState

\* What is blocked alone is so by default or by a rule, and conversely.
LEMMA BlockedAlone ==
  ASSUME RulesInv, NEW role, NEW c \in Command, ~MentionsState(Below(c))
  PROVE  Classified(c, role).mode = "blocked"
            <=> (Verdicts(role)[c].mode = "blocked" \/ Configured(c, role).mode = "blocked")
<1> DEFINE d == Verdicts(role)[c]
           r == Configured(c, role)
<1>1. Classified(c, role) = Settled(c, d, r)
  BY DefaultIs DEF Classified
<1>2. c.kind # "shell" => d.why # "state"
  BY DefaultWithoutState
<1> HIDE DEF d, r
<1>3. Settled(c, d, r).mode = "blocked" <=> (d.mode = "blocked" \/ r.mode = "blocked")
  BY <1>2 DEF Settled
<1> QED
  BY <1>1, <1>3 DEF d, r

\* A shell is blocked if a part of its script is.
LEMMA BlockedShell ==
  ASSUME RulesInv, NEW role, NEW c \in Command, ~MentionsState(Below(c)), Entered(c),
         NEW d \in Inside(c), Classified(d, role).mode = "blocked"
  PROVE  Classified(c, role).mode = "blocked"
<1>1. Inside(c) = Parts(c.script)
  BY DEF Inside, Entered
<1>2. IsScript(c.script)
  BY <1>1, CommandsAreWhole DEF IsScript, Entered, Parts, Substituted
<1>3. ~MentionsState(InScript(c.script))
  <2>1. InScript(c.script) \subseteq Below(c)
    BY <1>1 DEF InScript, Below
  <2> QED
    BY <2>1 DEF MentionsState
<1>4. Verdicts(role)[d].mode = "blocked" \/ Configured(d, role).mode = "blocked"
  BY StateInParts, BlockedAlone
<1>5. Inner(c.script, role, Verdicts(role)).mode = "blocked"
  BY <1>1, <1>2, <1>3, <1>4, BlockedPart
<1>6. Verdicts(role)[c] = Inner(c.script, role, Verdicts(role))
  BY VerdictsFit DEF DefaultGiven, Entered
<1> QED
  BY <1>5, <1>6, BlockedAlone

\* So is everything that it reaches through the shells in it.
LEMMA BlockedWithin ==
  ASSUME RulesInv, NEW role
  PROVE  \A c \in Command : ~MentionsState(Below(c)) =>
             \A d \in Reached[c] : Classified(d, role).mode = "blocked" => Classified(c, role).mode = "blocked"
<1> DEFINE Holds(c) == ~MentionsState(Below(c)) =>
             \A d \in Reached[c] : Classified(d, role).mode = "blocked" => Classified(c, role).mode = "blocked"
           Bad == {c \in Command : ~Holds(c)}
<1>1. ASSUME Bad # {} PROVE FALSE
  <2>1. PICK c \in Bad : \A e \in Bad : TextLength[c] <= TextLength[e]
    <3>1. \A c \in Bad : TextLength[c] \in Nat
      BY CommandsAreWhole
    <3> HIDE DEF Bad
    <3> QED
      BY <1>1, <3>1, Smallest
  <2>2. c \in Command /\ ~MentionsState(Below(c))
    BY <2>1
  <2>3. PICK d \in Reached[c] : Classified(d, role).mode = "blocked" /\ Classified(c, role).mode # "blocked"
    BY <2>1
  <2>4. PICK e \in Inside(c) : Entered(c) /\ d \in Reached[e]
    BY <2>2, <2>3, ReachedIs
  <2>5. e \in Command /\ TextLength[e] < TextLength[c] /\ ~MentionsState(Below(e))
    BY <2>2, StateInParts, CommandsAreWhole
  <2>6. TextLength[e] \in Nat /\ TextLength[c] \in Nat
    BY <2>2, <2>5, CommandsAreWhole
  <2>7. Holds(e)
    BY <2>1, <2>5, <2>6
  <2>8. Classified(e, role).mode = "blocked"
    BY <2>3, <2>4, <2>5, <2>7
  <2> HIDE DEF Bad, Holds
  <2>9. Classified(c, role).mode = "blocked"
    BY <2>2, <2>4, <2>8, BlockedShell
  <2> QED
    BY <2>3, <2>9
<1> QED
  BY <1>1

(* No number of shells around a command lets through what is blocked alone. *)
NestingNeverUnblocks ==
    \A script, role :
        IsScript(script) /\ script # None /\ ~MentionsState(InScript(script)) =>
            \A p \in Parts(script) : \A c \in Reached[p] :
                Classified(c, role).mode = "blocked" =>
                    Classified([kind |-> "shell", family |-> "bash", hardened |-> TRUE,
                                script |-> script], role).mode = "blocked"

(* For every script whatever, at every depth: a command that is blocked alone,
   by the policy or by a rule of an operator, stays blocked inside any number
   of shells that do not touch the state files (command_policy.py:843-930). *)
THEOREM NestingHolds == GatesSpec => []NestingNeverUnblocks
<1>1. GatesInit => RulesInv
  BY RulesInitially DEF GatesInit, CommandInit
<1>2. RulesInv /\ [GatesNext]_gateVars => RulesInv'
  BY RulesStay
<1>3. RulesInv => NestingNeverUnblocks
  <2> SUFFICES ASSUME RulesInv, NEW script, NEW role, IsScript(script), script # None,
                      ~MentionsState(InScript(script)), NEW p \in Parts(script), NEW c \in Reached[p],
                      Classified(c, role).mode = "blocked"
               PROVE  Classified([kind |-> "shell", family |-> "bash", hardened |-> TRUE,
                                  script |-> script], role).mode = "blocked"
    BY DEF NestingNeverUnblocks
  <2>1. p \in Command /\ ~MentionsState(Below(p))
    BY PartsFit DEF MentionsState
  <2>2. Classified(p, role).mode = "blocked"
    BY <2>1, BlockedWithin
  <2> DEFINE whole == Classified([kind |-> "shell", family |-> "bash", hardened |-> TRUE,
                                  script |-> script], role).mode
  <2>3. whole \in Modes /\ Strength(whole) >= Strength("blocked")
    BY <2>2, WrappingKeeps
  <2> HIDE DEF whole
  <2>4. whole = "blocked"
    BY <2>3 DEF Strength, Modes
  <2> QED
    BY <2>4 DEF whole
<1> QED
  BY <1>1, <1>2, <1>3, PTL DEF GatesSpec

----------------------------------------------------------------------------
(* What starts. *)

\* Approvals are for requests that somebody made.
RequestsInv ==
    \A id \in CommandId : commandApprovals[id].status # "absent" =>
        commandApprovals[id].bound.request \in CommandRequest

\* A record that stands is replaced: none appears.
LEMMA NoneAppears ==
  ASSUME NEW ids, NEW S, Entries(S, ids), NEW i \in ids, S[i].status # "absent", NEW x, NEW T,
         T = [S EXCEPT ![i] = x]
  PROVE  \A id \in ids : S[id].status = "absent" => T[id].status = "absent"
BY DEF Entries

\* Records of commands only appear when a client asks.
LEMMA RecordsAppear ==
  ASSUME CommandLedgerInv, RequestsInv, [GatesNext]_gateVars,
         NEW id \in CommandId, commandApprovals[id].status = "absent",
         commandApprovals'[id].status # "absent"
  PROVE  commandApprovals'[id].bound.request \in CommandRequest
<1>1. Entries(commandApprovals, CommandId)
  BY DEF CommandLedgerInv, Balanced
<1>2. commandApprovals' # commandApprovals
  OBVIOUS
<1>3. CommandNext
  BY <1>2
  DEF GatesNext, FileStep, CommandStep, ProviderStep, ToolStep, NetworkStep, WorldStep,
      OtherThanCalls, gateVars, commandVars, EditCommandRules
<1>4. ASSUME NEW i \in CommandId, NEW r \in CommandRequest, RequestCommand(i, r)
      PROVE  commandApprovals'[id].bound.request \in CommandRequest
  <2> DEFINE x == CommandApproval(NewApproval(CommandBinding(r, CommandDecision(r))), "none")
  <2>1. commandApprovals' = [commandApprovals EXCEPT ![i] = x]
    BY <1>4 DEF RequestCommand
  <2>2. x.bound.request = r
    BY SlipWithRun DEF CommandBinding
  <2> HIDE DEF x
  <2>3. id = i
    BY <1>1, <2>1 DEF Entries
  <2> QED
    BY <1>1, <2>1, <2>2, <2>3 DEF Entries
<1>5. ASSUME NEW i \in CommandId, commandApprovals[i].status # "absent",
             \E x : commandApprovals' = [commandApprovals EXCEPT ![i] = x]
      PROVE  FALSE
  BY <1>1, <1>5, NoneAppears
<1>6. ASSUME NEW i \in CommandId, ApproveCommand(i) \/ DenyCommand(i) \/ CommandExpires(i)
      PROVE  FALSE
  BY <1>5, <1>6 DEF ApproveCommand, DenyCommand, CommandExpires, Approvable, Deniable
<1>7. ASSUME AuthorizeCommand
      PROVE  FALSE
  <2>1. /\ commandOp.id \in CommandId /\ commandApprovals[commandOp.id].status # "absent"
        /\ commandApprovals' = [commandApprovals EXCEPT ![commandOp.id] = Claimed(@)]
    BY <1>2, <1>7 DEF AuthorizeCommand, Authorized, Claimable, CommandLedgerInv, CommandBacked, CommandSafe
  <2> QED
    BY <1>5, <2>1
<1>8. ASSUME MarkExecuted
      PROVE  FALSE
  <2>1. commandOp.id \in CommandId /\ commandApprovals[commandOp.id].status # "absent"
    BY <1>8 DEF MarkExecuted, CommandLedgerInv, CommandBacked
  <2>2. \E x : commandApprovals' = [commandApprovals EXCEPT ![commandOp.id] = x]
    BY <1>2, <1>8 DEF MarkExecuted
  <2> QED
    BY <1>5, <2>1, <2>2
<1>9. ~LaunchCommand /\ ~RecordRun /\ ~CommandCrash /\ ~EditCommandRules
  BY <1>2 DEF LaunchCommand, RecordRun, CommandCrash, EditCommandRules
<1>10. \A i \in CommandId : \A actor : ~ExecuteApproved(i, actor)
  BY <1>2 DEF ExecuteApproved, EvaluateCommand
<1>11. \A r \in CommandRequest, i \in CommandId \cup {None}, background \in BOOLEAN :
          ~ExecuteCommand(r, i, background)
  BY <1>2 DEF ExecuteCommand, EvaluateCommand
<1> QED
  BY <1>3, <1>4, <1>6, <1>7, <1>8, <1>9, <1>10, <1>11 DEF CommandNext

\* What a record is for stays.
LEMMA RequestsStay ==
  ASSUME CommandLedgerInv, RequestsInv, [GatesNext]_gateVars
  PROVE  RequestsInv'
<1> SUFFICES ASSUME NEW id \in CommandId, commandApprovals'[id].status # "absent"
             PROVE  commandApprovals'[id].bound.request \in CommandRequest
  BY DEF RequestsInv
<1>1. CASE commandApprovals[id].status = "absent"
  BY <1>1, RecordsAppear
<1>2. CASE commandApprovals[id].status # "absent"
  <2>1. commandApprovals'[id].bound = commandApprovals[id].bound
    <3>1. Entries(commandApprovals, CommandId)
      BY DEF CommandLedgerInv, Balanced
    <3>2. commandApprovals' = commandApprovals \/ Turn(commandApprovals, commandApprovals', CommandId)
      BY CommandLedgerHolds DEF CommandBooks, Books
    <3> QED
      BY <1>2, <3>1, <3>2 DEF Turn, Entries
  <2> QED
    BY <1>2, <2>1 DEF RequestsInv
<1> QED
  BY <1>1, <1>2

\* A hook rule never relaxes, and a command that is not blocked was allowed all along.
LEMMA DecidedOnAll ==
  ASSUME NEW r, CommandDecision(r).mode # "blocked"
  PROVE  /\ TaskVerdict(r.context).allowed
         /\ r.cwdOutside # TRUE
         /\ Classified(r.command, r.context.role).mode # "blocked"
<1> DEFINE d == IF ~TaskVerdict(r.context).allowed THEN Says("blocked", "context")
                ELSE IF r.cwdOutside THEN Says("blocked", "cwd")
                ELSE Classified(r.command, r.context.role)
           h == HookDecision("command", "execute", r.name, r.context.role, d.mode)
<1>1. CommandDecision(r).mode = h.mode
  BY DEF CommandDecision, Hooked, Reviewed
<1>2. h.mode = d.mode \/ \E effect : h.mode = Tightened(d.mode, effect)
  <2> HIDE DEF d
  <2> QED
    BY DEF HookDecision, DecisionAmong
<1> HIDE DEF h
<1>3. d.mode # "blocked"
  <2> HIDE DEF d
  <2> QED
    BY <1>1, <1>2 DEF Tightened
<1> QED
  BY <1>3 DEF Says

\* What the operation that is served may become.
LEMMA CommandOpMoves ==
  ASSUME RequestsInv, CommandLedgerInv, [GatesNext]_gateVars
  PROVE  \/ commandOp' = commandOp \/ commandOp'.pc = "idle"
         \/ /\ commandOp.pc = "idle" /\ commandOp'.pc = "authorize"
            /\ commandOp'.request \in CommandRequest
            /\ commandOp'.decision = CommandDecision(commandOp'.request)
            /\ commandOp'.decision.mode # "blocked"
         \/ /\ commandOp.pc # "idle" /\ commandOp'.pc \notin {"idle", "authorize"}
            /\ commandOp'.request = commandOp.request /\ commandOp'.decision = commandOp.decision
<1> DEFINE Goal == \/ commandOp' = commandOp \/ commandOp'.pc = "idle"
                   \/ /\ commandOp.pc = "idle" /\ commandOp'.pc = "authorize"
                      /\ commandOp'.request \in CommandRequest
                      /\ commandOp'.decision = CommandDecision(commandOp'.request)
                      /\ commandOp'.decision.mode # "blocked"
                   \/ /\ commandOp.pc # "idle" /\ commandOp'.pc \notin {"idle", "authorize"}
                      /\ commandOp'.request = commandOp.request /\ commandOp'.decision = commandOp.decision
<1>1. CASE UNCHANGED commandOp
  BY <1>1
<1>2. ASSUME NEW r \in CommandRequest, NEW id, NEW background, EvaluateCommand(r, id, background)
      PROVE  Goal
  <2> DEFINE decision == CommandDecision(r)
  <2>1. /\ commandOp.pc = "idle" /\ decision.mode # "blocked"
        /\ commandOp' = [pc |-> "authorize", request |-> r, id |-> id,
                         background |-> background, decision |-> decision, outcome |-> "none"]
    BY <1>2 DEF EvaluateCommand
  <2>2. commandOp'.pc = "authorize" /\ commandOp'.request = r /\ commandOp'.decision = decision
    <3> HIDE DEF decision
    <3> QED
      BY <2>1
  <2>3. commandOp'.decision = CommandDecision(commandOp'.request) /\ commandOp'.decision.mode # "blocked"
    <3>1. commandOp'.decision = CommandDecision(r) /\ CommandDecision(r).mode # "blocked"
      BY <2>1, <2>2
    <3> QED
      BY <2>2, <3>1
  <2> QED
    BY <2>1, <2>2, <2>3
<1>3. CASE \E r \in CommandRequest, id \in CommandId \cup {None}, background \in BOOLEAN :
              ExecuteCommand(r, id, background)
  BY <1>2, <1>3 DEF ExecuteCommand
<1>4. CASE \E id \in CommandId : \E actor : ExecuteApproved(id, actor)
  <2>1. PICK id \in CommandId : \E actor : ExecuteApproved(id, actor)
    BY <1>4
  <2>2. commandApprovals[id].bound.request \in CommandRequest
    BY <2>1 DEF ExecuteApproved, RequestsInv
  <2> QED
    BY <1>2, <2>1, <2>2 DEF ExecuteApproved
<1>5. CASE CommandCrash \/ AuthorizeCommand \/ LaunchCommand \/ RecordRun \/ MarkExecuted
  <2>1. \/ commandOp' = NoCommandOp
        \/ /\ commandOp.pc # "idle"
           /\ \E pc \in {"launch", "record", "mark"} : \E outcome :
                 commandOp' = [commandOp EXCEPT !.pc = pc, !.outcome = outcome]
        \/ /\ commandOp.pc # "idle"
           /\ \E pc \in {"launch", "record", "mark"} : commandOp' = [commandOp EXCEPT !.pc = pc]
    BY <1>5 DEF CommandCrash, AuthorizeCommand, LaunchCommand, RecordRun, MarkExecuted
  <2> QED
    BY <2>1, NoCommandOpFits DEF CommandLedgerInv, CommandOpShape, CommandOpField
<1>6. CASE \/ EditCommandRules
           \/ \E id \in CommandId, r \in CommandRequest : RequestCommand(id, r)
           \/ \E id \in CommandId : ApproveCommand(id) \/ DenyCommand(id) \/ CommandExpires(id)
  BY <1>6 DEF EditCommandRules, RequestCommand, ApproveCommand, DenyCommand, CommandExpires
<1>7. CommandNext \/ UNCHANGED commandOp
  BY DEF GatesNext, FileStep, CommandStep, ProviderStep, ToolStep, NetworkStep, WorldStep,
         OtherThanCalls, gateVars, commandVars, EditCommandRules
<1> QED
  BY <1>1, <1>3, <1>4, <1>5, <1>6, <1>7 DEF CommandNext

(* A command is decided in a state in which its context is allowed, its
   directory is under the root and nothing that it reaches through shells is
   blocked alone.  It is neither decided again nor exchanged before it is
   launched, and while it goes on in production what needs approval has used up
   a record that was bound to this request and this decision. *)
StartsAsDecided ==
    [][LET o == commandOp
           s == commandOp'
           r == s.request
       IN  /\ o.pc = "idle" /\ s.pc # "idle" =>
                 /\ s.pc = "authorize" /\ s.decision = CommandDecision(r)
                 /\ TaskVerdict(r.context).allowed
                 /\ r.cwdOutside # TRUE
                 /\ ~MentionsState(Below(r.command)) =>
                        \A c \in Reached[r.command] : Classified(c, r.context.role).mode # "blocked"
           /\ o.pc # "idle" /\ s.pc # "idle" =>
                 s.request = o.request /\ s.decision = o.decision
           /\ o.pc = "authorize" /\ s.pc \notin {"idle", "authorize"} =>
                 \/ s.decision.mode # "approval"
                 \/ CommandEnvironment = "development"
                 \/ UsedBy(o.id, o.request, o.decision)']_gateVars

(* Rules and tasks may change between the decision on a command, the claim of
   its approval and the launch, and approvals are given and denied long before:
   what is launched is still what the policy of one moment let through as a
   whole, and what was approved for exactly that (cli_runtime.py:1541-1618). *)
THEOREM StartsHold == GatesSpec => StartsAsDecided
<1> DEFINE Inv == GatesInv /\ RulesInv /\ RequestsInv
           Step == LET o == commandOp
                       s == commandOp'
                       r == s.request
                   IN  /\ o.pc = "idle" /\ s.pc # "idle" =>
                             /\ s.pc = "authorize" /\ s.decision = CommandDecision(r)
                             /\ TaskVerdict(r.context).allowed
                             /\ r.cwdOutside # TRUE
                             /\ ~MentionsState(Below(r.command)) =>
                                    \A c \in Reached[r.command] : Classified(c, r.context.role).mode # "blocked"
                       /\ o.pc # "idle" /\ s.pc # "idle" =>
                             s.request = o.request /\ s.decision = o.decision
                       /\ o.pc = "authorize" /\ s.pc \notin {"idle", "authorize"} =>
                             \/ s.decision.mode # "approval"
                             \/ CommandEnvironment = "development"
                             \/ UsedBy(o.id, o.request, o.decision)'
<1>1. GatesInit => Inv
  <2>1. GatesInit => RequestsInv
    BY SlipWithRun DEF GatesInit, CommandInit, RequestsInv
  <2> QED
    BY <2>1, GatesStart, RulesInitially DEF GatesInit, CommandInit
<1>2. Inv /\ [GatesNext]_gateVars => Inv'
  BY GatesHold, RulesStay, RequestsStay DEF GatesInv
<1>3. Inv /\ [GatesNext]_gateVars => [Step]_gateVars
  <2> SUFFICES ASSUME Inv, [GatesNext]_gateVars PROVE Step
    OBVIOUS
  <2> DEFINE o == commandOp
             s == commandOp'
             r == s.request
  <2>1. \/ s = o \/ s.pc = "idle"
        \/ /\ o.pc = "idle" /\ s.pc = "authorize" /\ r \in CommandRequest
           /\ s.decision = CommandDecision(r) /\ s.decision.mode # "blocked"
        \/ /\ o.pc # "idle" /\ s.pc \notin {"idle", "authorize"}
           /\ s.request = o.request /\ s.decision = o.decision
    BY CommandOpMoves DEF GatesInv
  <2>2. ASSUME o.pc = "idle", s.pc # "idle"
        PROVE  /\ s.pc = "authorize" /\ s.decision = CommandDecision(r)
               /\ TaskVerdict(r.context).allowed
               /\ r.cwdOutside # TRUE
               /\ ~MentionsState(Below(r.command)) =>
                      \A c \in Reached[r.command] : Classified(c, r.context.role).mode # "blocked"
    <3>1. /\ s.pc = "authorize" /\ r \in CommandRequest
          /\ s.decision = CommandDecision(r) /\ CommandDecision(r).mode # "blocked"
      BY <2>1, <2>2
    <3>2. r.command \in Command
      BY <3>1, RequestsAreCommands
    <3>3. ASSUME ~MentionsState(Below(r.command)), NEW c \in Reached[r.command]
          PROVE  Classified(c, r.context.role).mode # "blocked"
      BY <3>1, <3>2, <3>3, BlockedWithin, DecidedOnAll
    <3> QED
      BY <3>1, <3>3, DecidedOnAll
  <2>3. o.pc # "idle" /\ s.pc # "idle" => s.request = o.request /\ s.decision = o.decision
    BY <2>1
  <2>4. ASSUME o.pc = "authorize", s.pc \notin {"idle", "authorize"}
        PROVE  \/ s.decision.mode # "approval"
               \/ CommandEnvironment = "development"
               \/ UsedBy(o.id, o.request, o.decision)'
    <3>1. CommandLedgerInv'
      BY CommandLedgerHolds DEF GatesInv
    <3>2. s.pc \in {"launch", "record", "mark"}
      BY <2>4, <3>1 DEF CommandLedgerInv
    <3>3. /\ s.id \in CommandId \cup {None}
          /\ s.id # None => /\ commandApprovals'[s.id].status = "executed"
                            /\ commandApprovals'[s.id].bound.request = s.request
                            /\ commandApprovals'[s.id].bound.decision = s.decision
          /\ s.id = None /\ s.decision.mode = "approval" => CommandEnvironment = "development"
      BY <3>1, <3>2 DEF CommandLedgerInv, CommandBacked
    <3>4. \A a \in CommandId : Record(a)' = commandApprovals'[a]
      BY GatesApart DEF Record
    <3>5. CASE s.id = None
      BY <3>3, <3>5
    <3>6. CASE s.id # None
      BY <3>3, <3>4, <3>6 DEF UsedBy
    <3> QED
      BY <3>5, <3>6
  <2> QED
    BY <2>2, <2>3, <2>4
<1> QED
  BY <1>1, <1>2, <1>3, PTL DEF GatesSpec, StartsAsDecided

----------------------------------------------------------------------------
(* What the ledger promises, of the gates. *)

\* Nothing is acted upon twice, nor before it is used up.
ActedOnce ==
    \A a \in Approval : ActsOn(a) \in {0, 1} /\ (ActsOn(a) = 1 => Record(a).status = "executed")

(* An approval that is denied or used up stays so, only one that was asked for
   is answered, only one that was approved is used up, and what acts on it
   finds it used up. *)
AnswersStand ==
    [][\A a \in Approval :
          /\ Record(a).status \in {"denied", "executed"} => Record(a)'.status = Record(a).status
          /\ Record(a)'.status \in {"approved", "denied"} =>
                 Record(a).status \in {"pending", Record(a)'.status}
          /\ Record(a)'.status = "executed" => Record(a).status \in {"approved", "executed"}
          /\ ActsOn(a)' # ActsOn(a) => Record(a).status = "executed" /\ ActsOn(a) = 0]_gateVars

\* A step of the ledger seen from one approval.
LEMMA SeenFromOne ==
  ASSUME NEW x \in Approval, LedgerStep
  PROVE  /\ \/ LedgerStatus'[x] = LedgerStatus[x]
            \/ Legal(LedgerStatus[x], LedgerStatus'[x])
         /\ \/ LedgerActs'[x] = LedgerActs[x]
            \/ /\ LedgerStatus[x] = "executed" /\ LedgerStatus'[x] = "executed"
               /\ LedgerActs[x] = 0 /\ LedgerActs'[x] = 1
<1>1. /\ LedgerStatus = [b \in Approval |-> LedgerStatus[b]]
      /\ LedgerActs = [b \in Approval |-> LedgerActs[b]]
  BY DEF LedgerStatus, LedgerActs
<1>2. CASE UNCHANGED Ledger!ledgerVars
  BY <1>2 DEF Ledger!ledgerVars, LedgerStatus, LedgerActs
<1>3. ASSUME NEW b \in Approval, NEW from, NEW to, Ledger!Moves(b, from, to), Legal(from, to)
      PROVE  /\ LedgerStatus'[x] = LedgerStatus[x] \/ Legal(LedgerStatus[x], LedgerStatus'[x])
             /\ LedgerActs'[x] = LedgerActs[x]
  <2>1. /\ LedgerStatus[b] = from /\ LedgerStatus' = [LedgerStatus EXCEPT ![b] = to]
        /\ LedgerActs' = LedgerActs
    BY <1>3 DEF Ledger!Moves, LedgerStatus, LedgerActs
  <2> QED
    BY <1>1, <1>3, <2>1
<1>4. ASSUME NEW b \in Approval, Ledger!Act(b)
      PROVE  /\ LedgerStatus'[x] = LedgerStatus[x]
             /\ \/ LedgerActs'[x] = LedgerActs[x]
                \/ LedgerStatus[x] = "executed" /\ LedgerActs[x] = 0 /\ LedgerActs'[x] = 1
  <2>1. /\ LedgerStatus[b] = "executed" /\ LedgerActs[b] = 0
        /\ LedgerActs' = [LedgerActs EXCEPT ![b] = 1] /\ LedgerStatus' = LedgerStatus
    BY <1>4 DEF Ledger!Act, LedgerStatus, LedgerActs
  <2> QED
    BY <1>1, <2>1
<1>5. ASSUME NEW b \in Approval, Ledger!Ask(b) \/ Ledger!Answer(b) \/ Ledger!UseUp(b)
      PROVE  \E from, to : Ledger!Moves(b, from, to) /\ Legal(from, to)
  BY <1>5 DEF Ledger!Ask, Ledger!Answer, Ledger!UseUp, Legal
<1>6. CASE \E b \in Approval : Ledger!Ask(b) \/ Ledger!Answer(b) \/ Ledger!UseUp(b)
  <2>1. PICK b \in Approval : \E from, to : Ledger!Moves(b, from, to) /\ Legal(from, to)
    BY <1>5, <1>6
  <2> QED
    BY <1>3, <2>1
<1>7. CASE \E b \in Approval : Ledger!Act(b)
  <2>1. PICK b \in Approval : Ledger!Act(b)
    BY <1>7
  <2>2. LedgerStatus[x] = "executed" /\ LedgerStatus'[x] = LedgerStatus[x] => LedgerStatus'[x] = "executed"
    OBVIOUS
  <2> QED
    BY <1>4, <2>1, <2>2
<1> QED
  BY <1>2, <1>6, <1>7 DEF LedgerStep

(* Whatever gate it belongs to, an approval is acted upon once at most, and only
   when it has been used up (guardrails.py:736, cli_runtime.py:2047,
   provider_runtime.py:1755, tool_runtime.py:902). *)
THEOREM ApprovalsActOnce == GatesSpec => []ActedOnce
<1>1. GatesInit => GatesInv /\ ActedOnce
  <2> SUFFICES ASSUME GatesInit PROVE GatesInv /\ ActedOnce
    OBVIOUS
  <2>1. \A a \in Approval : LedgerActs[a] = 0
    BY LedgerStarts DEF Ledger!LedgerInit, LedgerActs
  <2> QED
    BY <2>1, GatesStart DEF ActedOnce, LedgerActs
<1>2. GatesInv /\ ActedOnce /\ [GatesNext]_gateVars => GatesInv' /\ ActedOnce'
  <2> SUFFICES ASSUME GatesInv, ActedOnce, [GatesNext]_gateVars PROVE GatesInv' /\ ActedOnce'
    OBVIOUS
  <2>1. \A a \in Approval : LedgerActs[a] \in {0, 1} /\ (LedgerActs[a] = 1 => LedgerStatus[a] = "executed")
    BY DEF ActedOnce, LedgerActs, LedgerStatus
  <2>2. ASSUME NEW a \in Approval
        PROVE  LedgerActs'[a] \in {0, 1} /\ (LedgerActs'[a] = 1 => LedgerStatus'[a] = "executed")
    <3>1. LedgerStep
      BY GatesStepLedger
    <3>2. /\ LedgerStatus'[a] = LedgerStatus[a] \/ Legal(LedgerStatus[a], LedgerStatus'[a])
          /\ \/ LedgerActs'[a] = LedgerActs[a]
             \/ LedgerStatus'[a] = "executed" /\ LedgerActs'[a] = 1
      BY <3>1, SeenFromOne
    <3> QED
      BY <2>1, <3>2 DEF Legal
  <2> QED
    BY <2>2, GatesHold DEF ActedOnce, LedgerActs, LedgerStatus
<1> QED
  BY <1>1, <1>2, PTL DEF GatesSpec

(* Whoever serves it, wherever a process stops and whatever is asked at the same
   time: an answer is given once and stands, and nothing acts on an approval
   that nobody has approved. *)
THEOREM AnswersHold == GatesSpec => AnswersStand
<1>1. GatesInit => GatesInv
  BY GatesStart
<1>2. GatesInv /\ [GatesNext]_gateVars => GatesInv'
  BY GatesHold
<1>3. GatesInv /\ [GatesNext]_gateVars =>
        [\A a \in Approval :
          /\ Record(a).status \in {"denied", "executed"} => Record(a)'.status = Record(a).status
          /\ Record(a)'.status \in {"approved", "denied"} =>
                 Record(a).status \in {"pending", Record(a)'.status}
          /\ Record(a)'.status = "executed" => Record(a).status \in {"approved", "executed"}
          /\ ActsOn(a)' # ActsOn(a) => Record(a).status = "executed" /\ ActsOn(a) = 0]_gateVars
  <2> SUFFICES ASSUME GatesInv, [GatesNext]_gateVars, NEW a \in Approval
               PROVE  /\ Record(a).status \in {"denied", "executed"} => Record(a)'.status = Record(a).status
                      /\ Record(a)'.status \in {"approved", "denied"} =>
                             Record(a).status \in {"pending", Record(a)'.status}
                      /\ Record(a)'.status = "executed" => Record(a).status \in {"approved", "executed"}
                      /\ ActsOn(a)' # ActsOn(a) => Record(a).status = "executed" /\ ActsOn(a) = 0
    OBVIOUS
  <2>1. /\ LedgerStatus[a] = Record(a).status /\ LedgerStatus'[a] = Record(a)'.status
        /\ LedgerActs[a] = ActsOn(a) /\ LedgerActs'[a] = ActsOn(a)'
    BY DEF LedgerStatus, LedgerActs
  <2>2. /\ LedgerStatus'[a] = LedgerStatus[a] \/ Legal(LedgerStatus[a], LedgerStatus'[a])
        /\ \/ LedgerActs'[a] = LedgerActs[a]
           \/ LedgerStatus[a] = "executed" /\ LedgerActs[a] = 0
    <3>1. LedgerStep
      BY GatesStepLedger
    <3> HIDE DEF LedgerStatus, LedgerActs
    <3> QED
      BY <3>1, SeenFromOne
  <2> HIDE DEF LedgerStatus, LedgerActs
  <2> QED
    BY <2>1, <2>2 DEF Legal
<1> QED
  BY <1>1, <1>2, <1>3, PTL DEF GatesSpec, AnswersStand
=============================================================================
