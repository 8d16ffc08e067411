------------------------------ MODULE Resilience ------------------------------
(***************************************************************************)
(* openvs/resilience and the permission gate: calls that are tried again   *)
(* under a policy, with a circuit breaker that all callers of a key share  *)
(* (retry.py); chains of fallback steps (fallback.py); the healer of a     *)
(* graph of nodes (healer.py); the permissions of plugins                  *)
(* (security/permissions.py).  Delays and logs are left out.               *)
(***************************************************************************)
EXTENDS Naturals, Sequences, FiniteSets

CONSTANTS
  Callers,         \* threads that share the retry engine
  DefaultPolicies, \* DEFAULT_POLICIES: failure type -> [strategy, retries]
  BreakerPolicy,   \* a policy with the circuit breaker, for set_policy
  Threshold,       \* circuit_breaker_threshold
  CircuitKeys,     \* keys of calls
  ChainLength,     \* steps of the fallback chain
  HealNodes,       \* sequence of the nodes of a graph
  HealDeps,        \* node -> the nodes it depends on
  GatePlugins, Permissions,
  MaxTries         \* bound: calls begun in all

ASSUME ResilienceAssumption ==
  /\ "unknown" \notin DOMAIN DefaultPolicies /\ BreakerPolicy.retries \in Nat
  /\ \A kind \in DOMAIN DefaultPolicies :
       DefaultPolicies[kind].retries \in Nat /\ DefaultPolicies[kind].strategy # "circuit_breaker"
  /\ IsFiniteSet(Callers) /\ "none" \notin CircuitKeys
  /\ Threshold \in Nat \ {0} /\ ChainLength \in Nat /\ MaxTries \in Nat

VARIABLES
  policies, circuit,   \* RetryEngine._policies and _circuit_open
  caller,              \* of each caller: [policy, key, attempt, says]
  begun,
  unbroken,            \* history: the keys called under another policy
  step, tried,         \* the fallback chain: the step that is next; what came of those before
  nodeStatus,          \* of each node: pending, running, completed or failed
  healed,              \* what heal said, and the nodes it reset
  grants, denials,     \* PermissionGate: pairs of plugin and permission
  autoApprove,
  decision             \* history: the last decision on every pair

retryVars == <<policies, circuit, caller, unbroken>>
healVars  == <<nodeStatus, healed>>
gateVars  == <<grants, denials, autoApprove, decision>>
resilienceVars == <<retryVars, step, tried, healVars, gateVars, begun>>

NotCalling == [policy |-> BreakerPolicy, key |-> "none", attempt |-> 0, says |-> "nothing"]
HealIds    == {HealNodes[i] : i \in DOMAIN HealNodes}
Pairs      == GatePlugins \X Permissions

ResilienceInit ==
  /\ policies = DefaultPolicies /\ circuit = [k \in CircuitKeys |-> 0]
  /\ caller = [c \in Callers |-> NotCalling]
  /\ begun = 0 /\ unbroken = {} /\ step = 0 /\ tried = <<>>
  /\ nodeStatus = [n \in HealIds |-> "pending"] /\ healed = [says |-> "nothing", reset |-> {}]
  /\ grants = {} /\ denials = {} /\ autoApprove = FALSE
  /\ decision = [x \in Pairs |-> "none"]

Begun == begun < MaxTries /\ begun' = begun + 1

-----------------------------------------------------------------------------
(* RetryEngine.  The policy for unknown failures is looked up in every     *)
(* call, as the default, whether it is needed or not, and there is none    *)
(* until set_policy makes one.                                             *)
Raises == "unknown" \notin DOMAIN policies
PolicyFor(kind) == policies[IF kind \in DOMAIN policies THEN kind ELSE "unknown"]
HasBreaker(policy) == policy.strategy = "circuit_breaker"

(* Slip: one failure too many. *)
OpensLate(key) == circuit[key] > Threshold

IsOpen(key) == circuit[key] >= Threshold

SetPolicy(kind) ==
  /\ policies' = [k \in DOMAIN policies \union {kind} |-> IF k = kind THEN BreakerPolicy ELSE policies[k]]
  /\ UNCHANGED <<circuit, caller, unbroken, step, tried, healVars, gateVars, begun>>

ResetCircuit(key) ==
  /\ circuit' = [circuit EXCEPT ![key] = 0]
  /\ UNCHANGED <<policies, caller, unbroken, step, tried, healVars, gateVars, begun>>

(* call, up to the first attempt ... *)
CallRetried(c, kind, key) ==
  /\ caller[c].says # "trying" /\ Begun
  /\ LET Says(s, p) == caller' = [caller EXCEPT ![c] = [policy |-> p, key |-> key, attempt |-> 0,
                                                        says |-> s]]
     IN  CASE Raises -> Says("raised", BreakerPolicy) /\ UNCHANGED unbroken
           [] ~Raises /\ HasBreaker(PolicyFor(kind)) /\ IsOpen(key) ->
                Says("circuit_open", PolicyFor(kind)) /\ UNCHANGED unbroken
           [] OTHER ->
                /\ Says("trying", PolicyFor(kind))
                /\ unbroken' = IF HasBreaker(PolicyFor(kind)) THEN unbroken ELSE unbroken \union {key}
  /\ UNCHANGED <<policies, circuit, step, tried, healVars, gateVars>>

(* ... and an attempt, which succeeds or raises. *)
AttemptRetried(c, succeeds) ==
  /\ caller[c].says = "trying"
  /\ LET me == caller[c]
         after == CASE succeeds -> "ok"
                    [] ~succeeds /\ me.attempt < me.policy.retries -> "trying"
                    [] ~succeeds /\ me.attempt >= me.policy.retries -> "exhausted"
     IN  /\ circuit' = [circuit EXCEPT ![me.key] = IF succeeds THEN 0 ELSE @ + 1]
         /\ caller' = [caller EXCEPT ![c].attempt = @ + 1, ![c].says = after]
  /\ UNCHANGED <<policies, unbroken, step, tried, healVars, gateVars, begun>>

RetryNext ==
  \/ \E kind \in DOMAIN DefaultPolicies \union {"unknown"} :
       \/ SetPolicy(kind)
       \/ \E c \in Callers, key \in CircuitKeys : CallRetried(c, kind, key)
  \/ \E key \in CircuitKeys : ResetCircuit(key)
  \/ \E c \in Callers, b \in BOOLEAN : AttemptRetried(c, b)

-----------------------------------------------------------------------------
(* FallbackOrchestrator.execute: the steps in their order; the condition   *)
(* of a step is not looked at.                                             *)
ExecuteChain ==
  /\ step = 0 /\ Begun
  /\ step' = 1 /\ tried' = <<>>
  /\ UNCHANGED <<retryVars, healVars, gateVars>>

TryStep(succeeds) ==
  /\ step \in 1..ChainLength
  /\ tried' = Append(tried, IF succeeds THEN "ok" ELSE "failed")
  /\ step' = IF succeeds \/ step = ChainLength THEN 0 ELSE step + 1
  /\ UNCHANGED <<retryVars, healVars, gateVars, begun>>

-----------------------------------------------------------------------------
(* The life of a node, between two calls of heal. *)
NodeMoves(n) ==
  /\ Begun
  /\ \/ nodeStatus[n] = "pending" /\ nodeStatus' = [nodeStatus EXCEPT ![n] = "running"]
     \/ nodeStatus[n] = "running" /\ \E s \in {"completed", "failed"} : nodeStatus' = [nodeStatus EXCEPT ![n] = s]
  /\ healed' = [says |-> "nothing", reset |-> {}]
  /\ UNCHANGED <<retryVars, step, tried, gateVars>>

(* Slip: a dependency that has just been reset counts as met. *)
MetOrReset(n, s) == \A d \in HealDeps[n] : s[d] \in {"completed", "pending"}

(* _heal_node: whether the dependencies of a node that was reset are met. *)
DependenciesHold(n, s) == \A d \in HealDeps[n] : s[d] = "completed"

(* DAGHealer.heal: the failed nodes, in the order of the list. *)
Heal ==
  /\ Begun
  /\ LET failed == {n \in HealIds : nodeStatus[n] = "failed"}
         reset  == [n \in HealIds |-> IF n \in failed THEN "pending" ELSE nodeStatus[n]]
     IN  /\ nodeStatus' = reset
         /\ healed' = [says |-> CASE failed = {} -> "healthy"
                                  [] OTHER -> IF \A n \in failed : DependenciesHold(n, reset)
                                              THEN "healed" ELSE "partial",
                       reset |-> failed]
  /\ UNCHANGED <<retryVars, step, tried, gateVars>>

-----------------------------------------------------------------------------
(* PermissionGate. *)
Grant(x) ==
  /\ Begun
  /\ grants' = grants \union {x} /\ denials' = denials \ {x}
  /\ decision' = [decision EXCEPT ![x] = "granted"]
  /\ UNCHANGED <<retryVars, step, tried, healVars, autoApprove>>

Deny(x) ==
  /\ Begun
  /\ denials' = denials \union {x} /\ grants' = grants \ {x}
  /\ decision' = [decision EXCEPT ![x] = "denied"]
  /\ UNCHANGED <<retryVars, step, tried, healVars, autoApprove>>

SetAutoApprove(b) ==
  /\ Begun /\ autoApprove' = b
  /\ UNCHANGED <<retryVars, step, tried, healVars, grants, denials, decision>>

Check(x) ==
  CASE autoApprove -> "auto_approve_mode"
    [] ~autoApprove /\ x \in grants -> "pre_approved"
    [] ~autoApprove /\ x \notin grants /\ x \in denials -> "previously_denied"
    [] OTHER -> "needs_approval"

CareNext ==
  \/ ExecuteChain \/ Heal
  \/ \E b \in BOOLEAN : TryStep(b) \/ SetAutoApprove(b)
  \/ \E n \in HealIds : NodeMoves(n)
  \/ \E x \in Pairs : Grant(x) \/ Deny(x)

ResilienceSpec == ResilienceInit /\ [][RetryNext \/ CareNext]_resilienceVars

-----------------------------------------------------------------------------
(* The breaker.  It is looked at when a call begins only, so a call that   *)
(* was admitted makes all its attempts: however the callers of a key are   *)
(* interleaved, at most one call each goes on failing beyond the           *)
(* threshold.  A call makes at most one attempt more than its retries, and *)
(* no attempt at all before somebody sets a policy for unknown failures.   *)
BreakerHolds ==
  /\ \A key \in CircuitKeys \ unbroken :
       circuit[key] <= Threshold - 1 + Cardinality(Callers) * (BreakerPolicy.retries + 1)
  /\ \A c \in Callers :
       /\ caller[c].attempt <= caller[c].policy.retries + 1
       /\ caller[c].says = "exhausted" => caller[c].attempt = caller[c].policy.retries + 1
       /\ Raises => caller[c].attempt = 0

(* A chain of fallbacks ends with its first step that succeeds, and fails  *)
(* only when every step has failed.                                        *)
ChainStops ==
  /\ \A i \in DOMAIN tried : tried[i] = "ok" => i = Len(tried) /\ step = 0
  /\ step = 0 /\ tried # <<>> => tried[Len(tried)] = "ok" \/ Len(tried) = ChainLength

(* A graph that the healer calls healed has no failed node, and the nodes  *)
(* it put back can run: the nodes they depend on are completed.            *)
HealedCanRun ==
  healed.says \in {"healthy", "healed"} =>
    \A n \in HealIds : /\ nodeStatus[n] # "failed"
                       /\ n \in healed.reset => \A d \in HealDeps[n] : nodeStatus[d] = "completed"

(* The gate answers with the last decision, whatever came before. *)
LastDecisionCounts ==
  ~autoApprove => \A x \in Pairs :
    Check(x) = CASE decision[x] = "granted" -> "pre_approved"
                 [] decision[x] = "denied" -> "previously_denied"
                 [] decision[x] = "none" -> "needs_approval"

CallsAreTamed == BreakerHolds /\ ChainStops /\ HealedCanRun /\ LastDecisionCounts
=============================================================================
