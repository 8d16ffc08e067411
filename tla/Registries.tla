------------------------------ MODULE Registries ------------------------------
(***************************************************************************)
(* Three tables that OpenVS keeps in files under ~/.openvs and that        *)
(* outlive a process: the publishers it trusts (platform/publishers.py),   *)
(* the nodes of the cluster (api/cluster.py), both held in memory as well, *)
(* and the secrets of each plugin (security/vault.py), read anew by every  *)
(* call.  A save truncates the file and then writes it; the process may be *)
(* killed between the two.                                                 *)
(***************************************************************************)
EXTENDS Naturals, Sequences, SequencesExt, Tables

CONSTANTS
  Builtin, OtherNames,  \* BUILTIN_TRUSTED and other publishers
  SigningKeys,          \* key ids
  NoKey,                \* the key id ""
  NodeIds,              \* nodes of the cluster
  Abilities,            \* sets of capabilities that a node may register
  VaultPlugins,         \* plugins with secrets
  SecretNames,          \* names of secrets
  Missing, Cut,         \* a file that is not there, or that was cut off
  MaxCalls              \* bound: calls that change something

ASSUME RegistryAssumption ==
  /\ NoKey \notin SigningKeys /\ Builtin \intersect OtherNames = {} /\ MaxCalls \in Nat
  /\ VaultPlugins \intersect {"none", "publishers", "nodes"} = {}
  /\ \A no \in {Missing, Cut} :   \* no file is none of the tables
       /\ \A names \in SUBSET OtherNames : no \notin [names -> SigningKeys \union {NoKey}]
       /\ \A names \in SUBSET SecretNames : no \notin [names -> Nat]
       /\ \A n \in 0..MaxCalls :
            no \notin [1..n -> [id : NodeIds, gpu : BOOLEAN, can : Abilities]]

VARIABLES
  publishers, publisherFile,  \* _publishers and trusted_publishers.json: name -> key id
  nodes, nodeFile,            \* _nodes and cluster.json: [id, gpu, can], in their order
  secretFile,                 \* secrets.json of each plugin: name -> value
  pending,                    \* the file that a save has truncated, and what goes into it
  calls,
  trusted, members, secrets   \* history: what the calls were told, and no cut undid

publisherVars == <<publishers, publisherFile, trusted>>
nodeVars      == <<nodes, nodeFile, members>>
secretVars    == <<secretFile, secrets>>
registryVars  == <<publisherVars, nodeVars, secretVars, pending, calls>>

Idle == [file |-> "none", text |-> <<>>]
BuiltinTrust == [n \in Builtin |-> NoKey]

RegistryInit ==
  /\ publishers = BuiltinTrust /\ publisherFile = Missing /\ trusted = Builtin
  /\ nodes = <<>> /\ nodeFile = Missing /\ members = {}
  /\ secretFile = [p \in VaultPlugins |-> Missing]
  /\ secrets = [p \in VaultPlugins |-> << >>]
  /\ pending = Idle /\ calls = 0

Content(file, empty) == IF file \in {Missing, Cut} THEN empty ELSE file

Call == pending = Idle /\ calls < MaxCalls /\ calls' = calls + 1

-----------------------------------------------------------------------------
(* TrustStore.  _save leaves the built-in publishers out. *)
SavePublishers(p) ==
  /\ publishers' = p /\ publisherFile' = Cut
  /\ pending' = [file |-> "publishers", text |-> [n \in DOMAIN p \ Builtin |-> p[n]]]

AddTrusted(n, k) ==
  /\ Call /\ SavePublishers(With(publishers, n, k))
  /\ trusted' = trusted \union {n}
  /\ UNCHANGED <<nodeVars, secretVars>>

(* Slip: the publisher is taken out of the memory only. *)
RemoveUnsaved(n) ==
  /\ Call /\ n \in DOMAIN publishers \ Builtin
  /\ publishers' = Drop(publishers, n) /\ trusted' = trusted \ {n}
  /\ UNCHANGED <<publisherFile, pending, nodeVars, secretVars>>

(* remove_trusted, which denies the built-in ones. *)
RemoveTrusted(n) ==
  /\ Call /\ n \in DOMAIN publishers \ Builtin
  /\ SavePublishers(Drop(publishers, n))
  /\ trusted' = trusted \ {n}
  /\ UNCHANGED <<nodeVars, secretVars>>

(* verify_publisher: whoever is in the table is verified already. *)
VerifyPublisher(n, k) ==
  /\ Call /\ n \in DOMAIN publishers /\ publishers[n] = k
  /\ SavePublishers(publishers)
  /\ UNCHANGED <<trusted, nodeVars, secretVars>>

IsTrusted(n) == n \in DOMAIN publishers

-----------------------------------------------------------------------------
(* ClusterCoordinator.  Nothing ever takes a node off line. *)
SaveNodes(ns) ==
  /\ nodes' = ns /\ nodeFile' = Cut
  /\ pending' = [file |-> "nodes", text |-> ns]

Others(id) == Only(nodes, {i \in DOMAIN nodes : nodes[i].id # id})

RegisterNode(node) ==
  /\ Call
  /\ LET at == {i \in DOMAIN nodes : nodes[i].id = node.id}
     IN  SaveNodes(IF at = {} THEN Append(nodes, node)
                   ELSE [i \in DOMAIN nodes |-> IF i \in at THEN node ELSE nodes[i]])
  /\ members' = {m \in members : m.id # node.id} \union {node}
  /\ UNCHANGED <<publisherVars, secretVars>>

DeregisterNode(id) ==
  /\ Call /\ \E i \in DOMAIN nodes : nodes[i].id = id
  /\ SaveNodes(Others(id))
  /\ members' = {m \in members : m.id # id}
  /\ UNCHANGED <<publisherVars, secretVars>>

(* schedule, and find_gpu_node, which asks for no capability. *)
Fits(node, gpu, need) == (gpu => node.gpu) /\ need \subseteq node.can
Schedule(gpu, need) == Only(nodes, {i \in DOMAIN nodes : Fits(nodes[i], gpu, need)})

-----------------------------------------------------------------------------
(* SecretVault: a call reads the file, and a file that was cut off has no  *)
(* secrets.                                                                *)
Secrets(p) == Content(secretFile[p], << >>)

SaveSecrets(p, s) ==
  /\ secretFile' = [secretFile EXCEPT ![p] = Cut]
  /\ pending' = [file |-> p, text |-> s]
  /\ UNCHANGED <<publisherVars, nodeVars>>

StoreSecret(p, s) ==
  /\ Call /\ SaveSecrets(p, With(Secrets(p), s, calls'))
  /\ secrets' = [secrets EXCEPT ![p] = With(@, s, calls')]

DeleteSecret(p, s) ==
  /\ Call /\ s \in DOMAIN Secrets(p) /\ SaveSecrets(p, Drop(Secrets(p), s))
  /\ secrets' = [secrets EXCEPT ![p] = Drop(@, s)]

DeleteVault(p) ==
  /\ Call /\ secretFile[p] # Missing
  /\ secretFile' = [secretFile EXCEPT ![p] = Missing]
  /\ secrets' = [secrets EXCEPT ![p] = << >>]
  /\ UNCHANGED <<publisherVars, nodeVars, pending>>

-----------------------------------------------------------------------------
(* The second half of a save. *)
WriteFile ==
  /\ pending # Idle /\ pending' = Idle
  /\ publisherFile' = IF pending.file = "publishers" THEN pending.text ELSE publisherFile
  /\ nodeFile' = IF pending.file = "nodes" THEN pending.text ELSE nodeFile
  /\ secretFile' = [p \in VaultPlugins |->
                      IF pending.file = p THEN pending.text ELSE secretFile[p]]
  /\ UNCHANGED <<publishers, trusted, nodes, members, secrets, calls>>

(* A new process; the last one ended, or was killed in the middle of a     *)
(* save.  What was cut off is gone.                                        *)
NewProcess ==
  /\ pending' = Idle
  /\ publishers' = Over(Content(publisherFile, << >>), BuiltinTrust)
  /\ trusted' = IF publisherFile = Cut THEN Builtin ELSE trusted
  /\ nodes' = Content(nodeFile, <<>>)
  /\ members' = IF nodeFile = Cut THEN {} ELSE members
  /\ secrets' = [p \in VaultPlugins |-> IF secretFile[p] = Cut THEN << >> ELSE secrets[p]]
  /\ UNCHANGED <<publisherFile, nodeFile, secretFile, calls>>

(* The three are used apart. *)
PublisherNext ==
  \/ WriteFile \/ NewProcess
  \/ \E n \in Builtin \union OtherNames :
       RemoveTrusted(n) \/ \E k \in SigningKeys \union {NoKey} : AddTrusted(n, k) \/ VerifyPublisher(n, k)

NodeNext ==
  \/ WriteFile \/ NewProcess
  \/ \E id \in NodeIds :
       \/ DeregisterNode(id)
       \/ \E gpu \in BOOLEAN, can \in Abilities : RegisterNode([id |-> id, gpu |-> gpu, can |-> can])

SecretNext ==
  \/ WriteFile \/ NewProcess
  \/ \E p \in VaultPlugins :
       DeleteVault(p) \/ \E s \in SecretNames : StoreSecret(p, s) \/ DeleteSecret(p, s)

RegistrySpec == RegistryInit /\ [][PublisherNext \/ NodeNext \/ SecretNext]_registryVars

-----------------------------------------------------------------------------
(* A publisher is trusted, in this process and in the next, exactly if it  *)
(* is built in or was added and not removed since.                         *)
TrustIsKept == {n \in Builtin \union OtherNames : IsTrusted(n)} = trusted

(* A node that fits is found whenever one is registered, and none that     *)
(* was deregistered, whatever was registered twice or saved before.        *)
NodesAreFound ==
  \A gpu \in BOOLEAN, need \in {{}} \union Abilities :
    Range(Schedule(gpu, need)) = {m \in members : Fits(m, gpu, need)}

(* A plugin reads the secrets it stored and did not delete, as it stored   *)
(* them, and never those of another.                                       *)
SecretsAreKept == pending = Idle => \A p \in VaultPlugins : Secrets(p) = secrets[p]

(* All this as long as no save is cut off; a save that is takes the whole  *)
(* table with it, and no other.                                            *)
RegistriesAreSound == TrustIsKept /\ NodesAreFound /\ SecretsAreKept
=============================================================================
