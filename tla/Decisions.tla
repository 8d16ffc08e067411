------------------------------ MODULE Decisions ------------------------------
(***************************************************************************)
(* What the swarm decides by a computation: a vote (core/consensus.py), an *)
(* action under a token (core/policy_engine.py) and the merge of several   *)
(* patches of one file (core/merge_engine.py).  One request is one step;   *)
(* what was asked and answered is kept for the properties.                 *)
(*                                                                         *)
(* The text of a file is a sequence of lines, each a letter: what the      *)
(* merge looks at is whether one text lies within another.                 *)
(***************************************************************************)
EXTENDS PolicyEngine, Integers, Sequences, FiniteSets, SequencesExt, Tables

CONSTANTS
  Voters,       \* roles a vote may come from
  TokenRoles,   \* roles a token may be asked for
  Texts,        \* contents a patch may have
  PatchAgents,  \* agents a patch may come from
  MaxPatches    \* bound: patches merged at once

ASSUME DecisionAssumption ==
  IsFiniteSet(Voters) /\ NoExpiry # 0 /\ Texts \subseteq Seq(STRING) /\ MaxPatches \in Nat

VARIABLE answer

decisionVars == <<answer>>

-----------------------------------------------------------------------------
(* consensus.py. *)
RoleWeights == [planner |-> 1, coder |-> 1, critic |-> 3, tester |-> 2, security_auditor |-> 2]

Weight(role) == IF role \in DOMAIN RoleWeights THEN RoleWeights[role] ELSE 1

VoteStrategies == {"majority", "weighted", "debate", "critic_authority"}

(* The roles that decided so, and their weight together: each is counted   *)
(* as often as it weighs.                                                  *)
Deciding(votes, d) == {r \in DOMAIN votes : votes[r] = d}

WeightOf(votes, d) == Cardinality(UNION {{r} \X (1..Weight(r)) : r \in Deciding(votes, d)})

MajorityVote(votes) ==
  2 * Cardinality(Deciding(votes, "approve")) > Cardinality(DOMAIN votes)

WeightedVote(votes) == WeightOf(votes, "approve") > WeightOf(votes, "reject")

(* Slip: a critic that abstains is taken to approve. *)
CriticNotAgainst(votes) ==
  IF "critic" \in DOMAIN votes THEN votes["critic"] # "reject" ELSE WeightedVote(votes)

CriticAuthority(votes) ==
  IF "critic" \in DOMAIN votes THEN votes["critic"] = "approve" ELSE WeightedVote(votes)

(* No objection is an approval, of no votes too. *)
DebateResolution(votes) ==
  \/ Deciding(votes, "reject") = {}
  \/ WeightOf(votes, "approve") > 2 * WeightOf(votes, "reject")

(* ConsensusResult.resolve: is the proposal approved? *)
Resolve(strategy, votes) ==
  CASE strategy = "majority" -> MajorityVote(votes)
    [] strategy = "weighted" -> WeightedVote(votes)
    [] strategy = "critic_authority" -> CriticAuthority(votes)
    [] strategy = "debate" -> DebateResolution(votes)

-----------------------------------------------------------------------------
(* merge_engine.py. *)
PatchPriority == [critic |-> 10, security_auditor |-> 5, tester |-> 3, coder |-> 2, planner |-> 1]

PriorityOf(agent) == IF agent \in DOMAIN PatchPriority THEN PatchPriority[agent] ELSE 0

(* Slip: the patches are taken as they come. *)
AsTheyCome(patches) == patches

(* sorted(): by the agent's priority, and stable. *)
ByPriority(patches) ==
  LET places == DOMAIN patches
      before(i, k) ==
        LET a == PriorityOf(patches[i].agent)
            b == PriorityOf(patches[k].agent)
        IN  a < b \/ (a = b /\ i < k)
      sorted == Ranked(places, {e \in places \X places : before(e[1], e[2])})
  IN  [p \in places |-> patches[sorted[p]]]

(* The places where one text lies in another; the empty text lies in all.  *)
Occurrences(old, text) ==
  {i \in 0..(Len(text) - Len(old)) : SubSeq(text, i + 1, i + Len(old)) = old}

(* str.replace(old, new, 1). *)
ReplaceFirst(text, old, new) ==
  LET at == CHOOSE i \in Occurrences(old, text) : \A k \in Occurrences(old, text) : i <= k
  IN  SubSeq(text, 1, at) \o new \o SubSeq(text, at + Len(old) + 1, Len(text))

(* One turn of the loop of _merge_file: [text, applied, conflicts].        *)
ApplyPatch(state, p) ==
  IF p.old = state.text \/ Occurrences(p.old, state.text) # {}
  THEN [state EXCEPT !.text = IF p.old = @ THEN p.new ELSE ReplaceFirst(@, p.old, p.new),
                     !.applied = Append(@, p)]
  ELSE [state EXCEPT !.conflicts = @ + 1]

(* _merge_file: a single patch is its new content, whatever the file was;  *)
(* several start from the old content of the first one given.              *)
MergeFile(patches) ==
  IF Len(patches) = 1
  THEN [text |-> patches[1].new, applied |-> patches, conflicts |-> 0]
  ELSE FoldLeft(ApplyPatch, [text |-> patches[1].old, applied |-> <<>>, conflicts |-> 0],
                ByPriority(patches))

-----------------------------------------------------------------------------
DecisionInit == answer = [of |-> "nothing"]

(* quick_vote, of POST /consensus/vote. *)
QuickVote ==
  \E s \in VoteStrategies, who \in SUBSET Voters :
    \E votes \in [who -> {"approve", "reject", "abstain"}] :
      answer' = [of |-> "vote", strategy |-> s, votes |-> votes,
                   approved |-> Resolve(s, votes)]

(* verify_action.  A refusal is recorded for the audit with its reason.    *)
VerifyAction ==
  \E role \in TokenRoles, action \in DOMAIN Needed \cup {"deploy"},
     path \in {"code", "tests", "docs", "outside", None},
     command \in {"pytest", "rm", None}, big \in BOOLEAN, late \in BOOLEAN :
    LET token == Token(role, IF late THEN 0 ELSE NoExpiry)
    IN  answer' = [of |-> "action", role |-> role, action |-> action, path |-> path,
                     command |-> command, late |-> late,
                     result |-> Verdict(token, action, path, command, big, 1)]

(* merge_patches for one file. *)
MergePatches ==
  \E n \in 1..MaxPatches :
    \E patches \in [1..n -> [agent : PatchAgents, old : Texts, new : Texts]] :
      LET r == MergeFile(patches)
      IN  answer' = [of |-> "merge", patches |-> patches, text |-> r.text,
                       applied |-> r.applied,
                       status |-> IF r.conflicts > 0 THEN "conflict" ELSE "merged"]

DecisionNext ==
  \/ answer.of = "nothing" /\ (QuickVote \/ VerifyAction \/ MergePatches)
  \/ answer.of # "nothing" /\ answer' = [of |-> "nothing"]

-----------------------------------------------------------------------------
(* No approval is ever held against a proposal: under every strategy, a    *)
(* proposal that is approved stays approved when a role that had rejected  *)
(* it, or abstained, approves it instead; and where the critic has the     *)
(* last word, a critic that votes is never overruled.                      *)
VotesAreMonotone ==
  answer.of = "vote" =>
    /\ \A r \in DOMAIN answer.votes :
         answer.approved => Resolve(answer.strategy, [answer.votes EXCEPT ![r] = "approve"])
    /\ answer.strategy = "critic_authority" /\ "critic" \in DOMAIN answer.votes =>
         (answer.approved <=> answer.votes["critic"] = "approve")

(* The descriptions of the roles: reviewers and planners never change      *)
(* anything, what a tester or a writer of documents writes lies where it   *)
(* belongs, and an expired token allows nothing.                           *)
RolesKeepTheirPlace ==
  answer.of = "action" /\ answer.result = "allowed" =>
    /\ ~answer.late
    /\ answer.action \in {"write", "patch", "run"} =>
         answer.role \in {"coder", "tester", "doc_writer"}
    /\ answer.action = "patch" => answer.role = "coder"
    /\ answer.action = "write" /\ answer.path # None =>
         \/ answer.role = "coder" /\ answer.path # "outside"
         \/ answer.role = "tester" /\ answer.path = "tests"
         \/ answer.role = "doc_writer" /\ answer.path = "docs"

(* A merge of several patches that is reported merged has applied all of   *)
(* them, and the agent with the highest priority has had the last word:    *)
(* what the last of its patches writes is in the result, in one piece.     *)
LastWord ==
  answer.of = "merge" /\ answer.status = "merged" =>
    LET top(i) == \A k \in DOMAIN answer.patches :
                    LET a == PriorityOf(answer.patches[i].agent)
                        b == PriorityOf(answer.patches[k].agent)
                    IN  b < a \/ (b = a /\ k <= i)
    IN  /\ Len(answer.applied) = Len(answer.patches)
        /\ \A i \in DOMAIN answer.patches :
             top(i) => Occurrences(answer.patches[i].new, answer.text) # {}

(* The three of them: what is decided follows from what was asked.         *)
DecisionsAreSound == VotesAreMonotone /\ RolesKeepTheirPlace /\ LastWord
=============================================================================
