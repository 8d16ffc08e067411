--------------------------- MODULE TerminalSession ---------------------------
(***************************************************************************)
(* The terminal program (openvs/ui/app.py) with its state                  *)
(* (openvs/core/app_state.py), the run of a prompt (openvs/core/runtime.py)*)
(* behind the crash shield (openvs/core/shield.py), and the session file   *)
(* (openvs/core/session.py).                                               *)
(*                                                                         *)
(* All of it is one thread, an event loop: a run of a prompt is cut into   *)
(* steps at its awaits, and between them the user types, presses keys,     *)
(* saves, loads or leaves.  A new prompt cancels the run of the last one   *)
(* wherever it waits, and nothing cleans up after it.                      *)
(*                                                                         *)
(* A reply is counted in its words.  The timestamped copies of a session,  *)
(* which nothing reads, are left out.                                      *)
(***************************************************************************)
EXTENDS Naturals, Sequences, FiniteSets, SequencesExt

CONSTANTS
  Models, AppModes, SwarmModes,  \* sequences; the first of each is the default
  Kept,        \* messages that save_session keeps
  MaxPrompts,  \* bound: prompts
  MaxWords,    \* bound: words of a reply
  MaxActs,     \* bound: what else the user does
  MaxOpens,    \* bound: starts of the program
  NoSession    \* no session file, or one that cannot be read

Prompts == 1 .. MaxPrompts

ASSUME TerminalAssumption ==
  /\ Kept \in Nat \ {0} /\ MaxWords \in Nat \ {0}
  /\ MaxPrompts \in Nat /\ MaxActs \in Nat /\ MaxOpens \in Nat
  /\ \A s \in {Models, AppModes, SwarmModes} : s \in Seq(STRING) /\ s # <<>>

VARIABLES
  isOpen,
  prefs,      \* AppState: model, mode, swarm.enabled, swarm.mode
  status,     \* system_status
  agents,     \* state of each agent
  messages,   \* [who, of, words, past]; past ones come from the session file
  shown,      \* current_stream: the first words of the reply to a prompt
  prompts,    \* prompts so far
  runs,       \* the run of each prompt: [pc, length, said]
  session,    \* latest.json
  acts, opens,
  clearedTo,  \* history: the prompts up to this one were cleared away
  promised    \* history: the preferences of the session that was loaded last

chatVars == <<status, agents, messages, shown, runs>>
termVars == <<isOpen, prefs, chatVars, prompts, session, acts, opens, clearedTo, promised>>

Agents == {"orchestrator", "planner", "coder", "critic", "tester"}

Defaults ==
  [model |-> Models[1], mode |-> AppModes[1], swarm |-> TRUE, swarmMode |-> SwarmModes[1]]

NothingShown == [of |-> 0, words |-> 0]

TermInit ==
  /\ isOpen = FALSE /\ prefs = Defaults
  /\ status = "idle" /\ agents = [a \in Agents |-> "idle"]
  /\ messages = <<>> /\ shown = NothingShown
  /\ prompts = 0 /\ runs = [p \in Prompts |-> [pc |-> "none", length |-> 0, said |-> 0]]
  /\ session = NoSession /\ acts = 0 /\ opens = 0
  /\ clearedTo = 0 /\ promised = NoSession

Message(who, of, words) == [who |-> who, of |-> of, words |-> words, past |-> FALSE]

Alive(p) == runs[p].pc \notin {"none", "done", "cancelled", "gone"}

-----------------------------------------------------------------------------
(* Slip: the workers are not exclusive. *)
NobodyCancelled == runs

(* @work(exclusive=True). *)
OthersCancelled ==
  [p \in Prompts |-> IF Alive(p) THEN [runs[p] EXCEPT !.pc = "cancelled"] ELSE runs[p]]

(* on_input_submitted with a prompt: its worker is made, and starts later. *)
SubmitPrompt ==
  /\ isOpen /\ prompts < MaxPrompts
  /\ prompts' = prompts + 1
  /\ runs' = [OthersCancelled EXCEPT ![prompts'].pc = "ready"]
  /\ UNCHANGED <<isOpen, prefs, status, agents, messages, shown, session, acts, opens, clearedTo,
                 promised>>

(* run_prompt once the result is there, up to the first await: STREAMING,  *)
(* and the first word.                                                     *)
Stream(p) ==
  /\ status' = "streaming"
  /\ shown' = [of |-> p, words |-> 1]
  /\ \E n \in 1 .. MaxWords : runs' = [runs EXCEPT ![p] = [pc |-> "stream", length |-> n, said |-> 1]]

(* CrashShield._capture: agents that run have failed.  The status ERROR    *)
(* that it sets gives way to STREAMING in the same step.                   *)
Captured(states) == [a \in Agents |-> IF states[a] = "running" THEN "failed" ELSE states[a]]

Became(states, change) == [a \in Agents |-> IF a \in DOMAIN change THEN change[a] ELSE states[a]]

(* The first step of a run: with the swarm, the planner is set to work; a  *)
(* single agent has the orchestrator run, which returns or raises.         *)
StartRun(p) ==
  /\ isOpen /\ runs[p].pc = "ready"
  /\ messages' = Append(messages, Message("user", p, 1))
  /\ \/ /\ prefs.swarm
        /\ status' = "planning"
        /\ agents' = Became(agents, [orchestrator |-> "running", planner |-> "running"])
        /\ runs' = [runs EXCEPT ![p].pc = "planning"]
        /\ UNCHANGED shown
     \/ /\ ~prefs.swarm
        /\ agents' = Became(agents, [coder |-> "success"])
        /\ Stream(p)
     \/ /\ ~prefs.swarm
        /\ agents' = Captured(Became(agents, [coder |-> "running"]))
        /\ Stream(p)
  /\ UNCHANGED <<isOpen, prefs, prompts, session, acts, opens, clearedTo, promised>>

(* _swarm_inner after each of its sleeps. *)
SwarmExecutes(p) ==
  /\ isOpen /\ runs[p].pc = "planning"
  /\ \/ /\ agents' = Became(agents, [planner |-> "success", coder |-> "running"])
        /\ runs' = [runs EXCEPT ![p].pc = "coding"]
        /\ UNCHANGED <<status, shown>>
     \/ agents' = Captured(agents) /\ Stream(p)
  /\ UNCHANGED <<isOpen, prefs, messages, prompts, session, acts, opens, clearedTo, promised>>

SwarmReviews(p) ==
  /\ isOpen /\ runs[p].pc = "coding"
  /\ agents' = Became(agents, [coder |-> "success", critic |-> "running"])
  /\ runs' = [runs EXCEPT ![p].pc = "reviewing"]
  /\ UNCHANGED <<isOpen, prefs, status, messages, shown, prompts, session, acts, opens, clearedTo,
                 promised>>

SwarmReports(p) ==
  /\ isOpen /\ runs[p].pc = "reviewing"
  /\ agents' = Became(agents, [critic |-> "success", orchestrator |-> "success"])
  /\ Stream(p)
  /\ UNCHANGED <<isOpen, prefs, messages, prompts, session, acts, opens, clearedTo, promised>>

NextWord(p) ==
  /\ isOpen /\ runs[p].pc = "stream" /\ runs[p].said < runs[p].length
  /\ runs' = [runs EXCEPT ![p].said = @ + 1]
  /\ shown' = [of |-> p, words |-> runs'[p].said]
  /\ UNCHANGED <<isOpen, prefs, status, agents, messages, prompts, session, acts, opens, clearedTo,
                 promised>>

(* clear_stream: what is shown, if anything, becomes the reply. *)
EndRun(p) ==
  /\ isOpen /\ runs[p].pc = "stream" /\ runs[p].said = runs[p].length
  /\ messages' = IF shown = NothingShown THEN messages
                 ELSE Append(messages, Message("assistant", shown.of, shown.words))
  /\ shown' = NothingShown
  /\ status' = "idle"
  /\ runs' = [runs EXCEPT ![p].pc = "done"]
  /\ UNCHANGED <<isOpen, prefs, agents, prompts, session, acts, opens, clearedTo, promised>>

-----------------------------------------------------------------------------
(* What else the user does. *)
Act == isOpen /\ acts < MaxActs /\ acts' = acts + 1

After(s, x) == s[(IndexFirstSubSeq(<<x>>, s) % Len(s)) + 1]

Prefer(new) ==
  /\ Act
  /\ prefs' = new /\ promised' = NoSession
  /\ UNCHANGED <<isOpen, chatVars, prompts, session, opens, clearedTo>>

(* The keys tab, ctrl+m and ctrl+s ... *)
CycleMode   == Prefer([prefs EXCEPT !.mode = After(AppModes, @)])
SelectModel == Prefer([prefs EXCEPT !.model = After(Models, @)])
ToggleSwarm == Prefer([prefs EXCEPT !.swarm = ~@])

(* ... the commands /model, /swarm on|off and /swarm mode, which refuse    *)
(* what is not in their lists, and the palette, which has two modes.       *)
ModelCommand(m) == Prefer([prefs EXCEPT !.model = m])

SwarmCommand ==
  \/ \E b \in BOOLEAN : Prefer([prefs EXCEPT !.swarm = b])
  \/ \E m \in Range(SwarmModes) : Prefer([prefs EXCEPT !.swarmMode = m])

PickFromPalette ==
  \E m \in {"diff", "swarm"} \intersect Range(AppModes) : Prefer([prefs EXCEPT !.mode = m])

(* ctrl+l leaves what is being streamed; /clear drops it. *)
ClearChat(byCommand) ==
  /\ Act
  /\ messages' = <<>>
  /\ shown' = IF byCommand THEN NothingShown ELSE shown
  /\ clearedTo' = prompts
  /\ UNCHANGED <<isOpen, prefs, status, agents, runs, prompts, session, opens, promised>>

(* save_session. *)
Saved ==
  [prefs |-> prefs,
   messages |-> SubSeq(messages, IF Len(messages) > Kept THEN Len(messages) - Kept + 1 ELSE 1,
                       Len(messages))]

SaveSession ==
  /\ Act
  /\ session' = Saved
  /\ UNCHANGED <<isOpen, prefs, chatVars, prompts, opens, clearedTo, promised>>

(* /session load: the model, and the messages behind those that are there. *)
LoadSession ==
  /\ Act /\ session # NoSession
  /\ prefs' = [prefs EXCEPT !.model = session.prefs.model]
  /\ messages' = messages \o [i \in DOMAIN session.messages |-> [session.messages[i] EXCEPT !.past = TRUE]]
  /\ promised' = session.prefs
  /\ UNCHANGED <<isOpen, status, agents, shown, runs, prompts, session, opens, clearedTo>>

ClearSessions ==
  /\ Act
  /\ session' = NoSession
  /\ UNCHANGED <<isOpen, prefs, chatVars, prompts, opens, clearedTo, promised>>

-----------------------------------------------------------------------------
(* A new process: nothing is restored by itself. *)
OpenTerminal ==
  /\ ~isOpen /\ opens < MaxOpens
  /\ isOpen' = TRUE /\ opens' = opens + 1
  /\ prefs' = Defaults /\ status' = "idle" /\ agents' = [a \in Agents |-> "idle"]
  /\ messages' = <<>> /\ shown' = NothingShown
  /\ clearedTo' = prompts /\ promised' = NoSession
  /\ UNCHANGED <<runs, prompts, session, acts>>

(* The end of the process; the framework may call on_exit before, which    *)
(* saves, and a process that is killed in a save leaves the file cut off.  *)
CloseTerminal ==
  /\ isOpen /\ isOpen' = FALSE
  /\ session' \in {session, Saved, NoSession}
  /\ runs' = [p \in Prompts |-> IF Alive(p) THEN [runs[p] EXCEPT !.pc = "gone"] ELSE runs[p]]
  /\ UNCHANGED <<prefs, status, agents, messages, shown, prompts, acts, opens, clearedTo, promised>>

TermNext ==
  \/ SubmitPrompt
  \/ \E p \in Prompts : \/ StartRun(p) \/ SwarmExecutes(p) \/ SwarmReviews(p) \/ SwarmReports(p)
                        \/ NextWord(p) \/ EndRun(p)
  \/ CycleMode \/ SelectModel \/ ToggleSwarm \/ SwarmCommand \/ PickFromPalette
  \/ \E m \in Range(Models) : ModelCommand(m)
  \/ SaveSession \/ LoadSession \/ ClearSessions
  \/ \E b \in BOOLEAN : ClearChat(b)
  \/ OpenTerminal \/ CloseTerminal

TermSpec == TermInit /\ [][TermNext]_termVars

-----------------------------------------------------------------------------
(* The places of this session's messages. *)
Fresh == {i \in DOMAIN messages : ~messages[i].past}

Says(who, p) == \E i \in Fresh : messages[i].who = who /\ messages[i].of = p

Rank(m) == 2 * m.of + (IF m.who = "assistant" THEN 1 ELSE 0)

(* However often a prompt is sent while another is still being answered:   *)
(* the messages of this session are in order, a reply stands behind its    *)
(* own prompt, once and whole, and a run that comes to its end has left    *)
(* its prompt and its reply, unless the chat was cleared meanwhile.        *)
ConversationIsInOrder ==
  /\ \A i, k \in Fresh : i < k => Rank(messages[i]) < Rank(messages[k])
  /\ \A i \in Fresh : messages[i].who = "assistant" =>
       LET r == runs[messages[i].of] IN r.pc = "done" /\ messages[i].words = r.length
  /\ \A p \in (clearedTo + 1) .. prompts :
       runs[p].pc = "done" => Says("user", p) /\ Says("assistant", p)

(* One run at a time; the status is busy only while there is one, and      *)
(* never idle once it has begun.  When all is idle and no run was          *)
(* cancelled, no agent is shown as running.                                *)
StatusIsTrue ==
  isOpen =>
    /\ Cardinality({p \in Prompts : Alive(p)}) <= 1
    /\ status # "idle" => \E p \in Prompts : Alive(p)
    /\ \A p \in Prompts : Alive(p) /\ runs[p].pc # "ready" =>
         status = IF runs[p].pc = "stream" THEN "streaming" ELSE "planning"
    /\ status = "idle" /\ (\A p \in Prompts : runs[p].pc # "cancelled") =>
         \A a \in Agents : agents[a] # "running"

TerminalIsSound == ConversationIsInOrder /\ StatusIsTrue

(* session.py:4-8: when the user reopens OpenVS, they get their previous   *)
(* model, swarm state and mode.  So it is when a session has been loaded,  *)
(* until something is changed.                                             *)
SessionIsRestored == promised # NoSession => prefs = promised
=============================================================================
