------------------------------ MODULE ApiServer ------------------------------
(***************************************************************************)
(* The HTTP server (api.py) where it keeps state of its own: the runs of   *)
(* POST /run, each in a thread, which share latest_result and sys.stdout;  *)
(* the memory of notes and its file (memory/memory.py), which the tools of *)
(* the runs, GET /memory and POST /memory/reset use; and the list of the   *)
(* clients of /ws, to which every event is forwarded by the thread that    *)
(* emits it.  What the other routes call is in JobScheduler, Transactions, *)
(* SwarmCoordinator, WorkerFabric and Decisions.                           *)
(*                                                                         *)
(* A note is a number; the memory is the set of its notes.  The vector     *)
(* index is left out.                                                      *)
(***************************************************************************)
EXTENDS Naturals, Sequences, FiniteSets, SequencesExt

CONSTANTS
  Runs,         \* runs posted
  MaxNotes,     \* bound: notes written
  MaxMemCalls,  \* bound: calls of GET /memory and POST /memory/reset
  MaxServerKills, \* bound: restarts of the server
  Clients,      \* clients of /ws
  MaxEvents     \* bound: events emitted

ASSUME ApiAssumption ==
  /\ MaxNotes \in Nat /\ MaxMemCalls \in Nat /\ MaxServerKills \in Nat /\ MaxEvents \in Nat
  /\ Runs \intersect {"terminal", "none", "get", "reset"} = {}

VARIABLES
  latest,           \* latest_result: [says, run]
  stdout,           \* sys.stdout: the terminal, or the buffer of a run
  thread,           \* of each run: new, saves, swaps, works, reports or over
  oldStdout,        \* of each run: old_stdout
  printed,          \* of each run: where its output went
  page,             \* the dashboard: whether it polls GET /status
  overlap,          \* history: two runs were at work at once
  notes, noteFile,  \* store and session.json
  memOp,            \* of each run and of the two routes: the step of memory.py that is next
  notesRead,        \* what load_all_memory has read
  noteCount, memCalls, serverKills,
  kept, disturbed,  \* history: the notes since the last reset; whether two of the steps met
  listed, connected,\* ws_clients, and those that are really there
  sending,          \* of each run: the clients it has yet to forward an event to
  events, missed,   \* history: events emitted; the clients that got none of them
  cutShort          \* history: a forwarding ended by a disconnect in the middle of it

runVars    == <<latest, stdout, thread, oldStdout, printed, page, overlap>>
memoryVars == <<notes, noteFile, memOp, notesRead, noteCount, memCalls, serverKills, kept, disturbed>>
wsVars     == <<listed, connected, sending, events, missed, cutShort>>
apiVars    == <<runVars, memoryVars, wsVars>>

Routes == {"get", "reset"}
Unread == {0}

ApiInit ==
  /\ latest = [says |-> "idle", run |-> "none"] /\ stdout = "terminal"
  /\ thread = [r \in Runs |-> "new"] /\ oldStdout = [r \in Runs |-> "terminal"]
  /\ printed = [r \in Runs |-> {}] /\ page = "idle" /\ overlap = FALSE
  /\ notes = {} /\ noteFile = {} /\ memOp = [t \in Runs \union Routes |-> "none"]
  /\ notesRead = {} /\ noteCount = 0 /\ memCalls = 0 /\ serverKills = 0
  /\ kept = {} /\ disturbed = FALSE
  /\ listed = <<>> /\ connected = {} /\ sending = [r \in Runs |-> <<>>]
  /\ events = 0 /\ missed = {} /\ cutShort = FALSE

-----------------------------------------------------------------------------
(* POST /run.  As a value of sys.stdout, a run stands for its buffer. *)
AtWork == {r \in Runs : thread[r] \notin {"new", "over"}}

Moves(r, from, to) == thread[r] = from /\ thread' = [thread EXCEPT ![r] = to]

PostRun(r) ==
  /\ Moves(r, "new", "saves")
  /\ latest' = [says |-> "running", run |-> r]
  /\ page' = "polling" /\ overlap' = (overlap \/ AtWork # {})
  /\ UNCHANGED <<stdout, oldStdout, printed, memoryVars, wsVars>>

(* _run: stdout is saved, exchanged, put back; then the result is told. *)
SaveStdout(r) ==
  /\ Moves(r, "saves", "swaps")
  /\ oldStdout' = [oldStdout EXCEPT ![r] = stdout]
  /\ UNCHANGED <<latest, stdout, printed, page, overlap, memoryVars, wsVars>>

SwapStdout(r) ==
  /\ Moves(r, "swaps", "works")
  /\ stdout' = r
  /\ UNCHANGED <<latest, oldStdout, printed, page, overlap, memoryVars, wsVars>>

PrintLine(r) ==
  /\ thread[r] = "works"
  /\ printed' = [printed EXCEPT ![r] = @ \union {stdout}]
  /\ UNCHANGED <<latest, stdout, thread, oldStdout, page, overlap, memoryVars, wsVars>>

RestoreStdout(r) ==
  /\ Moves(r, "works", "reports") /\ memOp[r] = "none" /\ sending[r] = <<>>
  /\ stdout' = oldStdout[r]
  /\ UNCHANGED <<latest, oldStdout, printed, page, overlap, memoryVars, wsVars>>

(* Slip: only a run that returns tells its result. *)
ReportsIfReturned(r, says) ==
  /\ Moves(r, "reports", "over")
  /\ latest' = IF says = "error" THEN latest ELSE [says |-> says, run |-> r]
  /\ UNCHANGED <<stdout, oldStdout, printed, page, overlap, memoryVars, wsVars>>

Report(r, says) ==
  /\ Moves(r, "reports", "over")
  /\ latest' = [says |-> says, run |-> r]
  /\ UNCHANGED <<stdout, oldStdout, printed, page, overlap, memoryVars, wsVars>>

(* pollStatus of the dashboard, every second while the status is running. *)
PollStatus ==
  /\ page = "polling"
  /\ page' = IF latest.says = "running" THEN "polling" ELSE "idle"
  /\ UNCHANGED <<latest, stdout, thread, oldStdout, printed, overlap, memoryVars, wsVars>>

-----------------------------------------------------------------------------
(* The memory.  A step of one call while another is in the middle of its   *)
(* own is a disturbance.                                                   *)
Busy(t) == \E u \in DOMAIN memOp : u # t /\ memOp[u] # "none"
MemStep(t, from, to) ==
  /\ memOp[t] = from /\ memOp' = [memOp EXCEPT ![t] = to]
  /\ disturbed' = (disturbed \/ Busy(t))
  /\ UNCHANGED <<runVars, wsVars>>

(* save_memory, by the tool add_note. *)
SaveMemory(r) ==
  /\ thread[r] = "works" /\ noteCount < MaxNotes /\ noteCount' = noteCount + 1
  /\ MemStep(r, "none", "open")
  /\ notes' = notes \union {noteCount'} /\ kept' = kept \union {noteCount'}
  /\ UNCHANGED <<noteFile, notesRead, memCalls, serverKills>>

ResetMemory ==
  /\ memCalls < MaxMemCalls /\ memCalls' = memCalls + 1
  /\ MemStep("reset", "none", "open")
  /\ notes' = {} /\ kept' = {}
  /\ UNCHANGED <<noteFile, notesRead, noteCount, serverKills>>

(* _persist: the file is truncated, then the store of now is written; over *)
(* what another thread has written meanwhile, the longer text shows.       *)
OpenNotes(t) ==
  /\ MemStep(t, "open", "dump")
  /\ noteFile' = Unread
  /\ UNCHANGED <<notes, notesRead, noteCount, memCalls, serverKills, kept>>

DumpNotes(t) ==
  /\ MemStep(t, "dump", "none")
  /\ noteFile' \in {notes} \union IF noteFile \in {Unread, notes} THEN {} ELSE {Unread}
  /\ UNCHANGED <<notes, notesRead, noteCount, memCalls, serverKills, kept>>

(* Slip: the file is read when the module is imported only. *)
LoadedOnce(file) == IF notes = {} THEN file ELSE {}

(* load_all_memory: a file that cannot be parsed counts as empty. *)
LoadedNotes(file) == IF file = Unread THEN {} ELSE file

ReadNotes ==
  /\ memCalls < MaxMemCalls /\ memCalls' = memCalls + 1
  /\ MemStep("get", "none", "assign")
  /\ notesRead' = LoadedNotes(noteFile)
  /\ UNCHANGED <<notes, noteFile, noteCount, serverKills, kept>>

AssignNotes ==
  /\ MemStep("get", "assign", "none")
  /\ notes' = notesRead /\ notesRead' = {}
  /\ UNCHANGED <<noteFile, noteCount, memCalls, serverKills, kept>>

(* The server ends, at whatever step, and starts again: the memory is      *)
(* loaded on import.                                                       *)
RestartServer ==
  /\ serverKills < MaxServerKills /\ serverKills' = serverKills + 1
  /\ notes' = LoadedNotes(noteFile) /\ notesRead' = {}
  /\ memOp' = [t \in Runs \union Routes |-> "none"]
  /\ disturbed' = (disturbed \/ \E t \in Runs \union {"reset"} : memOp[t] # "none")
  /\ thread' = [r \in Runs |-> IF thread[r] = "new" THEN "new" ELSE "over"]
  /\ stdout' = "terminal" /\ latest' = [says |-> "idle", run |-> "none"]
  /\ listed' = <<>> /\ connected' = {} /\ sending' = [r \in Runs |-> <<>>] /\ missed' = {}
  /\ overlap' = FALSE
  /\ UNCHANGED <<oldStdout, printed, page, noteFile, noteCount, memCalls, kept, events, cutShort>>

-----------------------------------------------------------------------------
(* websocket_endpoint. *)
ConnectClient(w) ==
  /\ w \notin connected /\ w \notin missed /\ ~Contains(listed, w)
  /\ connected' = connected \union {w} /\ listed' = Append(listed, w)
  /\ UNCHANGED <<runVars, memoryVars, sending, events, missed, cutShort>>

(* remove() raises for a client that is not listed any more. *)
DisconnectClient(w) ==
  /\ w \in connected
  /\ connected' = connected \ {w} /\ listed' = RemoveFirst(listed, w)
  /\ UNCHANGED <<runVars, memoryVars, sending, events, missed, cutShort>>

(* _ws_broadcast, in the thread of a run that emits: a copy of the list,   *)
(* and client by client.  There is no event loop in that thread:           *)
(* get_event_loop raises and the client is taken off the list, unless it   *)
(* has gone meanwhile; then remove() raises as well and the bus drops the  *)
(* rest of the loop.                                                       *)
EmitToClients(r) ==
  /\ thread[r] = "works" /\ sending[r] = <<>> /\ events < MaxEvents
  /\ events' = events + 1 /\ missed' = missed \union Range(listed)
  /\ sending' = [sending EXCEPT ![r] = listed]
  /\ UNCHANGED <<runVars, memoryVars, listed, connected, cutShort>>

DropClient(r) ==
  /\ sending[r] # <<>>
  /\ LET w == Head(sending[r])
     IN  IF Contains(listed, w)
         THEN /\ listed' = RemoveFirst(listed, w)
              /\ sending' = [sending EXCEPT ![r] = Tail(@)] /\ UNCHANGED cutShort
         ELSE /\ sending' = [sending EXCEPT ![r] = <<>>] /\ cutShort' = TRUE /\ UNCHANGED listed
  /\ UNCHANGED <<runVars, memoryVars, connected, events, missed>>

ThreadNext ==
  \E r \in Runs :
    \/ PostRun(r) \/ SaveStdout(r) \/ SwapStdout(r) \/ RestoreStdout(r)
    \/ \E says \in {"done", "failed", "error"} : Report(r, says)

(* The three uses of the server, each with the threads of the runs. *)
RunNext == ThreadNext \/ PollStatus \/ \E r \in Runs : PrintLine(r)

MemoryNext ==
  \/ ThreadNext \/ RestartServer
  \/ \E r \in Runs : SaveMemory(r)
  \/ \E t \in Runs \union Routes : OpenNotes(t) \/ DumpNotes(t)
  \/ ResetMemory \/ ReadNotes \/ AssignNotes

ClientNext ==
  \/ ThreadNext
  \/ \E w \in Clients : ConnectClient(w) \/ DisconnectClient(w)
  \/ \E r \in Runs : EmitToClients(r) \/ DropClient(r)

ApiSpec == ApiInit /\ [][RunNext \/ MemoryNext \/ ClientNext]_apiVars

-----------------------------------------------------------------------------
(* A status of "running" means that this run is at work: when the last run *)
(* has ended, however its steps and those of the others were interleaved,  *)
(* the status is a result and the dashboard stops polling.                 *)
StatusIsAlive == latest.says = "running" => latest.run \in AtWork

(* Runs one after the other: the output of each is in its own buffer, and  *)
(* the terminal has its stdout back in between.                            *)
OutputIsCaptured ==
  ~overlap => /\ \A r \in Runs : thread[r] \in {"works", "reports"} => printed[r] \subseteq {r}
              /\ AtWork = {} => stdout = "terminal"

(* The notes since the last reset are in the memory and in the file, also  *)
(* after a restart, as long as the calls that use the memory did not meet: *)
(* a GET /memory in the middle of a save empties the memory, and the next  *)
(* save the file.                                                          *)
NotesAreKept ==
  ~disturbed => /\ notes = kept
                /\ (\A t \in DOMAIN memOp : memOp[t] \in {"none", "assign"}) => noteFile = kept

(* A client that is still on the list, while nothing is being forwarded,   *)
(* has missed no event, and the list names nobody twice, unless a client   *)
(* that left in the middle made a forwarding stop short.                   *)
ListIsHonest ==
  /\ ~cutShort /\ (\A r \in Runs : sending[r] = <<>>) => Range(listed) \intersect missed = {}
  /\ \A i, j \in DOMAIN listed : listed[i] = listed[j] => i = j

ApiIsSound == StatusIsAlive /\ OutputIsCaptured /\ NotesAreKept /\ ListIsHonest
=============================================================================
