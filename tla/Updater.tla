------------------------------- MODULE Updater -------------------------------
(***************************************************************************)
(* The updater of the terminal program (openvs/core/updater.py), called at *)
(* startup (openvs/ui/app.py) and by /update (openvs/core/commands.py).    *)
(* The package index and pip are external: what is published grows, and a  *)
(* call of either may fail.  Time is in check intervals (24 hours).        *)
(***************************************************************************)
EXTENDS Naturals, Sequences

CONSTANTS
  Versions,       \* what is published, one after the other; a version is the
                  \* sequence of its numbers, <<>> one with a letter in it
  NoUpdateFile, TornUpdateFile,
  MaxUpdateActs,  \* bound: starts and commands
  LastInterval    \* bound: time

Channels == {"stable", "beta", "nightly"}

(* What update_config.json may hold. *)
UpdateFiles == [channel : Channels, auto : BOOLEAN, lastCheck : Nat, seen : Nat]

ASSUME UpdaterAssumption ==
  /\ Versions \in Seq(Seq(Nat)) /\ Len(Versions) > 0 /\ MaxUpdateActs \in Nat /\ LastInterval \in Nat
  /\ NoUpdateFile # TornUpdateFile /\ {NoUpdateFile, TornUpdateFile} \intersect UpdateFiles = {}

VARIABLES
  updateFile,  \* update_config.json
  unsaved,     \* the configuration being written, or NoUpdateFile
  published,   \* place in Versions of what the index tells
  installed,   \* of what is on disk
  running,     \* of __version__ in updater.py
  terminal,    \* off, starting or on
  lastAnswer,  \* the last call's answer: a status, and of which version
  interval, updateActs,
  chosen,      \* history: the channel the user chose last
  announced,   \* history: versions the user was told to be available
  asked,       \* history: intervals in which a start asked the index
  askedAgain,  \* history: two starts asked in one interval
  spoilt       \* history: the program was killed while it wrote the file

fileOfUpdates == <<updateFile, unsaved>>
updateHistory == <<chosen, announced, asked, askedAgain, spoilt>>
updateVars == <<fileOfUpdates, published, installed, running, terminal, lastAnswer,
                interval, updateActs, updateHistory>>

(* auto_check is for the user to write. *)
UpdaterInit ==
  /\ updateFile \in {NoUpdateFile, [channel |-> "stable", auto |-> FALSE, lastCheck |-> 0, seen |-> 1]}
  /\ unsaved = NoUpdateFile
  /\ published = 1 /\ installed = 1 /\ running = 1
  /\ terminal = "off" /\ lastAnswer = [status |-> "none", of |-> 0]
  /\ interval = 1 /\ updateActs = 0
  /\ chosen = "stable" /\ announced = {} /\ asked = {} /\ askedAgain = FALSE /\ spoilt = FALSE

-----------------------------------------------------------------------------
(* get_update_config: a file that cannot be read counts as missing. *)
UpdateConfig ==
  IF updateFile \in {NoUpdateFile, TornUpdateFile}
  THEN [channel |-> "stable", auto |-> TRUE, lastCheck |-> 0, seen |-> running]
  ELSE updateFile

(* _version_is_newer: the numbers are compared as Python compares lists,   *)
(* and what cannot be parsed counts as 0.                                  *)
Parsed(v) == IF Versions[v] = <<>> THEN <<0>> ELSE Versions[v]

IsNewer(remote, local) ==
  LET r == Parsed(remote)
      l == Parsed(local)
  IN  \E k \in 1..Len(r) :
        /\ \A j \in 1..(k - 1) : j <= Len(l) /\ r[j] = l[j]
        /\ k > Len(l) \/ r[k] > l[k]

(* What the index publishes is newer than all before it. *)
ASSUME PublishedGrows ==
  \A u, v \in 1..Len(Versions) : u < v /\ Versions[v] # <<>> => IsNewer(v, u)

(* The caller has the config in hand and no file is being written. *)
UpdateCall == unsaved = NoUpdateFile /\ updateActs < MaxUpdateActs /\ updateActs' = updateActs + 1

Tell(status, v) ==
  /\ lastAnswer' = [status |-> status, of |-> v]
  /\ announced' = IF status = "update_available" THEN announced \union {v} ELSE announced

(* Slip: the defaults are saved with the check. *)
CheckedDefaults(v) == [channel |-> "stable", auto |-> TRUE, lastCheck |-> interval, seen |-> v]

(* The configuration that a check leaves. *)
Checked(v) == [UpdateConfig EXCEPT !.lastCheck = interval, !.seen = v]

(* check_for_update when it asks: what the index answers is saved and      *)
(* told; when it does not answer, the time of the check is saved.          *)
AskIndex ==
  \/ /\ unsaved' = Checked(published)
     /\ Tell(IF IsNewer(published, running) THEN "update_available" ELSE "up_to_date", published)
  \/ unsaved' = Checked(UpdateConfig.seen) /\ Tell("check_failed", 0)

-----------------------------------------------------------------------------
Launch ==
  /\ terminal = "off" /\ UpdateCall
  /\ terminal' = "starting" /\ running' = installed
  /\ UNCHANGED <<fileOfUpdates, published, installed, lastAnswer, interval, updateHistory>>

(* startup_check: unless switched off, or checked recently. *)
StartupAsks == UpdateConfig.auto /\ interval > UpdateConfig.lastCheck

StartupCheck ==
  /\ terminal = "starting" /\ terminal' = "on"
  /\ IF StartupAsks
     THEN /\ AskIndex
          /\ asked' = asked \union {interval}
          /\ askedAgain' = (askedAgain \/ interval \in asked)
     ELSE Tell("none", 0) /\ UNCHANGED <<unsaved, asked, askedAgain>>
  /\ UNCHANGED <<updateFile, published, installed, running, interval, updateActs, chosen, spoilt>>

(* /update and /update check: forced. *)
UpdateCheck ==
  /\ terminal = "on" /\ UpdateCall
  /\ AskIndex
  /\ UNCHANGED <<updateFile, published, installed, running, terminal, interval,
                 chosen, asked, askedAgain, spoilt>>

(* /update now: pip installs what is published, or fails or runs out of    *)
(* time; openvs is loaded anew, the name in updater.py is not.             *)
PerformUpdate ==
  /\ terminal = "on" /\ UpdateCall
  /\ \/ installed' = published /\ Tell("updated", published)
     \/ Tell("update_failed", 0) /\ UNCHANGED installed
  /\ UNCHANGED <<fileOfUpdates, published, running, terminal, interval,
                 chosen, asked, askedAgain, spoilt>>

(* /update channel, with one of the three. *)
SetChannel(c) ==
  /\ terminal = "on" /\ UpdateCall
  /\ unsaved' = [UpdateConfig EXCEPT !.channel = c] /\ chosen' = c
  /\ Tell("ok", 0)
  /\ UNCHANGED <<updateFile, published, installed, running, terminal, interval,
                 asked, askedAgain, spoilt>>

(* save_update_config: the file is empty until it is closed ... *)
SaveUpdateFile ==
  /\ unsaved # NoUpdateFile
  /\ updateFile' = unsaved /\ unsaved' = NoUpdateFile
  /\ UNCHANGED <<published, installed, running, terminal, lastAnswer, interval, updateActs, updateHistory>>

(* ... and stays so when the program is killed before; or it just ends.    *)
EndTerminal ==
  /\ terminal = "on" /\ terminal' = "off"
  /\ updateFile' = IF unsaved = NoUpdateFile THEN updateFile ELSE TornUpdateFile
  /\ spoilt' = (spoilt \/ unsaved # NoUpdateFile) /\ unsaved' = NoUpdateFile
  /\ UNCHANGED <<published, installed, running, lastAnswer, interval, updateActs,
                 chosen, announced, asked, askedAgain>>

Publish ==
  /\ published < Len(Versions) /\ published' = published + 1
  /\ UNCHANGED <<fileOfUpdates, installed, running, terminal, lastAnswer, interval, updateActs, updateHistory>>

IntervalPasses ==
  /\ interval < LastInterval /\ interval' = interval + 1
  /\ UNCHANGED <<fileOfUpdates, published, installed, running, terminal, lastAnswer, updateActs, updateHistory>>

UpdaterNext ==
  \/ Launch \/ StartupCheck \/ UpdateCheck \/ PerformUpdate
  \/ \E c \in Channels : SetChannel(c)
  \/ SaveUpdateFile \/ EndTerminal \/ Publish \/ IntervalPasses

UpdaterSpec == UpdaterInit /\ [][UpdaterNext]_updateVars

-----------------------------------------------------------------------------
(* The channel is the one that was chosen, whatever checks have been saved *)
(* since, unless the program was killed while it saved.                    *)
ChannelIsKept == ~spoilt /\ unsaved = NoUpdateFile => UpdateConfig.channel = chosen

(* A check that is skipped because there was one lately says that all is   *)
(* up to date.  That hides nothing from the user for ever: a version it    *)
(* has seen and that is newer than the running one was announced then.  A  *)
(* running version with a letter in it is older than any, and left out.    *)
SeenIsAnnounced ==
  Versions[running] # <<>> /\ IsNewer(UpdateConfig.seen, running) => UpdateConfig.seen \in announced

(* The silent check asks the index once in an interval, however often the  *)
(* program starts and whether or not the index answers.                    *)
AsksOncePerInterval == ~spoilt => ~askedAgain

UpdatesAreSound == ChannelIsKept /\ SeenIsAnnounced /\ AsksOncePerInterval
=============================================================================
