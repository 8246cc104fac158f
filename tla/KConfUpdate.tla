------------------------------ MODULE KConfUpdate ------------------------------
(***************************************************************************)
(* kconf_update (src/kconf_update/kconf_update.cpp): each update file has  *)
(* groups with an id and scripts; kconf_updaterc keeps, per update file,   *)
(* when the file was changed last and the ids that were done.              *)
(*                                                                         *)
(* The tool runs at every login for all files that changed, and            *)
(* KConfig::checkUpdate() runs it for one file, perhaps at the same time.  *)
(* Packages are upgraded and processes die at any point.  What a sync of   *)
(* kconf_updaterc does is in KConfigSync; here it stores one key.          *)
(***************************************************************************)
EXTENDS Naturals, Sequences, FiniteSets

CONSTANTS
    Sessions,    \* processes of kconf_update that logins start
    Helpers,     \* processes that programs start with checkUpdate(), or developers
    Files,       \* the sequence of the names of the update files
    Ids,         \* ids of update groups
    Scripts,     \* names of scripts
    Contents,    \* what may be shipped for each file: sequences of lines
    Outcomes,    \* how a script may end
    Modes,       \* the other ways the tool is started
    MaxInstalls, \* bound: upgrades of update files
    MaxKills,    \* bound: processes that die
    None         \* no id, no file

Procs == Sessions \cup Helpers

Names == {Files[n] : n \in DOMAIN Files}

\* A line that matters: the version, the id of the group that begins, or a script to run.
Line ==
    [kind : {"Version"}, good : BOOLEAN] \cup [kind : {"Id"}, id : Ids]
        \cup [kind : {"Script"}, script : Scripts]

ASSUME UpdateAssumption ==
    /\ \A f \in Names : Contents[f] \subseteq Seq(Line)
    /\ Outcomes \subseteq {"success", "error", "timeout", "missing"}
    /\ Modes \subseteq {"file", "check", "test"}
    /\ MaxInstalls \in Nat /\ MaxKills \in Nat
    /\ None \notin Ids \cup Names

VARIABLES
    installed,  \* the update files: lines, and the time of the last change (0: no such file)
    updaterc,   \* kconf_updaterc: mtime (0: never seen) and done of each file
    tool,       \* the processes
    installs,   \* upgrades so far
    kills,      \* processes that died so far
    finished,   \* scripts that came to an end, with their files and groups (history)
    troubled,   \* groups a script of which did not run to an end (history)
    overtaken   \* files that were recorded as seen though a newer one was there (history)

history == <<installs, kills, finished, troubled, overtaken>>
updateVars == <<installed, updaterc, tool, history>>

\* A running KonfUpdate has its mode; kconf_updaterc as it was read (config), the files to go
\* through (todo), the open one (m_currentFilename) with the lines that are left, m_skip and m_id,
\* whether the file told a version, and whether updaterc was flushed; and (history) when the file
\* was changed and the group the lines belong to.
Off == [mode |-> "off"]

Running(p) == tool[p].mode # "off"

UpdateInit ==
    /\ installed = [f \in Names |-> [lines |-> <<>>, mtime |-> 0]]
    /\ updaterc = [f \in Names |-> [mtime |-> 0, done |-> {}]]
    /\ tool = [p \in Procs |-> Off]
    /\ installs = 0 /\ kills = 0
    /\ finished = {} /\ troubled = {} /\ overtaken = {}

SetTool(p, t) == tool' = [tool EXCEPT ![p] = t]

-----------------------------------------------------------------------------
(* Starting *)

\* Mutant: a file is not looked at again when it was changed.
IsNew(config, f) ==
    installed[f].mtime # 0 /\ (config[f].mtime = 0 \/ config[f].done = {})

\* findUpdateFiles(true): the files that were changed, and those of which nothing was done.
IsDirty(config, f) ==
    /\ installed[f].mtime # 0
    /\ \/ config[f].mtime # installed[f].mtime
       \/ config[f].mtime # 0 /\ config[f].done = {}

FindUpdateFiles(config) == {f \in Names : IsDirty(config, f)}

\* The constructor goes through its files, and that is all the tool does.
Goes(t) == IF t.todo = {} THEN Off ELSE t

\* All files that changed, or the one on the command line.
Start(p, mode, todo) ==
    /\ ~Running(p) /\ todo # {}
    /\ SetTool(p, [mode |-> mode, config |-> updaterc, todo |-> todo,
                   m_currentFilename |-> None, lines |-> <<>>, flushed |-> FALSE,
                   foundVersion |-> FALSE, m_skip |-> FALSE, m_id |-> None,
                   opened |-> 0, group |-> None])
    /\ UNCHANGED <<installed, updaterc, history>>

Login(p) == Start(p, "all", FindUpdateFiles(updaterc))

CommandLine(p) ==
    \E mode \in Modes, f \in Names : Start(p, mode, {f})

-----------------------------------------------------------------------------
(* updateFile() *)

Reading(t) == t.m_currentFilename # None

\* The files are taken in their order.
IsNext(f, todo) ==
    \E n \in DOMAIN Files : Files[n] = f /\ \A m \in DOMAIN Files : m < n => Files[m] \notin todo

\* A file that is not there is left out.  m_skip and m_id stay as the file before left them.
OpenFile(p) ==
    LET t == tool[p]
    IN  /\ Running(p) /\ ~Reading(t)
        /\ \E f \in t.todo :
              /\ IsNext(f, t.todo)
              /\ SetTool(p, IF installed[f].mtime = 0 THEN Goes([t EXCEPT !.todo = @ \ {f}])
                            ELSE [t EXCEPT !.todo = @ \ {f}, !.m_currentFilename = f,
                                           !.lines = installed[f].lines, !.flushed = FALSE,
                                           !.foundVersion = FALSE,
                                           !.opened = installed[f].mtime, !.group = None])
        /\ UNCHANGED <<installed, updaterc, history>>

CloseFile(t) ==
    Goes([t EXCEPT !.m_currentFilename = None, !.lines = <<>>, !.foundVersion = FALSE,
                   !.opened = 0, !.group = None])

NextLine(t) == [t EXCEPT !.lines = Tail(@)]

AtLine(p, kind) ==
    /\ Running(p) /\ Reading(tool[p]) /\ tool[p].lines # <<>>
    /\ Head(tool[p].lines).kind = kind

\* Another version than 6 ends the file at once, without a trace in kconf_updaterc.
ReadVersion(p) ==
    /\ AtLine(p, "Version")
    /\ SetTool(p, IF Head(tool[p].lines).good
                  THEN [NextLine(tool[p]) EXCEPT !.foundVersion = TRUE] ELSE CloseFile(tool[p]))
    /\ UNCHANGED <<installed, updaterc, history>>

-----------------------------------------------------------------------------
(* gotId() *)

\* The tool's own kconf_updaterc with the group before counted as done.
WithDone(t) == [t EXCEPT !.config[t.m_currentFilename].done = @ \cup {t.m_id}]

\* Mutant: a group that was given up counts as done.
HasDoneSkipped(t) == t.m_id # None /\ t.mode # "test"

HasDone(t) == t.m_id # None /\ ~t.m_skip /\ t.mode # "test"

\* "Remember that the last update group has been done": in memory, and with a sync.
Remembered(t) == IF HasDone(t) THEN WithDone(t) ELSE t

SyncDone(t) ==
    updaterc' = IF Remembered(t) = t THEN updaterc
                ELSE [updaterc EXCEPT ![t.m_currentFilename].done =
                          WithDone(t).config[t.m_currentFilename].done]

\* Mutant: skipping goes on with the next group.
BeginGroupSkipping(t, id) ==
    IF id \in t.config[t.m_currentFilename].done /\ t.mode # "check"
    THEN [t EXCEPT !.m_skip = TRUE] ELSE [t EXCEPT !.m_id = id]

\* The new group: skipped when it was done, unless the tool is to check the file.
BeginGroup(t, id) ==
    IF id \in t.config[t.m_currentFilename].done /\ t.mode # "check"
    THEN [t EXCEPT !.m_skip = TRUE] ELSE [t EXCEPT !.m_skip = FALSE, !.m_id = id]

\* Without a version before it an id ends the file, which counts as seen.
ReadId(p) ==
    LET t == tool[p]
        id == Head(t.lines).id
    IN  /\ AtLine(p, "Id")
        /\ IF t.foundVersion
           THEN /\ SyncDone(t)
                /\ SetTool(p, [BeginGroup(Remembered(NextLine(t)), id) EXCEPT !.group = id])
           ELSE SetTool(p, [t EXCEPT !.lines = <<>>]) /\ UNCHANGED updaterc
        /\ UNCHANGED <<installed, history>>

-----------------------------------------------------------------------------
(* gotScript() *)

SkipScript(p) ==
    /\ AtLine(p, "Script") /\ tool[p].m_skip
    /\ SetTool(p, NextLine(tool[p]))
    /\ UNCHANGED <<installed, updaterc, history>>

Ended(outcome) == outcome \in {"success", "error"}

\* A script that is missing or takes too long has the rest of its group skipped; one that fails
\* does not.
RunScript(p, outcome) ==
    LET t == tool[p]
        where == <<t.m_currentFilename, t.group>>
    IN  /\ AtLine(p, "Script") /\ ~t.m_skip
        /\ SetTool(p, [NextLine(t) EXCEPT !.m_skip = ~Ended(outcome)])
        /\ finished' = IF Ended(outcome)
                       THEN finished \cup {<<where[1], where[2], Head(t.lines).script>>}
                       ELSE finished
        /\ troubled' = IF Ended(outcome) THEN troubled ELSE troubled \cup {where}
        /\ UNCHANGED <<installed, updaterc, installs, kills, overtaken>>

-----------------------------------------------------------------------------
(* The end of a file *)

AtEnd(p) == Running(p) /\ Reading(tool[p]) /\ tool[p].lines = <<>>

\* "Flush": the last group of the file.
Flush(p) ==
    /\ AtEnd(p) /\ ~tool[p].flushed
    /\ SyncDone(tool[p])
    /\ SetTool(p, [Remembered(tool[p]) EXCEPT !.flushed = TRUE])
    /\ UNCHANGED <<installed, history>>

\* "Remember that this file was updated": the time is that of the file that is there by now.
RecordFile(p) ==
    LET t == tool[p]
        f == t.m_currentFilename
        records == t.mode # "test"
    IN  /\ AtEnd(p) /\ t.flushed
        /\ SetTool(p, CloseFile(IF records THEN [t EXCEPT !.config[f].mtime = installed[f].mtime]
                            ELSE t))
        /\ updaterc' = IF records THEN [updaterc EXCEPT ![f].mtime = installed[f].mtime]
                       ELSE updaterc
        /\ overtaken' = IF ~records THEN overtaken
                        ELSE IF installed[f].mtime = t.opened THEN overtaken \ {f}
                        ELSE overtaken \cup {f}
        /\ UNCHANGED <<installed, installs, kills, finished, troubled>>

-----------------------------------------------------------------------------
(* The world *)

\* A package brings a new version of an update file.
Install(f, content) ==
    /\ installs < MaxInstalls /\ installs' = installs + 1
    /\ installed' = [installed EXCEPT ![f] = [lines |-> content, mtime |-> installs + 1]]
    /\ overtaken' = overtaken \ {f}
    /\ UNCHANGED <<updaterc, tool, kills, finished, troubled>>

Kill(p) ==
    /\ Running(p)
    /\ kills < MaxKills /\ kills' = kills + 1
    /\ SetTool(p, Off)
    /\ UNCHANGED <<installed, updaterc, installs, finished, troubled, overtaken>>

Step(p) ==
    \/ OpenFile(p) \/ ReadVersion(p) \/ ReadId(p) \/ SkipScript(p)
    \/ \E outcome \in Outcomes : RunScript(p, outcome)
    \/ Flush(p) \/ RecordFile(p)

UpdateNext ==
    \/ \E p \in Sessions : Login(p)
    \/ \E p \in Helpers : CommandLine(p)
    \/ \E p \in Procs : Step(p) \/ Kill(p)
    \/ \E f \in Names : \E content \in Contents[f] : Install(f, content)

\* A process that runs goes on, and the user logs in again and again.
Fairness ==
    /\ \A p \in Procs : WF_updateVars(Step(p))
    /\ \A p \in Sessions : WF_updateVars(Login(p))

UpdateSpec == UpdateInit /\ [][UpdateNext]_updateVars /\ Fairness

-----------------------------------------------------------------------------
(* Safety *)

LinesOf(content, kind) == {n \in DOMAIN content : content[n].kind = kind}

\* The ids a version 6 file has, up to the first that no version stands before, and the scripts of
\* the group of an id.
IdsOf(content) ==
    {content[n].id : n \in {n \in LinesOf(content, "Id") :
        /\ \A k \in LinesOf(content, "Id") :
              k <= n => \E m \in LinesOf(content, "Version") : m < k
        /\ \A m \in LinesOf(content, "Version") : m < n => content[m].good}}

ScriptsOf(content, id) ==
    {content[n].script : n \in {n \in LinesOf(content, "Script") :
        \E m \in LinesOf(content, "Id") :
            /\ content[m].id = id /\ m < n
            /\ \A k \in LinesOf(content, "Id") : ~(m < k /\ k < n)}}

AllFinished(f, content, id) ==
    \A s \in ScriptsOf(content, id) : <<f, id, s>> \in finished

\* Only what has been done is recorded as done: all scripts of the group, as some package has it,
\* came to an end, whichever processes ran at the same time, died or gave up a script.
DoneWasRun ==
    \A f \in Names : \A id \in updaterc[f].done :
        (\E content \in Contents[f] : id \in IdsOf(content))
            => \E content \in Contents[f] : id \in IdsOf(content) /\ AllFinished(f, content, id)

\* No update is forgotten: a file that is not looked at at the next login has nothing left to do
\* but what had trouble, or what came while the file before was worked at.
NothingForgotten ==
    \A f \in Names \ overtaken :
        installed[f].mtime # 0 /\ updaterc[f].mtime = installed[f].mtime
            => \A id \in IdsOf(installed[f].lines) :
                   \/ AllFinished(f, installed[f].lines, id)
                   \/ <<f, id>> \in troubled

-----------------------------------------------------------------------------
(* Liveness *)

\* When no more packages come, all that they brought is done in the end or had trouble, although
\* processes died in between and others worked at the same file, unless a file was replaced while
\* it was worked at or is not understood.
UpdatesRun ==
    <>[](\A f \in Names \ overtaken : \A id \in IdsOf(installed[f].lines) :
            AllFinished(f, installed[f].lines, id) \/ <<f, id>> \in troubled)
=============================================================================
