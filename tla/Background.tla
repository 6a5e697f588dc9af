----------------------------- MODULE Background -----------------------------
(***************************************************************************)
(* Work that outlives the tool call that started it: named shell sessions  *)
(* (agent/tools/sandbox/shell_exec.py, shell_tools.py) with the artifacts  *)
(* they leave (artifact_detection.py), and delayed notifications           *)
(* (agent/tools/local/background_tasks.py).                                *)
(*                                                                         *)
(* An agent makes one such call at a time; the processes run on between    *)
(* the commands that a call executes in the sandbox.  shell_view changes   *)
(* nothing and is left out.                                                *)
(***************************************************************************)
EXTENDS Integers, FiniteSets

CONSTANTS
    Shells,         \* names of sessions
    MaxProcs,       \* background commands; a bound
    Files,          \* files a command may write
    Uploaded,       \* those of them under the directory of the staged skills
    ExitCodes,
    Notices

Procs == 1..MaxProcs
Foreground == "foreground"              \* the marker of a call, which is no session's
Markers == Shells \cup {Foreground}
NoCode == -1

ASSUME BackgroundAssumption ==
    /\ MaxProcs \in Nat /\ Foreground \notin Shells
    /\ ExitCodes \subseteq 0..255

Waiting == {"blocked", "running", "finishing"}      \* what kill -0 finds

VARIABLES
    proc,       \* the processes: session, state and exit code
    dir,        \* the directory of a session: pid, exit_code and artifact_paths
    since,      \* files written since a marker was touched
    written,    \* files that exist
    wrote,      \* what each process has written
    overlapped, \* processes started while another of their session was alive
    tool,       \* the call under way
    report,     \* what the last shell_wait or foreground command has told
    notice,     \* status of a ScheduledTask
    told,       \* the status in which its message was sent
    revoking  \* notices whose cancel() awaits the task

shellVars == <<proc, dir, since, written, wrote, overlapped, tool, report>>
noticeVars == <<notice, told, revoking>>
backgroundVars == <<shellVars, noticeVars>>
fileVars == <<since, written, wrote>>

-----------------------------------------------------------------------------
NoTool == [op |-> "none", shell |-> Foreground, pid |-> 0, code |-> NoCode]
NoReport == [pid |-> 0, code |-> NoCode, named |-> FALSE, paths |-> {}]

Alive(p) == proc[p].state \in Waiting
Unused == {p \in Procs : proc[p].state = "none"}
Idle == tool = NoTool
Busy(op) == tool.op = op
Turns(p, state) == proc' = [proc EXCEPT ![p].state = state]

\* _filter_auto_detected_paths: staged files only from a command run among them.
Detected(found, inSkill) == IF inSkill THEN found ELSE found \ Uploaded

\* build_artifact_paths; resolve_artifact_paths drops explicit ones that do not exist.
Built(explicit, found) == IF explicit # {} THEN explicit ELSE Detected(found, FALSE)
PathsKnown(explicit, found) == Built(explicit \cap written, found)

-----------------------------------------------------------------------------
(* shell_exec *)

\* The script empties the manifest and touches the marker, but leaves an exit_code of an
\* earlier command; the command waits for a first writer of its stdin.
StartShell(s, explicit) ==
    /\ Idle /\ Unused # {}
    /\ LET p == CHOOSE p \in Unused : \A q \in Unused : p <= q
       IN  /\ proc' = [proc EXCEPT ![p] = [shell |-> s, state |-> "blocked", code |-> NoCode]]
           /\ dir' = [dir EXCEPT ![s] = [pid |-> p, code |-> @.code, explicit |-> explicit]]
           /\ overlapped' = IF \E q \in Procs : proc[q].shell = s /\ Alive(q)
                            THEN overlapped \cup {p} ELSE overlapped
    /\ since' = [since EXCEPT ![s] = {}]
    /\ UNCHANGED <<written, wrote, tool, report, noticeVars>>

\* A foreground command, from its marker to its artifacts.
Execute ==
    /\ Idle
    /\ tool' = [NoTool EXCEPT !.op = "exec"]
    /\ since' = [since EXCEPT ![Foreground] = {}]
    /\ UNCHANGED <<proc, dir, written, wrote, overlapped, report, noticeVars>>

ExecuteEnds(explicit) ==
    /\ Busy("exec")
    /\ tool' = NoTool
    /\ report' = [NoReport EXCEPT !.paths = PathsKnown(explicit, since[Foreground])]
    /\ UNCHANGED <<proc, dir, fileVars, overlapped, noticeVars>>

Writes(f) ==
    /\ written' = written \cup {f}
    /\ since' = [m \in Markers |-> since[m] \cup {f}]

ExecuteWrites(f) ==
    /\ Busy("exec") /\ Writes(f)
    /\ UNCHANGED <<proc, dir, wrote, overlapped, tool, report, noticeVars>>

-----------------------------------------------------------------------------
(* The processes *)

ProcessWrites(p, f) ==
    /\ proc[p].state = "running" /\ Writes(f)
    /\ wrote' = [wrote EXCEPT ![p] = @ \cup {f}]
    /\ UNCHANGED <<proc, dir, overlapped, tool, report, noticeVars>>

\* Mutant: the exit code is recorded after a success only.
MutantRecords(p, code) == IF code = 0 THEN code ELSE dir[proc[p].shell].code

\* echo $? > exit_code, in the directory of the session whoever it belongs to by now
Records(p, code) == code

Finishes(p, code) ==
    /\ proc[p].state = "running"
    /\ proc' = [proc EXCEPT ![p].state = "finishing", ![p].code = code]
    /\ dir' = [dir EXCEPT ![proc[p].shell].code = Records(p, code)]
    /\ UNCHANGED <<fileVars, overlapped, tool, report, noticeVars>>

\* The command itself says exit: its shell is the wrapper's, which records nothing.
Quits(p, code) ==
    /\ proc[p].state = "running"
    /\ proc' = [proc EXCEPT ![p].state = "quit", ![p].code = code]
    /\ UNCHANGED <<dir, fileVars, overlapped, tool, report, noticeVars>>

Exits(p) ==
    /\ proc[p].state = "finishing" /\ Turns(p, "exited")
    /\ UNCHANGED <<dir, fileVars, overlapped, tool, report, noticeVars>>

-----------------------------------------------------------------------------
(* shell_wait, shell_write, shell_kill *)

\* _read_pid; shell_write and shell_kill also ask whether it runs.
Looks(s, op) ==
    /\ Idle /\ dir[s].pid # 0
    /\ op \in {"write", "kill"} => Alive(dir[s].pid)
    /\ tool' = [op |-> op, shell |-> s, pid |-> dir[s].pid, code |-> NoCode]
    /\ UNCHANGED <<proc, dir, fileVars, overlapped, report, noticeVars>>

WaitTimesOut ==
    /\ Busy("wait") /\ Alive(tool.pid)
    /\ tool' = NoTool
    /\ UNCHANGED <<proc, dir, fileVars, overlapped, report, noticeVars>>

\* Without the file the exit code is 0.
WaitReadsCode ==
    /\ Busy("wait") /\ ~Alive(tool.pid)
    /\ tool' = [tool EXCEPT !.op = "collect",
                            !.code = IF dir[tool.shell].code = NoCode THEN 0 ELSE dir[tool.shell].code]
    /\ UNCHANGED <<proc, dir, fileVars, overlapped, report, noticeVars>>

WaitReturns ==
    /\ Busy("collect")
    /\ report' = [pid |-> tool.pid, code |-> tool.code, named |-> dir[tool.shell].explicit # {},
                  paths |-> Built(dir[tool.shell].explicit, since[tool.shell])]
    /\ tool' = NoTool
    /\ UNCHANGED <<proc, dir, fileVars, overlapped, noticeVars>>

\* A writer of the pipe lets every command of the session start that waits for one.
WriteInput ==
    /\ Busy("write")
    /\ proc' = [p \in Procs |-> IF proc[p].shell = tool.shell /\ proc[p].state = "blocked"
                                THEN [proc[p] EXCEPT !.state = "running"] ELSE proc[p]]
    /\ tool' = NoTool
    /\ UNCHANGED <<dir, fileVars, overlapped, report, noticeVars>>

\* A signal may be ignored; it kills the wrapper, which then records no exit code.
Signal ==
    /\ Busy("kill")
    /\ \/ Alive(tool.pid) /\ Turns(tool.pid, "killed")
       \/ UNCHANGED proc
    /\ tool' = NoTool
    /\ UNCHANGED <<dir, fileVars, overlapped, report, noticeVars>>

-----------------------------------------------------------------------------
(* BackgroundTaskManager *)

Sets(n, status) == notice' = [notice EXCEPT ![n] = status]

Schedule(n) ==
    /\ notice[n] = "none" /\ Sets(n, "scheduled")
    /\ UNCHANGED <<told, revoking, shellVars>>

Fires(n) ==
    /\ notice[n] = "scheduled" /\ n \notin revoking /\ Sets(n, "running")
    /\ UNCHANGED <<told, revoking, shellVars>>

\* The subscribers have the message; emit may still be cancelled, or fail for one of them.
Tells(n) ==
    /\ notice[n] = "running" /\ told[n] = {}
    /\ told' = [told EXCEPT ![n] = @ \cup {notice[n]}]
    /\ UNCHANGED <<notice, revoking, shellVars>>

Completes(n) ==
    /\ notice[n] = "running" /\ told[n] # {} /\ n \notin revoking /\ Sets(n, "completed")
    /\ UNCHANGED <<told, revoking, shellVars>>

Fails(n) ==
    /\ notice[n] = "running" /\ n \notin revoking /\ Sets(n, "failed")
    /\ UNCHANGED <<told, revoking, shellVars>>

\* cancel() awaits a task that is not done.
CancelNotice(n) ==
    /\ notice[n] \in {"scheduled", "running"}
    /\ revoking' = revoking \cup {n}
    /\ UNCHANGED <<notice, told, shellVars>>

CancelReturns(n) ==
    /\ n \in revoking
    /\ revoking' = revoking \ {n}
    /\ Sets(n, "cancelled")
    /\ UNCHANGED <<told, shellVars>>

\* replay() sends the message of a completed notice once more.
Replay(n) ==
    /\ notice[n] = "completed"
    /\ told' = [told EXCEPT ![n] = @ \cup {"completed"}]
    /\ UNCHANGED <<notice, revoking, shellVars>>

-----------------------------------------------------------------------------
BackgroundInit ==
    /\ proc = [p \in Procs |-> [shell |-> Foreground, state |-> "none", code |-> NoCode]]
    /\ dir = [s \in Shells |-> [pid |-> 0, code |-> NoCode, explicit |-> {}]]
    /\ since = [m \in Markers |-> {}] /\ written = {} /\ wrote = [p \in Procs |-> {}]
    /\ overlapped = {} /\ tool = NoTool /\ report = NoReport
    /\ notice = [n \in Notices |-> "none"] /\ told = [n \in Notices |-> {}] /\ revoking = {}

ShellTool ==
    \/ \E s \in Shells, explicit \in SUBSET Files : StartShell(s, explicit)
    \/ Execute \/ \E explicit \in SUBSET Files : ExecuteEnds(explicit)
    \/ \E s \in Shells, op \in {"wait", "write", "kill"} : Looks(s, op)
    \/ WaitTimesOut \/ WaitReadsCode \/ WaitReturns \/ WriteInput \/ Signal

ShellProcess ==
    \/ \E f \in Files : ExecuteWrites(f) \/ \E p \in Procs : ProcessWrites(p, f)
    \/ \E p \in Procs : Exits(p) \/ \E code \in ExitCodes : Finishes(p, code) \/ Quits(p, code)

NoticeStep(n) == \/ Schedule(n) \/ Fires(n) \/ Tells(n) \/ Completes(n) \/ Fails(n)
                 \/ CancelNotice(n) \/ CancelReturns(n) \/ Replay(n)

BackgroundNext == ShellTool \/ ShellProcess \/ \E n \in Notices : NoticeStep(n)

BackgroundSpec == BackgroundInit /\ [][BackgroundNext]_backgroundVars

-----------------------------------------------------------------------------
\* The values of the variables.
BackgroundTypeOK ==
    /\ proc \in [Procs -> [shell : Markers, code : ExitCodes \cup {NoCode},
                           state : Waiting \cup {"none", "exited", "quit", "killed"}]]
    /\ dir \in [Shells -> [pid : 0..MaxProcs, code : ExitCodes \cup {NoCode}, explicit : SUBSET Files]]
    /\ since \in [Markers -> SUBSET Files] /\ written \subseteq Files
    /\ wrote \in [Procs -> SUBSET Files] /\ overlapped \subseteq Procs
    /\ revoking \subseteq Notices

\* shell_wait tells the exit code of a command that ran to its end, and, if none were named,
\* all the files it has written, unless the name was taken over while another command of
\* that session was alive.  It says nothing true of the code of a command that was killed or
\* that said exit.
WaitTruthful ==
    LET p == report.pid IN
    p # 0 /\ p \notin overlapped =>
        /\ proc[p].state = "exited" => report.code = proc[p].code
        /\ report.named \/ wrote[p] \ Uploaded \subseteq report.paths

\* After cancel() has returned no message is sent, and none before the notice is due.
NoticesTruthful == \A n \in Notices : told[n] \subseteq {"running", "completed"}

\* What outlives its call is told as it was, however its steps and the calls interleave.
ToldTruthfully == WaitTruthful /\ NoticesTruthful
=============================================================================
