------------------------------- MODULE LogTee -------------------------------
(***************************************************************************)
(* How a command's lines reach its log (internal/logx/logx.go).  Setup puts *)
(* a pipe behind os.Stderr that a goroutine drains into the log file and,   *)
(* when LOG_MIRROR_STDERR is set, the terminal; the publisher's own lines   *)
(* go to the file directly, and to os.Stderr too when they are mirrored.    *)
(* Close tears this down while the goroutine may be anywhere.               *)
(***************************************************************************)
EXTENDS Integers, Sequences

CONSTANTS
    PipeSize,   \* what the pipe holds before a writer blocks, in lines
    Faults,     \* "disk_full": the disk of the log may fill up
    MaxLines    \* bound: the lines a command writes

ASSUME LogAssumption ==
    /\ Faults \subseteq {"disk_full"}
    /\ PipeSize \in Nat \ {0} /\ MaxLines \in Nat

Kinds == {"own", "library"}
Line == [number : 1..MaxLines, kind : Kinds \cup {"notice"}]

VARIABLES
    mirror,     \* LOG_MIRROR_STDERR; it never changes
    pc,         \* what main does next
    wrote,      \* the lines the command has written, in order
    refused,    \* the lines the file did not take
    pending,    \* the line that waits for room in the pipe
    pipe,       \* what the pipe holds
    drain,      \* the goroutine: "read", "write", or "ended"
    buf,        \* what the goroutine has read and not written yet
    file,       \* the log file
    terminal,   \* what the terminal, or docker logs, has got
    disk        \* "ok" or "full"

vars == <<mirror, pc, wrote, refused, pending, pipe, drain, buf, file,
          terminal, disk>>

outputs == <<file, terminal, refused>>

Init ==
    /\ mirror \in BOOLEAN
    /\ pc = "running" /\ wrote = <<>> /\ refused = {}
    /\ pending = <<>> /\ pipe = <<>> /\ drain = "read" /\ buf = <<>>
    /\ file = <<>> /\ terminal = <<>> /\ disk = "ok"

Members(lines) == {lines[i] : i \in DOMAIN lines}

\* A write to the log file; a full or closed file takes nothing.
AppendToFile(lines) ==
    IF disk = "ok" /\ pc \notin {"closed", "exited"}
    THEN file' = file \o lines /\ UNCHANGED refused
    ELSE UNCHANGED file /\ refused' = refused \cup Members(lines)

-----------------------------------------------------------------------------
(* The command.                                                             *)

\* mutant: the publisher's own lines reach the file through the pipe only
OwnLineTeed(line) == pending' = <<line>> /\ UNCHANGED outputs

\* zerolog writes to the file, then to os.Stderr if that is mirrored; when
\* the file refuses the line, os.Stderr gets a notice of that instead.
OwnLine(line) ==
    /\ AppendToFile(<<line>>) /\ UNCHANGED terminal
    /\ pending' = IF disk = "full" THEN <<[line EXCEPT !.kind = "notice"]>>
                  ELSE IF mirror THEN <<line>> ELSE <<>>

\* The GSBS library, usage and the repair-db hint write to os.Stderr.
LibraryLine(line) == pending' = <<line>> /\ UNCHANGED outputs

WriteLine ==
    /\ pc = "running" /\ pending = <<>> /\ Len(wrote) < MaxLines
    /\ \E kind \in Kinds :
          LET line == [number |-> Len(wrote) + 1, kind |-> kind]
          IN  /\ wrote' = Append(wrote, line)
              /\ \/ kind = "own" /\ OwnLine(line)
                 \/ kind = "library" /\ LibraryLine(line)
    /\ UNCHANGED <<pc, pipe, drain, buf, disk, mirror>>

\* A write to the pipe blocks until there is room.
WritePipe ==
    /\ pending # <<>> /\ Len(pipe) < PipeSize
    /\ pipe' = pipe \o pending /\ pending' = <<>>
    /\ UNCHANGED <<pc, wrote, drain, buf, outputs, disk, mirror>>

AfterClosing ==
    [running |-> "writer_closed", writer_closed |-> "reader_closed",
     reader_closed |-> "closed", closed |-> "exited"]

\* logx.Close, deferred by runMain: the pipe's write end, os.Stderr and the
\* read end, the file; then os.Exit, which waits for no goroutine.
Close ==
    /\ pending = <<>> /\ pc \in DOMAIN AfterClosing /\ pc' = AfterClosing[pc]
    /\ pipe' = IF pc' = "reader_closed" THEN <<>> ELSE pipe
    /\ UNCHANGED <<wrote, pending, drain, buf, outputs, disk, mirror>>

-----------------------------------------------------------------------------
(* The goroutine of teeStderr.                                              *)

Alive == pc # "exited"

\* mutant: an empty read is handled as a chunk
ReadEmpty ==
    /\ Alive /\ drain = "read"
    /\ \/ \E n \in 0..Len(pipe) :
             /\ buf' = SubSeq(pipe, 1, n)
             /\ pipe' = SubSeq(pipe, n + 1, Len(pipe))
             /\ drain' = "write"
       \/ \* end of file, or a read end that is closed
          /\ pipe = <<>> /\ pc # "running"
          /\ drain' = "ended" /\ UNCHANGED <<buf, pipe>>
    /\ UNCHANGED <<pc, wrote, pending, outputs, disk, mirror>>

Read ==
    /\ Alive /\ drain = "read"
    /\ \/ \E n \in 1..Len(pipe) :
             /\ buf' = SubSeq(pipe, 1, n)
             /\ pipe' = SubSeq(pipe, n + 1, Len(pipe))
             /\ drain' = "write"
       \/ \* end of file, or a read end that is closed
          /\ pipe = <<>> /\ pc # "running"
          /\ drain' = "ended" /\ UNCHANGED <<buf, pipe>>
    /\ UNCHANGED <<pc, wrote, pending, outputs, disk, mirror>>

\* mutant: an error of the log file ends the goroutine
WriteUntilError ==
    /\ Alive /\ drain = "write" /\ buf' = <<>>
    /\ AppendToFile(buf)
    /\ drain' = IF refused' = refused THEN "read" ELSE "ended"
    /\ terminal' = IF mirror THEN terminal \o buf ELSE terminal
    /\ UNCHANGED <<pc, wrote, pending, pipe, disk, mirror>>

\* mutant: a chunk is written again when the terminal does not take it
WriteAgain ==
    /\ Alive /\ drain = "write" /\ AppendToFile(buf)
    /\ \/ drain' = "read" /\ buf' = <<>>
       \/ mirror /\ Len(terminal) < 2 * MaxLines /\ UNCHANGED <<drain, buf>>
    /\ terminal' = IF mirror THEN terminal \o buf ELSE terminal
    /\ UNCHANGED <<pc, wrote, pending, pipe, disk, mirror>>

\* Errors of either write are ignored.
Write ==
    /\ Alive /\ drain = "write" /\ buf' = <<>> /\ drain' = "read"
    /\ AppendToFile(buf)
    /\ terminal' = IF mirror THEN terminal \o buf ELSE terminal
    /\ UNCHANGED <<pc, wrote, pending, pipe, disk, mirror>>

-----------------------------------------------------------------------------

FillDisk ==
    /\ "disk_full" \in Faults /\ Alive
    /\ disk' = IF disk = "ok" THEN "full" ELSE "ok"
    /\ UNCHANGED <<pc, wrote, pending, pipe, drain, buf, outputs, mirror>>

Next == WriteLine \/ WritePipe \/ Close \/ Read \/ Write \/ FillDisk

Spec == Init /\ [][Next]_vars

\* Both goroutines are scheduled, and a command comes to its end.
Fairness == WF_vars(WritePipe) /\ WF_vars(Close) /\ WF_vars(Read \/ Write)

FairSpec == Spec /\ Fairness

-----------------------------------------------------------------------------
(* Properties.                                                              *)

\* The state has its type.
TypeOK ==
    /\ mirror \in BOOLEAN
    /\ pc \in DOMAIN AfterClosing \cup {"exited"}
    /\ drain \in {"read", "write", "ended"} /\ disk \in {"ok", "full"}
    /\ {wrote, pending, pipe, buf, file, terminal} \subseteq Seq(Line)
    /\ refused \subseteq Line
    /\ Len(pending) <= 1 /\ Len(pipe) <= PipeSize
    /\ drain = "write" <=> buf # <<>>

IsLibrary(line) == line.kind = "library"

\* The lines of the library in s come before those in t.
Before(s, t) ==
    \A i \in DOMAIN s, j \in DOMAIN t :
        IsLibrary(s[i]) /\ IsLibrary(t[j]) => s[i].number < t[j].number

\* The lines of the library in s are in the order they were written.
InOrder(s) ==
    \A i, j \in DOMAIN s :
        i < j /\ IsLibrary(s[i]) /\ IsLibrary(s[j]) =>
            s[i].number < s[j].number

\* A line of the library is logged at most once, and after the lines written
\* before it, however the goroutine cuts the stream (teeStderr).
LibraryOnceInOrder == InOrder(file)

\* The publisher's own lines, the outcome of the run among them, are in the
\* file when the process is gone, unless the disk refused them: they do not
\* depend on what Close leaves in the pipe (Setup, RunFail).
OwnLinesOutliveClose ==
    pc = "exited" =>
        \A line \in Members(wrote) :
            line.kind = "own" => line \in Members(file) \cup refused

\* The log never holds up the publisher: a command ends although its disk
\* fills up and the pipe behind os.Stderr is small (teeStderr).
CommandEnds == <>(pc = "exited")

\* What the library prints is in the log of the command, as the comment in
\* deploy/cron.gsbs-vps-sync says.
LibraryOutputCaptured ==
    pc = "exited" =>
        \A line \in Members(wrote) :
            IsLibrary(line) => line \in Members(file) \cup refused

\* Mirrored, the terminal has every line the publisher logs, so that docker
\* compose logs is the one place to look (README.md:214).
TerminalHasAll ==
    mirror /\ pc = "exited" =>
        \A line \in Members(wrote) : line \in Members(terminal) \cup refused

=============================================================================
