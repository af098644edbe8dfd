----------------------------- MODULE RunCommand -----------------------------
(***************************************************************************)
(* run_command and run_command_array (utils.c): the command line is split *)
(* in place into at most max_args arguments, a child is forked to execvp   *)
(* them, and the caller polls waitpid(WNOHANG) every 100 ms for timeout   *)
(* seconds; on timeout it sends SIGKILL and spins on waitpid until the    *)
(* child is gone. One behaviour is one call.                               *)
(*                                                                         *)
(* A command is a sequence of characters. The child is a small process    *)
(* state: forked (before execvp), running, dying (SIGKILL pending), zombie *)
(* (exited, not reaped), reaped. waitpid on the caller's own unreaped      *)
(* child with WNOHANG cannot fail, so the `p == -1` branch of the poll     *)
(* loop is not reachable and is left out.                                  *)
(***************************************************************************)
EXTENDS Integers, Sequences, FiniteSets, SequencesExt

CONSTANTS
    Commands,    \* the command lines a caller may pass
    Timeouts,    \* the timeouts in seconds a caller may pass
    MaxArgs,     \* max_args: sizeof(args)/sizeof(args[0]) - 1 (63 in the code)
    Programs,    \* the argv[0] values execvp finds
    ExitCodes    \* the exit codes a command may exit with

VARIABLES
    cmd,      \* the command line
    timeout,  \* the timeout argument, in seconds
    argv,     \* the argument vector handed to execvp
    child,    \* the state of the forked child
    status,   \* its wait status once it is a zombie
    exited,   \* history: the exit code it chose itself, or NoCode
    left,     \* the poll loop counter (timeout * 10, decremented per poll)
    pc,       \* "fork", "poll", "reap" or "done"
    ret       \* the value returned

vars == <<cmd, timeout, argv, child, status, exited, left, pc, ret>>

Ws == {" ", "\t", "\n"}
NoCode == -1
\* usleep(100000): ten polls per second of timeout.
PollsPerSecond == 10
\* The wait status of a child that called exit(e), and of one killed by
\* SIGKILL (signal 9), as the kernel encodes them.
ExitStatus(e) == (e % 256) * 256
KillStatus == 9

(***************************************************************************)
(* The tokenizer of run_command, loop for loop: skip (and overwrite with  *)
(* '\0') the whitespace, record the argument's start, skip the word. r    *)
(* holds the starts and the positions overwritten with '\0'; position     *)
(* Len(c) + 1 is the string's terminator.                                 *)
(***************************************************************************)
\* Seeded variant: the whitespace before an argument is not skipped.
SkipWsNot(c, i) == i
SkipWs(c, i) == Min({p \in i .. Len(c) + 1 : p > Len(c) \/ c[p] \notin Ws})
SkipWord(c, j) == Min({p \in j .. Len(c) + 1 : p > Len(c) \/ c[p] \in Ws})

RECURSIVE SplitFrom(_, _, _)
SplitFrom(c, i, r) ==
    IF i > Len(c) \/ Len(r.starts) >= MaxArgs
    THEN r
    ELSE LET j == SkipWs(c, i)
         IN  SplitFrom(c, SkipWord(c, j),
                       [starts |-> Append(r.starts, j), nul |-> r.nul \cup (i .. j - 1)])

\* An argument runs from its start to the first '\0' after it.
Tokenize(c) ==
    LET r == SplitFrom(c, 1, [starts |-> <<>>, nul |-> {}])
        End(s) == Min({p \in r.nul \cup {Len(c) + 1} : p >= s}) - 1
    IN  [n \in 1 .. Len(r.starts) |-> SubSeq(c, r.starts[n], End(r.starts[n]))]

Init ==
    /\ cmd \in Commands
    /\ timeout \in Timeouts
    /\ argv = <<>>
    /\ child = "none"
    /\ status = 0
    /\ exited = NoCode
    /\ left = 0
    /\ pc = "fork"
    /\ ret = 0

\* strdup of the command fails, or fork fails: -1, no child.
NoChild ==
    /\ pc = "fork"
    /\ pc' = "done"
    /\ ret' = -1
    /\ UNCHANGED <<cmd, timeout, argv, child, status, exited, left>>

\* Seeded variant: one poll more than timeout * 10.
ForkPollsOneMore ==
    /\ pc = "fork"
    /\ argv' = Tokenize(cmd)
    /\ child' = "forked"
    /\ left' = timeout * PollsPerSecond + 1
    /\ pc' = "poll"
    /\ UNCHANGED <<cmd, timeout, status, exited, ret>>

\* The command is split and a child forked; the caller enters the poll
\* loop with timeout * 10 polls.
Fork ==
    /\ pc = "fork"
    /\ argv' = Tokenize(cmd)
    /\ child' = "forked"
    /\ left' = timeout * PollsPerSecond
    /\ pc' = "poll"
    /\ UNCHANGED <<cmd, timeout, status, exited, ret>>

\* The child: execvp of argv, or _exit(-1) when it fails (empty argv, or a
\* program it does not find).
Found(a) == a /= <<>> /\ a[1] \in Programs

Exec ==
    /\ child = "forked"
    /\ Found(argv)
    /\ child' = "running"
    /\ UNCHANGED <<cmd, timeout, argv, status, exited, left, pc, ret>>

ExecFails ==
    /\ child = "forked"
    /\ ~Found(argv)
    /\ child' = "zombie"
    /\ status' = ExitStatus(-1 % 256)
    /\ exited' = 255
    /\ UNCHANGED <<cmd, timeout, argv, left, pc, ret>>

\* The command exits by itself, at any time (or never).
ChildExit ==
    /\ child = "running"
    /\ \E e \in ExitCodes :
         /\ status' = ExitStatus(e)
         /\ exited' = e % 256
    /\ child' = "zombie"
    /\ UNCHANGED <<cmd, timeout, argv, left, pc, ret>>

\* A SIGKILLed child dies.
KilledDies ==
    /\ child = "dying"
    /\ child' = "zombie"
    /\ status' = KillStatus
    /\ UNCHANGED <<cmd, timeout, argv, exited, left, pc, ret>>

\* One iteration of while(timeout--): waitpid(pid, &status, WNOHANG)
\* returns the pid of an exited child, whose status is returned; else the
\* caller sleeps 100 ms.
Poll ==
    /\ pc = "poll"
    /\ left > 0
    /\ left' = left - 1
    /\ IF child = "zombie"
       THEN /\ child' = "reaped"
            /\ ret' = status
            /\ pc' = "done"
       ELSE UNCHANGED <<child, ret, pc>>
    /\ UNCHANGED <<cmd, timeout, argv, status, exited>>

\* Seeded variant: no kill before the reap loop.
TimeOutNoKill ==
    /\ pc = "poll"
    /\ left = 0
    /\ pc' = "reap"
    /\ UNCHANGED <<cmd, timeout, argv, child, status, exited, left, ret>>

\* The loop is exhausted: kill(pid, SIGKILL).
TimeOut ==
    /\ pc = "poll"
    /\ left = 0
    /\ child' = IF child \in {"forked", "running"} THEN "dying" ELSE child
    /\ pc' = "reap"
    /\ UNCHANGED <<cmd, timeout, argv, status, exited, left, ret>>

\* Seeded variant: while (waitpid(...) > 0), leaving on 0.
ReapWhilePositive ==
    /\ pc = "reap"
    /\ \/ child = "zombie" /\ child' = "reaped" /\ UNCHANGED <<pc, ret>>
       \/ child \in {"reaped", "dying"} /\ pc' = "done" /\ ret' = -1 /\ UNCHANGED child
    /\ UNCHANGED <<cmd, timeout, argv, status, exited, left>>

\* Seeded variant: the reaped status is returned after a timeout.
ReapReturnsStatus ==
    /\ pc = "reap"
    /\ \/ child = "zombie" /\ child' = "reaped" /\ UNCHANGED <<pc, ret>>
       \/ child = "reaped" /\ pc' = "done" /\ ret' = status /\ UNCHANGED child
    /\ UNCHANGED <<cmd, timeout, argv, status, exited, left>>

\* while (waitpid(pid, NULL, WNOHANG) >= 0): a zombie is reaped (pid is
\* returned) and the loop goes on; a dying child gives 0 (the loop spins,
\* no step); a reaped one gives -1, and -1 is returned.
ReapUntilGone ==
    /\ pc = "reap"
    /\ \/ child = "zombie" /\ child' = "reaped" /\ UNCHANGED <<pc, ret>>
       \/ child = "reaped" /\ pc' = "done" /\ ret' = -1 /\ UNCHANGED child
    /\ UNCHANGED <<cmd, timeout, argv, status, exited, left>>

Caller == NoChild \/ Fork \/ Poll \/ TimeOut \/ ReapUntilGone
Child == Exec \/ ExecFails \/ ChildExit \/ KilledDies

Next == Caller \/ Child

\* The calling thread is scheduled, and the kernel delivers SIGKILL; the
\* command itself need never exit.
Fairness == WF_vars(Caller) /\ WF_vars(KilledDies)

Spec == Init /\ [][Next]_vars /\ Fairness

-----------------------------------------------------------------------------
TypeOK ==
    /\ cmd \in Commands
    /\ timeout \in Timeouts
    /\ child \in {"none", "forked", "running", "dying", "zombie", "reaped"}
    /\ exited \in ExitCodes \cup {NoCode, 255} \cup {e % 256 : e \in ExitCodes}
    /\ left \in 0 .. Max(Timeouts) * PollsPerSecond
    /\ pc \in {"fork", "poll", "reap", "done"}
    /\ ret \in {-1, KillStatus} \cup {ExitStatus(e) : e \in ExitCodes \cup {255}}

(***************************************************************************)
(* Reference split of a command line: its words (maximal runs of non-     *)
(* whitespace) in order, then one empty argument when the line ends in    *)
(* whitespace; past max_args arguments, the last one is the rest of the   *)
(* line from the start of its word.                                        *)
(***************************************************************************)
WordStarts(c) == {i \in 1 .. Len(c) : c[i] \notin Ws /\ (i = 1 \/ c[i - 1] \in Ws)}
WordAt(c, s) == SubSeq(c, s, SkipWord(c, s) - 1)
TrailingWs(c) == Len(c) > 0 /\ c[Len(c)] \in Ws
ExpectedArgv(c) ==
    LET starts == SetToSortSeq(WordStarts(c), <)
        words  == [n \in 1 .. Len(starts) |-> WordAt(c, starts[n])]
        empty  == IF TrailingWs(c) THEN <<<<>>>> ELSE <<>>
    IN  IF Len(words) + Len(empty) <= MaxArgs
        THEN words \o empty
        ELSE SubSeq(words, 1, MaxArgs - 1) \o <<SubSeq(c, starts[MaxArgs], Len(c))>>

\* The child execs exactly the arguments the reference split gives: the
\* in-place tokenizer of run_command (utils.c:107-116) adds an empty
\* argument after trailing whitespace and lets the last argument run to
\* the end of the line when max_args is reached.
ArgvAsSplit == child /= "none" => argv = ExpectedArgv(cmd)

\* run_command_array never returns with its child still running or a
\* zombie: after SIGKILL the reap loop (utils.c:90) waits for it to die.
NoChildLeft == pc = "done" => child \in {"none", "reaped"}

\* A result other than -1 is the wait status of the command's own exit
\* (WIFEXITED, WEXITSTATUS its exit code), never of the SIGKILL sent on
\* timeout: callers test the result against 0 and -1 (dropbox.c:108,
\* fsutils.c:865, fsutils.c:1618).
StatusOfOwnExit ==
    (pc = "done" /\ ret /= -1) =>
        /\ exited /= NoCode
        /\ ret % 256 = 0
        /\ ret \div 256 = exited

\* Every call returns, whether or not the command ever exits: the poll
\* loop is bounded and the killed child dies.
RunReturns == <>(pc = "done")
====
