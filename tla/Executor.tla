------------------------------ MODULE Executor ------------------------------
(***************************************************************************)
(* executor.c of Assignment_2: execute walks an array of commands, starts  *)
(* a process for each program and, at each sync point, waits for the last  *)
(* one, sends the others SIGQUIT and copies what the last one wrote.       *)
(*                                                                         *)
(* The pipe of a process is named by its pid.  Its write end is open in    *)
(* that process only, for the shell closes it right after the fork; so it  *)
(* is at its end when the process has ended.  Its read end stays open in   *)
(* the shell until the sync point, and a process has the read ends that    *)
(* the shell had when it forked; a write that nobody can read is a SIGPIPE.*)
(***************************************************************************)
EXTENDS Integers, Sequences, SequencesExt, FiniteSets

CONSTANTS
  Behaviour,      \* the programs resolvePath finds: [src, n, status, quits] of a name
  CD,             \* the name "cd"
  FileNames,
  Dirs, HOME,     \* the directories that exist, and the one the shell starts in
  PIPE_CAPACITY,
  MaxProcs,       \* bound: processes ever forked
  MaxReads,       \* bound: what an endless program reads or writes
  STDIN

Pids == 1 .. MaxProcs

ASSUME ExecAssumption ==
  /\ MaxProcs \in Nat /\ MaxReads \in Nat \ {0} /\ PIPE_CAPACITY \in Nat
  /\ STDIN \notin Pids /\ HOME \in Dirs
  /\ \A w \in DOMAIN Behaviour : /\ Behaviour[w].n \in 0 .. MaxReads
                                 /\ Behaviour[w].status \in 0 .. 255
                                 /\ Behaviour[w].quits \in BOOLEAN

VARIABLES
  array, i, pc,      \* the commands of the line, the current one, the step
  sync,              \* the command that syncPointProc is called for, or "END"
  hndlrs,            \* HandlerArray: the pids of the pipeline
  ret,               \* WEXITSTATUS of the last one
  open,              \* pipes whose read end the shell has open
  alive,             \* of each process: "none", "run", "zombie", "reaped"
  signalled,         \* the processes that were sent SIGQUIT
  image, inputFd,    \* its argv, and the pipe it reads or STDIN
  holds,             \* the pipes whose read ends it has from the shell
  buf, left,         \* what it has to write, how much it may still read
  pipe,              \* the content of each pipe
  out, files, cwd,   \* what the shell has printed, the files, the directory
  stdout             \* the end of out that stdio still has in its buffer

lineVars == <<array, i, pc, sync>>
syncVars == <<hndlrs, ret, open>>
birthVars == <<image, inputFd, holds>>
procVars == <<alive, signalled, birthVars, buf, left, pipe>>
diskVars == <<out, stdout, files, cwd>>
execVars == <<lineVars, syncVars, procVars, diskVars>>

ExecInit ==
  /\ array = <<>> /\ i = 1 /\ pc = "prompt" /\ sync = "END"
  /\ hndlrs = <<>> /\ ret = 0 /\ open = {}
  /\ alive = [p \in Pids |-> "none"] /\ signalled = {}
  /\ image = [p \in Pids |-> <<>>] /\ inputFd = [p \in Pids |-> STDIN]
  /\ holds = [p \in Pids |-> {}] /\ buf = [p \in Pids |-> <<>>]
  /\ left = [p \in Pids |-> 0] /\ pipe = [p \in Pids |-> <<>>]
  /\ out = <<>> /\ stdout = <<>> /\ files = [f \in FileNames |-> <<>>] /\ cwd = HOME

-----------------------------------------------------------------------------
(* The programs, as far as the shell can tell: one writes n units by       *)
(* itself, copies up to n units of its input, copies a file, or stores a   *)
(* file of its own; a unit is the name of the program that first wrote it. *)
(* The standard input of the shell is at its end for them.  "quits" says   *)
(* that a program leaves SIGQUIT alone; any other may go on when it gets   *)
(* it, if it has set up its handler by then.                               *)

(* What the shell itself prints. *)
ChangeStdin == <<"pid 0, change STDIN">>
CommandNotFound == <<"Command not found">>
NoTarget == <<"No target for write provided">>

(* A child without a program: exit(0), which writes out stdio's buffer. *)
NotFound == [src |-> "self", n |-> 0, status |-> 0, quits |-> TRUE]

Missing(argv) == argv[1] \notin DOMAIN Behaviour

Program(argv) == IF Missing(argv) THEN NotFound ELSE Behaviour[argv[1]]

Runs(p) == alive[p] = "run"

Ended(q) == q # STDIN => pipe[q] = <<>> /\ ~Runs(q)

HasFile(argv) == Len(argv) > 1 /\ argv[2] \in FileNames

HasReader(p) == \/ p \in open /\ pc \notin {"exited", "crash"}
                \/ \E q \in Pids : Runs(q) /\ p \in holds[q]

ProcRead(p) ==
  LET prog == Program(image[p]) IN
  /\ Runs(p) /\ buf[p] = <<>> /\ left[p] > 0
  /\ \/ /\ prog.src = "self" /\ buf' = [buf EXCEPT ![p] = <<image[p][1]>>]
        /\ UNCHANGED pipe
     \/ /\ prog.src = "stdin" /\ inputFd[p] # STDIN /\ pipe[inputFd[p]] # <<>>
        /\ buf' = [buf EXCEPT ![p] = <<Head(pipe[inputFd[p]])>>]
        /\ pipe' = [pipe EXCEPT ![inputFd[p]] = Tail(@)]
     \/ /\ prog.src = "file" /\ HasFile(image[p])
        /\ buf' = [buf EXCEPT ![p] = files[image[p][2]]]
        /\ UNCHANGED pipe
  /\ left' = [left EXCEPT ![p] = IF prog.n = MaxReads THEN @ ELSE @ - 1]
  /\ UNCHANGED <<lineVars, syncVars, alive, signalled, birthVars, diskVars>>

ProcWrite(p) ==
  /\ Runs(p) /\ buf[p] # <<>> /\ HasReader(p) /\ Len(pipe[p]) < PIPE_CAPACITY
  /\ pipe' = [pipe EXCEPT ![p] = Append(@, Head(buf[p]))]
  /\ buf' = [buf EXCEPT ![p] = Tail(@)]
  /\ UNCHANGED <<lineVars, syncVars, alive, signalled, birthVars, left, diskVars>>

ProcStore(p) ==
  /\ Runs(p) /\ left[p] > 0 /\ Program(image[p]).src = "store" /\ HasFile(image[p])
  /\ files' = [files EXCEPT ![image[p][2]] = <<image[p][1]>>]
  /\ left' = [left EXCEPT ![p] = 0]
  /\ UNCHANGED <<lineVars, syncVars, alive, signalled, birthVars, buf, pipe, out, stdout, cwd>>

Terminates(p) ==
  /\ alive' = [alive EXCEPT ![p] = "zombie"]
  /\ UNCHANGED <<lineVars, syncVars, signalled, birthVars, buf, left, pipe, diskVars>>

ProcExit(p) ==
  LET prog == Program(image[p]) IN
  /\ Runs(p) /\ buf[p] = <<>>
  /\ \/ left[p] = 0
     \/ prog.src = "stdin" /\ Ended(inputFd[p])
     \/ prog.src \in {"file", "store"} /\ ~HasFile(image[p])
  /\ Terminates(p)

(* SIGPIPE, or EPIPE for a program that ignores it. *)
ProcSigpipe(p) == Runs(p) /\ buf[p] # <<>> /\ ~HasReader(p) /\ Terminates(p)

ProcQuit(p) == Runs(p) /\ p \in signalled /\ Terminates(p)

-----------------------------------------------------------------------------
(* The loop of execute *)

(* execute(parsed) is called.  Processes of an earlier line may still run; *)
(* the shell has forgotten them.  On a terminal getline has written out    *)
(* what was left of stdout.                                                *)
StartLine(parsed) ==
  /\ pc = "prompt"
  /\ array' = parsed /\ i' = 1 /\ pc' = "next"
  /\ stdout' \in {stdout, <<>>}
  /\ UNCHANGED <<sync, syncVars, procVars, out, files, cwd>>

(* printf: by its buffering stdio keeps any end of what it has. *)
PrintOut(text) ==
  LET all == stdout \o text IN
  /\ out' = out \o text
  /\ \E k \in 0 .. Len(all) : /\ text = <<>> => k = 0
                             /\ stdout' = SubSeq(all, k + 1, Len(all))

(* parser does not return: exit, or the undefined behaviour that ends the  *)
(* shell.                                                                  *)
ShellEnds(how) ==
  /\ pc = "prompt" /\ pc' = how
  /\ UNCHANGED <<array, i, sync, syncVars, procVars, diskVars>>

Token == array[i]

At(types) == pc = "next" /\ i <= Len(array) /\ Token.type \in types

(* syncPointProc(&hndlrs, ...) is called; what is printed goes to a file   *)
(* only for "WRITE" and "APPEND".                                          *)
Sync(what) == pc' = "wait" /\ sync' = what

EndOfLine ==
  /\ pc = "next" /\ (i > Len(array) \/ At({"COMMENT"}))
  /\ Sync("END")
  /\ UNCHANGED <<array, i, syncVars, procVars, diskVars>>

IsBuiltin == Token.argv[1] = CD

(* executeBuiltin: argc counts the name too, so cd alone is chdir(NULL),   *)
(* which fails like a directory that is not there; nobody looks.           *)
executeBuiltin ==
  /\ At({"REGULAR"}) /\ IsBuiltin
  /\ cwd' = IF Len(Token.argv) > 1 /\ Token.argv[2] \in Dirs THEN Token.argv[2] ELSE cwd
  /\ i' = i + 1
  /\ UNCHANGED <<array, pc, sync, syncVars, procVars, out, stdout, files>>

(* Mutant: every program reads the input of the shell. *)
InputAlwaysStdin == STDIN

InputOfNext == IF hndlrs = <<>> THEN STDIN ELSE Last(hndlrs)

(* stdio's buffer in the child: a copy of the shell's, for nobody calls    *)
(* fflush before fork, and what the child prints itself.  execv drops it.  *)
ChildBuffer ==
  IF ~Missing(Token.argv) THEN <<>>
  ELSE stdout \o (IF InputOfNext = STDIN THEN <<>> ELSE <<ChangeStdin>>)
              \o <<CommandNotFound>>

(* executeRegular: pipe, fork, and the close of the write end.  Which pid  *)
(* the kernel gives does not matter.                                       *)
executeRegular ==
  LET p == CHOOSE q \in Pids : alive[q] = "none"
      prog == Program(Token.argv)
  IN
  /\ At({"REGULAR"}) /\ ~IsBuiltin /\ \E q \in Pids : alive[q] = "none"
  /\ hndlrs' = Append(hndlrs, p)
  /\ open' = open \cup {p}
  /\ alive' = [alive EXCEPT ![p] = "run"]
  /\ image' = [image EXCEPT ![p] = Token.argv]
  /\ inputFd' = [inputFd EXCEPT ![p] = InputOfNext]
  /\ holds' = [holds EXCEPT ![p] = open]
  /\ buf' = [buf EXCEPT ![p] = ChildBuffer]
  /\ left' = [left EXCEPT ![p] = prog.n]
  /\ i' = i + 1
  /\ UNCHANGED <<array, pc, sync, ret, signalled, pipe, diskVars>>

(* A pipe needs nothing, and nobody knows a single "&". *)
SkipOperator ==
  /\ At({"PIPE", "UNKNOWN"})
  /\ i' = i + 1
  /\ UNCHANGED <<array, pc, sync, syncVars, procVars, diskVars>>

AndOr ==
  /\ At({"AND", "OR"})
  /\ Sync(Token.type)
  /\ UNCHANGED <<array, i, syncVars, procVars, diskVars>>

(* fopen gives a file for the word after the operator at k, unless that is *)
(* an operator itself, which has no name.                                  *)
TargetOpens(k) == array[k + 1].argv # <<>> /\ array[k + 1].argv[1] \in FileNames

(* Redirections: the programs are already running when fopen truncates the *)
(* file.  Only the first word after the operator counts, and nobody looks  *)
(* at what fopen returned.                                                 *)
Redirect ==
  /\ At({"WRITE", "APPEND"}) /\ i < Len(array)
  /\ files' = IF Token.type = "WRITE" /\ TargetOpens(i)
              THEN [files EXCEPT ![array[i + 1].argv[1]] = <<>>] ELSE files
  /\ Sync(Token.type)
  /\ UNCHANGED <<array, i, syncVars, procVars, out, stdout, cwd>>

(* "No target for write provided" *)
RedirectNowhere ==
  /\ At({"WRITE", "APPEND"}) /\ i = Len(array)
  /\ PrintOut(<<NoTarget>>) /\ i' = i + 1
  /\ UNCHANGED <<array, pc, sync, syncVars, procVars, files, cwd>>

-----------------------------------------------------------------------------
(* syncPointProc *)

SyncNothing ==
  /\ pc = "wait" /\ hndlrs = <<>>
  /\ ret' = 0 /\ pc' = "synced"
  /\ UNCHANGED <<array, i, sync, hndlrs, open, procVars, diskVars>>

(* Mutant: the first process of the pipeline is waited for. *)
WaitFirst ==
  /\ pc = "wait" /\ hndlrs # <<>> /\ alive[hndlrs[1]] = "zombie"
  /\ alive' = [alive EXCEPT ![hndlrs[1]] = "reaped"]
  /\ ret' = Program(image[hndlrs[1]]).status
  /\ pc' = "kill"
  /\ UNCHANGED <<array, i, sync, hndlrs, open, signalled, birthVars, buf, left, pipe, diskVars>>

(* waitpid, before anything is read *)
WaitLast ==
  /\ pc = "wait" /\ hndlrs # <<>> /\ alive[Last(hndlrs)] = "zombie"
  /\ alive' = [alive EXCEPT ![Last(hndlrs)] = "reaped"]
  /\ ret' = Program(image[Last(hndlrs)]).status
  /\ pc' = "kill"
  /\ UNCHANGED <<array, i, sync, hndlrs, open, signalled, birthVars, buf, left, pipe, diskVars>>

(* Mutant: the others are left alone. *)
KillNobody ==
  /\ pc = "kill" /\ Len(hndlrs) > 1
  /\ hndlrs' = <<Last(hndlrs)>>
  /\ UNCHANGED <<lineVars, ret, open, procVars, diskVars>>

(* Mutant: the read ends are not closed. *)
KillKeepsFd ==
  LET p == hndlrs[Len(hndlrs) - 1] IN
  /\ pc = "kill" /\ Len(hndlrs) > 1
  /\ signalled' = signalled \cup {p}
  /\ hndlrs' = RemoveAt(hndlrs, Len(hndlrs) - 1)
  /\ UNCHANGED <<lineVars, ret, open, alive, birthVars, buf, left, pipe, diskVars>>

(* One round of the loop over the others, from the end: SIGQUIT and the    *)
(* close of the read ends.  Nobody waits for them.                         *)
KillEarlier ==
  LET p == hndlrs[Len(hndlrs) - 1] IN
  /\ pc = "kill" /\ Len(hndlrs) > 1
  /\ signalled' = signalled \cup {p}
  /\ open' = open \ {p, inputFd[p]}
  /\ hndlrs' = RemoveAt(hndlrs, Len(hndlrs) - 1)
  /\ UNCHANGED <<lineVars, ret, alive, birthVars, buf, left, pipe, diskVars>>

Redirected == sync \in {"WRITE", "APPEND"}

(* The read loop, up to the end of the pipe.  The read end stays open. *)
Drain ==
  LET p == Last(hndlrs)
      f == array[i + 1].argv[1]
  IN
  /\ pc = "kill" /\ Len(hndlrs) = 1 /\ (Redirected => TargetOpens(i))
  /\ IF Redirected
     THEN files' = [files EXCEPT ![f] = @ \o pipe[p]] /\ UNCHANGED <<out, stdout>>
     ELSE PrintOut(pipe[p]) /\ UNCHANGED files
  /\ pipe' = [pipe EXCEPT ![p] = <<>>]
  /\ hndlrs' = <<>> /\ pc' = "synced"
  /\ UNCHANGED <<array, i, sync, ret, open, alive, signalled, birthVars, buf, left, cwd>>

(* The first fprintf is to the FILE that fopen has not given. *)
DrainNowhere ==
  /\ pc = "kill" /\ Len(hndlrs) = 1 /\ Redirected /\ ~TargetOpens(i)
  /\ pc' = "crash"
  /\ UNCHANGED <<array, i, sync, syncVars, procVars, diskVars>>

(* The line ends at "&&" after a failure and at "||" after a success. *)
StopsLine(what, status) == \/ what = "AND" /\ status # 0
                           \/ what = "OR" /\ status = 0

(* After the sync point: the status of a redirected pipeline is dropped.   *)
(* With no process to wait for, fclose is what meets the missing FILE.     *)
AfterSync ==
  /\ pc = "synced"
  /\ CASE sync = "END" -> pc' = "prompt" /\ UNCHANGED <<i, sync>>
       [] Redirected /\ TargetOpens(i) -> pc' = "next" /\ i' = i + 2 /\ UNCHANGED sync
       [] Redirected /\ ~TargetOpens(i) -> pc' = "crash" /\ UNCHANGED <<i, sync>>
       [] OTHER -> IF StopsLine(sync, ret) THEN Sync("END") /\ UNCHANGED i
                   ELSE pc' = "next" /\ i' = i + 1 /\ UNCHANGED sync
  /\ UNCHANGED <<array, syncVars, procVars, diskVars>>

execute ==
  \/ EndOfLine \/ executeBuiltin \/ executeRegular \/ SkipOperator \/ AndOr
  \/ Redirect \/ RedirectNowhere \/ SyncNothing \/ WaitLast \/ KillEarlier
  \/ Drain \/ DrainNowhere \/ AfterSync

(* What a process does when it is scheduled; SIGQUIT comes on top. *)
Runnable(p) == ProcRead(p) \/ ProcWrite(p) \/ ProcStore(p) \/ ProcExit(p) \/ ProcSigpipe(p)

Process(p) == Runnable(p) \/ ProcQuit(p)

-----------------------------------------------------------------------------
(* Properties *)

(* Type invariant; the index never leaves the array by more than one.      *)
TypeOK ==
  /\ i \in 1 .. Len(array) + 1
  /\ pc \in {"prompt", "next", "wait", "kill", "synced", "exited", "crash"}
  /\ sync \in {"END", "AND", "OR", "WRITE", "APPEND"}
  /\ hndlrs \in Seq(Pids) /\ ret \in 0 .. 255 /\ open \subseteq Pids
  /\ alive \in [Pids -> {"none", "run", "zombie", "reaped"}]
  /\ signalled \subseteq Pids /\ inputFd \in [Pids -> Pids \cup {STDIN}]
  /\ holds \in [Pids -> SUBSET Pids]
  /\ left \in [Pids -> 0 .. MaxReads]
  /\ \A p \in Pids : Len(pipe[p]) <= PIPE_CAPACITY
  /\ DOMAIN files = FileNames /\ cwd \in Dirs

(* When execute is back, whatever the order in which the processes and the *)
(* shell ran, nobody is forgotten: a process of the line that still runs,  *)
(* because the signal has not reached it or because it handles it, was     *)
(* sent SIGQUIT by syncPointProc, also at "&&", "||" and ">", and the      *)
(* shell cannot read its pipe any more.                                    *)
NobodyForgotten ==
  pc = "prompt" => \A p \in Pids : Runs(p) => p \in signalled /\ p \notin open

(* Nobody waits for the processes that were sent SIGQUIT, and a program    *)
(* may handle the signal; yet none stays for ever, because its pipe has    *)
(* lost its readers: its next write ends it.  When the user has stopped    *)
(* typing every process comes to its end.                                  *)
StragglersEnd == <>[](\A p \in Pids : ~Runs(p))
=============================================================================
