--------------------------- MODULE ExecutorProofs ---------------------------
(***************************************************************************)
(* Proofs about the executor of the shell, for any programs, any lines and *)
(* any number of processes.  ExecSpec runs whatever lines the user types;  *)
(* every step of Shell is a step of ExecNext or leaves the variables of    *)
(* the executor alone, so what holds here holds there.                     *)
(*                                                                         *)
(* That nobody of a line is forgotten depends on hndlrs having every       *)
(* process that still runs without a signal (Handled) and none twice       *)
(* (Listed): the loop of syncPointProc then ends with the one process that *)
(* was waited for (LastWaited).  When a process that was sent SIGQUIT ends *)
(* is up to it; nothing here says that it does.                            *)
(***************************************************************************)
EXTENDS Executor, ListLemmas, SequenceTheorems, TLAPS

CONSTANT Words

(* What parser may return: a program has a name. *)
Lines == {a \in Seq([type : STRING, argv : Seq(Words)]) :
            \A k \in DOMAIN a : a[k].type = "REGULAR" => a[k].argv # <<>>}

ExecNext ==
  \/ \E parsed \in Lines : StartLine(parsed)
  \/ \E how \in {"exited", "crash"} : ShellEnds(how)
  \/ execute
  \/ \E p \in Pids : Process(p)

ExecSpec == ExecInit /\ [][ExecNext]_execVars

-----------------------------------------------------------------------------
(* The inductive invariant *)

(* What is written: words and the messages of the shell. *)
Units == Words \cup {ChangeStdin, CommandNotFound, NoTarget}

(* What TypeOK leaves out: a process has the words of a command, and what  *)
(* is written is units.                                                    *)
Contents ==
  /\ array \in Lines
  /\ image \in [Pids -> Seq(Words)]
  /\ \A p \in Pids : Runs(p) => image[p] # <<>>
  /\ buf \in [Pids -> Seq(Units)] /\ pipe \in [Pids -> Seq(Units)]
  /\ stdout \in Seq(Units) /\ files \in [FileNames -> Seq(Units)]

(* The operator of the sync point is where i points, and the target of a   *)
(* redirection behind it.                                                  *)
AtOperator ==
  pc \in {"wait", "kill", "synced"} =>
    /\ sync \in {"AND", "OR"} => i <= Len(array)
    /\ sync \in {"WRITE", "APPEND"} => i < Len(array)

(* HandlerArray has processes that were started, none of them twice. *)
Listed ==
  /\ \A j, k \in DOMAIN hndlrs : hndlrs[j] = hndlrs[k] => j = k
  /\ \A k \in DOMAIN hndlrs : alive[hndlrs[k]] # "none"

(* A process that runs is in the array unless it was sent SIGQUIT, and a   *)
(* pipe that is open unless the process was waited for.                    *)
Handled ==
  /\ \A p \in Pids : Runs(p) => p \in signalled \/ \E k \in DOMAIN hndlrs : hndlrs[k] = p
  /\ \A p \in open : alive[p] = "reaped" \/ \E k \in DOMAIN hndlrs : hndlrs[k] = p

(* Between waitpid and the read loop the last process of the array is the  *)
(* one that was waited for; from then on the array is empty.               *)
LastWaited ==
  /\ pc = "kill" => hndlrs # <<>> /\ alive[Last(hndlrs)] = "reaped"
  /\ pc \in {"synced", "prompt"} => hndlrs = <<>>

ExecInv == TypeOK /\ Contents /\ AtOperator /\ Listed /\ Handled /\ LastWaited

-----------------------------------------------------------------------------
(* The invariant holds when the shell starts. *)
LEMMA InitExec == ExecInit => ExecInv
<1> SUFFICES ASSUME ExecInit PROVE ExecInv
  OBVIOUS
<1> USE ExecAssumption
<1>1. TypeOK
  BY DEF ExecInit, TypeOK
<1>2. Contents
  BY DEF ExecInit, Contents, Lines, Runs
<1>3. AtOperator /\ Listed /\ Handled /\ LastWaited
  BY DEF ExecInit, AtOperator, Listed, Handled, LastWaited, Runs
<1> QED
  BY <1>1, <1>2, <1>3 DEF ExecInv

(* The parts of the invariant that depend on the processes' own data only  *)
(* through Runs.                                                           *)
LEMMA ProcessFrame ==
  ASSUME ExecInv, UNCHANGED <<lineVars, syncVars, signalled, birthVars, out, stdout, cwd>>,
         alive' \in [Pids -> {"none", "run", "zombie", "reaped"}],
         \A q \in Pids : \/ alive'[q] = alive[q]
                         \/ alive[q] = "run" /\ alive'[q] = "zombie",
         left' \in [Pids -> 0 .. MaxReads], files' \in [FileNames -> Seq(Units)],
         buf' \in [Pids -> Seq(Units)], pipe' \in [Pids -> Seq(Units)],
         \A q \in Pids : Len(pipe'[q]) <= PIPE_CAPACITY
  PROVE  ExecInv'
<1>1. TypeOK'
  BY DEF ExecInv, TypeOK, lineVars, syncVars, birthVars, Contents
<1>2. Contents' /\ AtOperator'
  BY DEF ExecInv, Contents, AtOperator, lineVars, syncVars, birthVars, Runs
<1>3. \A k \in DOMAIN hndlrs : hndlrs[k] \in Pids
  BY DEF ExecInv, TypeOK
<1>4. Listed' /\ Handled'
  <2>1. open \subseteq Pids /\ open' = open /\ hndlrs' = hndlrs
    BY DEF ExecInv, TypeOK, syncVars
  <2>2. \A q \in Pids : /\ alive'[q] = "none" => alive[q] = "none"
                        /\ alive'[q] = "run" => alive[q] = "run"
                        /\ alive[q] = "reaped" => alive'[q] = "reaped"
    OBVIOUS
  <2>3. Listed'
    BY <1>3, <2>1, <2>2 DEF ExecInv, Listed
  <2>4. Handled'
    BY <1>3, <2>1, <2>2 DEF ExecInv, Handled, Runs
  <2> QED
    BY <2>3, <2>4
<1>5. LastWaited'
  <2>1. hndlrs # <<>> => Last(hndlrs) \in Pids
    BY <1>3 DEF Last, ExecInv, TypeOK
  <2> QED
    BY <2>1 DEF ExecInv, LastWaited, lineVars, syncVars
<1> QED
  BY <1>1, <1>2, <1>4, <1>5 DEF ExecInv

(* What the processes do by themselves. *)
LEMMA StepProcess == ASSUME ExecInv, NEW p \in Pids, Process(p) PROVE ExecInv'
<1> USE ExecAssumption
<1>1. /\ alive \in [Pids -> {"none", "run", "zombie", "reaped"}]
      /\ left \in [Pids -> 0 .. MaxReads]
      /\ buf \in [Pids -> Seq(Units)] /\ pipe \in [Pids -> Seq(Units)]
      /\ inputFd \in [Pids -> Pids \cup {STDIN}]
      /\ files \in [FileNames -> Seq(Units)]
      /\ \A q \in Pids : Len(pipe[q]) <= PIPE_CAPACITY
  BY DEF ExecInv, TypeOK, Contents
<1> DEFINE Frame == UNCHANGED <<lineVars, syncVars, signalled, birthVars, out, stdout, cwd>>
<1>2. CASE ProcRead(p)
  <2>1. /\ Runs(p) /\ left[p] > 0
        /\ Frame /\ UNCHANGED <<alive, files>>
        /\ left' \in [Pids -> 0 .. MaxReads]
    BY <1>1, <1>2 DEF ProcRead, diskVars
  <2>2. buf' \in [Pids -> Seq(Units)] /\ pipe' \in [Pids -> Seq(Units)]
        /\ \A q \in Pids : Len(pipe'[q]) <= PIPE_CAPACITY
    <3>1. CASE buf' = [buf EXCEPT ![p] = <<image[p][1]>>] /\ UNCHANGED pipe
      <4>1. image[p][1] \in Units
        BY <2>1 DEF ExecInv, Contents, Units
      <4> QED
        BY <1>1, <3>1, <4>1
    <3>2. CASE /\ inputFd[p] # STDIN /\ pipe[inputFd[p]] # <<>>
               /\ buf' = [buf EXCEPT ![p] = <<Head(pipe[inputFd[p]])>>]
               /\ pipe' = [pipe EXCEPT ![inputFd[p]] = Tail(@)]
      <4> DEFINE q == inputFd[p]
      <4>1. q \in Pids /\ pipe[q] \in Seq(Units) /\ pipe[q] # <<>>
        BY <1>1, <3>2
      <4>2. Head(pipe[q]) \in Units /\ Tail(pipe[q]) \in Seq(Units)
            /\ Len(Tail(pipe[q])) = Len(pipe[q]) - 1 /\ Len(pipe[q]) \in Nat
        BY <4>1, HeadTailProperties
      <4> QED
        BY <1>1, <3>2, <4>1, <4>2
    <3>3. CASE /\ HasFile(image[p])
               /\ buf' = [buf EXCEPT ![p] = files[image[p][2]]]
               /\ UNCHANGED pipe
      <4>1. files[image[p][2]] \in Seq(Units)
        BY <3>3 DEF HasFile, ExecInv, Contents
      <4> QED
        BY <1>1, <3>3, <4>1
    <3> QED
      BY <1>2, <3>1, <3>2, <3>3 DEF ProcRead
  <2> QED
    BY <1>1, <2>1, <2>2, ProcessFrame
<1>3. CASE ProcWrite(p)
  <2>1. /\ Frame /\ UNCHANGED <<files, alive, left>>
        /\ buf[p] # <<>> /\ Len(pipe[p]) < PIPE_CAPACITY
        /\ pipe' = [pipe EXCEPT ![p] = Append(@, Head(buf[p]))]
        /\ buf' = [buf EXCEPT ![p] = Tail(@)]
    BY <1>3 DEF ProcWrite, diskVars
  <2>2. Head(buf[p]) \in Units /\ Tail(buf[p]) \in Seq(Units)
    BY <1>1, <2>1, HeadTailProperties
  <2>3. /\ Append(pipe[p], Head(buf[p])) \in Seq(Units)
        /\ Len(Append(pipe[p], Head(buf[p]))) = Len(pipe[p]) + 1
        /\ Len(pipe[p]) \in Nat
    BY <1>1, <2>2, AppendProperties
  <2>4. buf' \in [Pids -> Seq(Units)] /\ pipe' \in [Pids -> Seq(Units)]
        /\ \A q \in Pids : Len(pipe'[q]) <= PIPE_CAPACITY
    BY <1>1, <2>1, <2>2, <2>3
  <2> QED
    BY <1>1, <2>1, <2>4, ProcessFrame
<1>4. CASE ProcStore(p)
  <2>1. /\ Frame /\ UNCHANGED <<alive, buf, pipe>>
        /\ left' = [left EXCEPT ![p] = 0] /\ Runs(p) /\ HasFile(image[p])
        /\ files' = [files EXCEPT ![image[p][2]] = <<image[p][1]>>]
    BY <1>4 DEF ProcStore
  <2>2. <<image[p][1]>> \in Seq(Units)
    BY <2>1 DEF ExecInv, Contents, Units
  <2>3. files' \in [FileNames -> Seq(Units)]
    <3> DEFINE f == image[p][2]
               u == <<image[p][1]>>
    <3>1. files' = [files EXCEPT ![f] = u] /\ u \in Seq(Units)
      BY <2>1, <2>2
    <3> HIDE DEF f, u
    <3> QED
      BY <1>1, <3>1
  <2>4. left' \in [Pids -> 0 .. MaxReads]
    BY <1>1, <2>1
  <2> QED
    BY <1>1, <2>1, <2>3, <2>4, ProcessFrame
<1>5. CASE ProcExit(p) \/ ProcSigpipe(p) \/ ProcQuit(p)
  <2>1. /\ Frame /\ UNCHANGED <<files, buf, left, pipe>>
        /\ alive[p] = "run" /\ alive' = [alive EXCEPT ![p] = "zombie"]
    BY <1>5 DEF ProcExit, ProcSigpipe, ProcQuit, Terminates, Runs, diskVars
  <2> QED
    BY <1>1, <2>1, ProcessFrame
<1> QED
  BY <1>2, <1>3, <1>4, <1>5 DEF Process, Runnable

(* The steps of the shell that leave the processes alone. *)
LEMMA ShellFrame ==
  ASSUME ExecInv, UNCHANGED <<hndlrs, open, procVars>>,
         array' \in Lines, i' \in 1 .. Len(array') + 1,
         pc' \in {"prompt", "next", "wait", "kill", "synced", "exited", "crash"},
         sync' \in {"END", "AND", "OR", "WRITE", "APPEND"},
         ret' \in 0 .. 255, files' \in [FileNames -> Seq(Units)], cwd' \in Dirs,
         stdout' \in Seq(Units),
         AtOperator', LastWaited'
  PROVE  ExecInv'
<1>1. TypeOK'
  BY DEF ExecInv, TypeOK, procVars, birthVars
<1>2. Contents' /\ Listed' /\ Handled'
  BY DEF ExecInv, Contents, Listed, Handled, procVars, birthVars, Runs
<1> QED
  BY <1>1, <1>2 DEF ExecInv

(* What stdio keeps of what is printed. *)
LEMMA PrintedUnits ==
  ASSUME stdout \in Seq(Units), NEW text \in Seq(Units), PrintOut(text)
  PROVE  stdout' \in Seq(Units)
<1> DEFINE all == stdout \o text
<1>1. all \in Seq(Units)
  BY ConcatProperties
<1>2. PICK k \in 0 .. Len(all) : stdout' = SubSeq(all, k + 1, Len(all))
  BY DEF PrintOut
<1> HIDE DEF all
<1>3. \A m \in k + 1 .. Len(all) : m \in 1 .. Len(all)
  BY <1>1, <1>2
<1> QED
  BY <1>1, <1>2, <1>3, SubSeqProperties

(* main: a line, or the end. *)
LEMMA StepMain ==
  ASSUME ExecInv,
         \/ \E parsed \in Lines : StartLine(parsed)
         \/ \E how \in {"exited", "crash"} : ShellEnds(how)
  PROVE  ExecInv'
<1>1. /\ array \in Lines /\ i \in 1 .. Len(array) + 1
      /\ sync \in {"END", "AND", "OR", "WRITE", "APPEND"} /\ ret \in 0 .. 255
      /\ files \in [FileNames -> Seq(Units)] /\ cwd \in Dirs /\ stdout \in Seq(Units)
      /\ pc = "prompt" => hndlrs = <<>>
  BY DEF ExecInv, TypeOK, Contents, LastWaited
<1>2. ASSUME NEW parsed \in Lines, StartLine(parsed) PROVE ExecInv'
  <2>1. Len(parsed) \in Nat
    BY DEF Lines
  <2>2. /\ UNCHANGED <<hndlrs, open, procVars, sync, ret, files, cwd>>
        /\ array' = parsed /\ i' = 1 /\ pc' = "next"
    BY <1>2 DEF StartLine, syncVars
  <2>2a. stdout' \in Seq(Units)
    <3>1. stdout' = stdout \/ stdout' = <<>>
      BY <1>2, Zenon DEF StartLine
    <3>2. <<>> \in Seq(Units)
      OBVIOUS
    <3> QED
      BY <1>1, <3>1, <3>2, Zenon
  <2>3. AtOperator' /\ LastWaited'
    BY <2>2 DEF AtOperator, LastWaited
  <2>4. i' \in 1 .. Len(array') + 1
    BY <2>1, <2>2
  <2> QED
    BY <1>1, <2>2, <2>3, <2>4, <2>2a, ShellFrame
<1>3. ASSUME NEW how \in {"exited", "crash"}, ShellEnds(how) PROVE ExecInv'
  <2>1. /\ UNCHANGED <<hndlrs, open, procVars, sync, ret, files, cwd, stdout, array, i>>
        /\ pc = "prompt" /\ pc' = how
    BY <1>3 DEF ShellEnds, syncVars, diskVars
  <2>2. AtOperator' /\ LastWaited'
    BY <1>1, <2>1 DEF AtOperator, LastWaited
  <2> QED
    BY <1>1, <2>1, <2>2, ShellFrame
<1> QED
  BY <1>2, <1>3

(* The loop of execute, between the sync points. *)
LEMMA StepLoop ==
  ASSUME ExecInv, \/ EndOfLine \/ executeBuiltin \/ SkipOperator \/ AndOr
                  \/ Redirect \/ RedirectNowhere
  PROVE  ExecInv'
<1>1. /\ array \in Lines /\ i \in 1 .. Len(array) + 1 /\ Len(array) \in Nat
      /\ sync \in {"END", "AND", "OR", "WRITE", "APPEND"} /\ ret \in 0 .. 255
      /\ files \in [FileNames -> Seq(Units)] /\ cwd \in Dirs /\ stdout \in Seq(Units)
  BY DEF ExecInv, TypeOK, Contents, Lines
<1>2. CASE EndOfLine
  <2>1. /\ UNCHANGED <<hndlrs, open, procVars, ret, files, cwd, stdout, array, i>>
        /\ pc' = "wait" /\ sync' = "END"
    BY <1>2 DEF EndOfLine, Sync, syncVars, diskVars
  <2>2. AtOperator' /\ LastWaited'
    BY <2>1 DEF AtOperator, LastWaited
  <2> QED
    BY <1>1, <2>1, <2>2, ShellFrame
<1>3. CASE executeBuiltin \/ SkipOperator \/ RedirectNowhere
  <2>1. /\ UNCHANGED <<hndlrs, open, procVars, ret, files, array, sync, pc>>
        /\ pc = "next" /\ i <= Len(array) /\ i' = i + 1 /\ cwd' \in Dirs
    BY <1>1, <1>3 DEF executeBuiltin, SkipOperator, RedirectNowhere, At, syncVars, diskVars
  <2>1a. stdout' \in Seq(Units)
    <3>1. stdout' = stdout \/ PrintOut(<<NoTarget>>)
      BY <1>3 DEF executeBuiltin, SkipOperator, RedirectNowhere, diskVars
    <3>2. <<NoTarget>> \in Seq(Units)
      BY DEF Units
    <3> QED
      BY <1>1, <3>1, <3>2, PrintedUnits
  <2>2. AtOperator' /\ LastWaited' /\ i' \in 1 .. Len(array') + 1
    BY <1>1, <2>1 DEF AtOperator, LastWaited
  <2> QED
    BY <1>1, <2>1, <2>2, <2>1a, ShellFrame
<1>4. CASE AndOr
  <2>1. /\ UNCHANGED <<hndlrs, open, procVars, ret, files, cwd, stdout, array, i>>
        /\ i <= Len(array) /\ pc' = "wait" /\ sync' \in {"AND", "OR"}
    BY <1>4 DEF AndOr, At, Sync, syncVars, diskVars
  <2>2. AtOperator' /\ LastWaited'
    BY <2>1 DEF AtOperator, LastWaited
  <2> QED
    BY <1>1, <2>1, <2>2, ShellFrame
<1>5. CASE Redirect
  <2>1. /\ UNCHANGED <<hndlrs, open, procVars, ret, cwd, stdout, array, i>>
        /\ i < Len(array) /\ pc' = "wait" /\ sync' \in {"WRITE", "APPEND"}
    BY <1>5 DEF Redirect, At, Sync, syncVars
  <2>2. files' \in [FileNames -> Seq(Units)]
    <3> DEFINE f == array[i + 1].argv[1]
    <3>1. files' = [files EXCEPT ![f] = <<>>] \/ files' = files
      BY <1>5 DEF Redirect
    <3>2. <<>> \in Seq(Units)
      OBVIOUS
    <3> HIDE DEF f
    <3> QED
      BY <1>1, <3>1, <3>2
  <2>3. AtOperator' /\ LastWaited'
    BY <2>1 DEF AtOperator, LastWaited
  <2> QED
    BY <1>1, <2>1, <2>2, <2>3, ShellFrame
<1> QED
  BY <1>2, <1>3, <1>4, <1>5

(* The new process goes to the end of the array. *)
LEMMA StepRegular == ASSUME ExecInv, executeRegular PROVE ExecInv'
<1> USE ExecAssumption
<1>1. PICK p \in Pids :
        /\ alive[p] = "none" /\ pc = "next" /\ i <= Len(array) /\ Token.type = "REGULAR"
        /\ hndlrs' = Append(hndlrs, p) /\ open' = open \cup {p}
        /\ alive' = [alive EXCEPT ![p] = "run"]
        /\ image' = [image EXCEPT ![p] = Token.argv]
        /\ inputFd' = [inputFd EXCEPT ![p] = InputOfNext]
        /\ holds' = [holds EXCEPT ![p] = open]
        /\ buf' = [buf EXCEPT ![p] = ChildBuffer]
        /\ left' = [left EXCEPT ![p] = Program(Token.argv).n]
        /\ i' = i + 1
        /\ UNCHANGED <<array, pc, sync, ret, signalled, pipe, diskVars>>
  BY DEF executeRegular, At
<1>2. /\ i \in 1 .. Len(array) + 1 /\ Len(array) \in Nat
      /\ hndlrs \in Seq(Pids) /\ Len(hndlrs) \in Nat
      /\ Token.argv \in Seq(Words) /\ Token.argv # <<>>
  <2>1. array \in Lines /\ i \in 1 .. Len(array) + 1 /\ hndlrs \in Seq(Pids)
    BY DEF ExecInv, TypeOK, Contents
  <2>2. array \in Seq([type : STRING, argv : Seq(Words)])
    BY <2>1 DEF Lines
  <2>3. i \in 1 .. Len(array) /\ i \in DOMAIN array
    BY <1>1, <2>1, <2>2
  <2>4. Token \in [type : STRING, argv : Seq(Words)]
    BY <2>2, <2>3, ElementOfSeq, Zenon DEF Token
  <2>5. Token.argv # <<>>
    BY <1>1, <2>1, <2>3 DEF Lines, Token
  <2> QED
    BY <2>1, <2>2, <2>4, <2>5
<1>3. Program(Token.argv).n \in 0 .. MaxReads
  BY DEF Program, NotFound, Missing
<1>4. InputOfNext \in Pids \cup {STDIN}
  BY <1>2 DEF InputOfNext, Last
<1>5. /\ hndlrs' \in Seq(Pids) /\ Len(hndlrs') = Len(hndlrs) + 1
      /\ \A k \in 1 .. Len(hndlrs) : hndlrs'[k] = hndlrs[k]
      /\ hndlrs'[Len(hndlrs) + 1] = p
  BY <1>1, <1>2, AppendProperties
<1>6. TypeOK'
  BY <1>1, <1>2, <1>3, <1>4, <1>5 DEF ExecInv, TypeOK, diskVars
<1>6a. ChildBuffer \in Seq(Units)
  <2>1. /\ stdout \in Seq(Units) /\ <<>> \in Seq(Units)
        /\ <<ChangeStdin>> \in Seq(Units) /\ <<CommandNotFound>> \in Seq(Units)
    BY DEF ExecInv, Contents, Units
  <2> QED
    BY <2>1, ConcatProperties DEF ChildBuffer
<1>7. Contents' /\ AtOperator' /\ LastWaited'
  BY <1>1, <1>2, <1>6a DEF ExecInv, Contents, AtOperator, LastWaited, TypeOK, Runs, diskVars
<1>8. \A k \in DOMAIN hndlrs : hndlrs[k] \in Pids /\ hndlrs[k] # p
  BY <1>1, <1>2 DEF ExecInv, Listed
<1>9. /\ DOMAIN hndlrs = 1 .. Len(hndlrs) /\ DOMAIN hndlrs' = 1 .. Len(hndlrs) + 1
      /\ alive \in [Pids -> {"none", "run", "zombie", "reaped"}] /\ open \subseteq Pids
  BY <1>2, <1>5 DEF ExecInv, TypeOK
<1>10. Listed'
  <2>1. ASSUME NEW j \in DOMAIN hndlrs', NEW k \in DOMAIN hndlrs', hndlrs'[j] = hndlrs'[k]
        PROVE  j = k
    BY <1>2, <1>5, <1>8, <1>9, <2>1 DEF ExecInv, Listed
  <2>2. \A k \in DOMAIN hndlrs' : alive'[hndlrs'[k]] # "none"
    BY <1>1, <1>2, <1>5, <1>8, <1>9 DEF ExecInv, Listed
  <2> QED
    BY <2>1, <2>2 DEF Listed
<1>11. Handled'
  <2>1. \A q \in Pids : (\E k \in DOMAIN hndlrs : hndlrs[k] = q) =>
                          \E k \in DOMAIN hndlrs' : hndlrs'[k] = q
    BY <1>2, <1>5, <1>9
  <2>2. \E k \in DOMAIN hndlrs' : hndlrs'[k] = p
    BY <1>2, <1>5, <1>9
  <2> QED
    BY <1>1, <1>9, <2>1, <2>2 DEF ExecInv, Handled, Runs
<1> QED
  BY <1>6, <1>7, <1>10, <1>11 DEF ExecInv

(* syncPointProc: with no process, waitpid, and what execute does after.   *)
LEMMA StepSync == ASSUME ExecInv, SyncNothing \/ WaitLast \/ AfterSync PROVE ExecInv'
<1> USE ExecAssumption
<1>1. /\ array \in Lines /\ i \in 1 .. Len(array) + 1 /\ Len(array) \in Nat
      /\ sync \in {"END", "AND", "OR", "WRITE", "APPEND"} /\ ret \in 0 .. 255
      /\ files \in [FileNames -> Seq(Units)] /\ cwd \in Dirs /\ stdout \in Seq(Units)
  BY DEF ExecInv, TypeOK, Contents, Lines
<1>2. CASE SyncNothing
  <2>1. /\ UNCHANGED <<hndlrs, open, procVars, files, cwd, stdout, array, i, sync>>
        /\ pc = "wait" /\ hndlrs = <<>> /\ ret' = 0 /\ pc' = "synced"
    BY <1>2 DEF SyncNothing, diskVars
  <2>2. AtOperator' /\ LastWaited'
    BY <2>1 DEF ExecInv, AtOperator, LastWaited
  <2> QED
    BY <1>1, <2>1, <2>2, ShellFrame
<1>3. CASE WaitLast
  <2> DEFINE p == Last(hndlrs)
  <2>1. /\ hndlrs # <<>> /\ pc = "wait" /\ pc' = "kill" /\ alive[p] = "zombie"
        /\ alive' = [alive EXCEPT ![p] = "reaped"]
        /\ ret' = Program(image[p]).status
        /\ UNCHANGED <<array, i, sync, hndlrs, open, signalled, image, inputFd, holds, buf,
                       left, pipe, files, cwd, stdout>>
    BY <1>3 DEF WaitLast, diskVars, birthVars
  <2>2. /\ hndlrs \in Seq(Pids) /\ p \in Pids /\ open \subseteq Pids
        /\ alive \in [Pids -> {"none", "run", "zombie", "reaped"}]
        /\ \A k \in DOMAIN hndlrs : hndlrs[k] \in Pids
    BY <2>1 DEF ExecInv, TypeOK, Last
  <2> HIDE DEF p
  <2>3. ret' \in 0 .. 255
    <3>1. Program(image[p]).status \in 0 .. 255
      BY DEF Program, NotFound, Missing
    <3> QED
      BY <2>1, <3>1
  <2>4. TypeOK'
    BY <2>1, <2>2, <2>3 DEF ExecInv, TypeOK
  <2>5. Contents' /\ AtOperator'
    BY <2>1, <2>2 DEF ExecInv, Contents, AtOperator, Runs
  <2>6. Listed' /\ Handled'
    BY <2>1, <2>2 DEF ExecInv, Listed, Handled, Runs
  <2>7. LastWaited'
    BY <2>1, <2>2 DEF LastWaited, p
  <2> QED
    BY <2>4, <2>5, <2>6, <2>7 DEF ExecInv
<1>4. CASE AfterSync
  <2>1. /\ UNCHANGED <<hndlrs, open, procVars, ret, files, cwd, stdout, array>>
        /\ pc = "synced" /\ hndlrs = <<>>
    BY <1>4 DEF AfterSync, syncVars, diskVars, ExecInv, LastWaited
  <2>2. \/ pc' \in {"prompt", "crash"} /\ UNCHANGED <<i, sync>>
        \/ /\ sync \in {"WRITE", "APPEND"}
           /\ pc' = "next" /\ i' = i + 2 /\ UNCHANGED sync
        \/ pc' = "wait" /\ sync' = "END" /\ UNCHANGED i
        \/ /\ sync \in {"AND", "OR"}
           /\ pc' = "next" /\ i' = i + 1 /\ UNCHANGED sync
    BY <1>1, <1>4 DEF AfterSync, Sync, Redirected
  <2>3. /\ sync \in {"AND", "OR"} => i <= Len(array)
        /\ sync \in {"WRITE", "APPEND"} => i < Len(array)
    BY <2>1 DEF ExecInv, AtOperator
  <2>4. i' \in 1 .. Len(array') + 1
    BY <1>1, <2>1, <2>2, <2>3
  <2>5. AtOperator' /\ LastWaited'
    BY <2>1, <2>2 DEF AtOperator, LastWaited
  <2> QED
    BY <1>1, <2>1, <2>2, <2>4, <2>5, ShellFrame
<1> QED
  BY <1>2, <1>3, <1>4

(* One round of the loop over the processes before the last one. *)
LEMMA StepKill == ASSUME ExecInv, KillEarlier PROVE ExecInv'
<1> DEFINE n == Len(hndlrs)
           p == hndlrs[n - 1]
<1>1. /\ pc = "kill" /\ n > 1 /\ signalled' = signalled \cup {p}
      /\ open' = open \ {p, inputFd[p]}
      /\ UNCHANGED <<lineVars, ret, alive, image, inputFd, holds, buf, left, pipe, diskVars>>
  BY DEF KillEarlier, birthVars
<1>2. /\ hndlrs \in Seq(Pids) /\ n \in Nat /\ DOMAIN hndlrs = 1 .. n /\ p \in Pids
      /\ alive \in [Pids -> {"none", "run", "zombie", "reaped"}] /\ open \subseteq Pids
      /\ \A k \in 1 .. n : hndlrs[k] \in Pids
  BY <1>1 DEF ExecInv, TypeOK
<1>3. /\ hndlrs' \in Seq(Pids) /\ Len(hndlrs') = n - 1
      /\ \A k \in 1 .. n - 2 : hndlrs'[k] = hndlrs[k]
      /\ hndlrs'[n - 1] = hndlrs[n]
  <2>1. hndlrs' = RemoveAt(hndlrs, n - 1) /\ n - 1 \in 1 .. Len(hndlrs)
    BY <1>1, <1>2 DEF KillEarlier
  <2>2. /\ hndlrs' \in Seq(Pids) /\ Len(hndlrs') = n - 1
        /\ \A k \in 1 .. n - 1 :
             hndlrs'[k] = IF k < n - 1 THEN hndlrs[k] ELSE hndlrs[k + 1]
    BY <1>2, <2>1, RemoveAtProperties
  <2>3. n \in Nat /\ n > 1
    BY <1>1, <1>2
  <2> HIDE DEF p, n
  <2>4. n - 1 \in 1 .. n - 1 /\ ~(n - 1 < n - 1) /\ n - 1 + 1 = n
    BY <2>3
  <2>5. hndlrs'[n - 1] = hndlrs[n]
    BY <2>2, <2>4, Zenon
  <2>6. \A k \in 1 .. n - 2 : k \in 1 .. n - 1 /\ k < n - 1
    BY <2>3
  <2> QED
    BY <2>2, <2>5, <2>6, Zenon
<1>4. DOMAIN hndlrs' = 1 .. n - 1
  BY <1>3
<1>5. \A j, k \in 1 .. n : hndlrs[j] = hndlrs[k] => j = k
  BY <1>2 DEF ExecInv, Listed
<1> HIDE DEF n, p
<1>6. TypeOK'
  BY <1>1, <1>2, <1>3 DEF ExecInv, TypeOK, lineVars, diskVars
<1>7. Contents' /\ AtOperator'
  BY <1>1, <1>2 DEF ExecInv, Contents, AtOperator, lineVars, diskVars, Runs
<1>8. Listed'
  <2>1. ASSUME NEW j \in DOMAIN hndlrs', NEW k \in DOMAIN hndlrs', hndlrs'[j] = hndlrs'[k]
        PROVE  j = k
    <3> DEFINE at(m) == IF m = n - 1 THEN n ELSE m
    <3>1. /\ at(j) \in 1 .. n /\ at(k) \in 1 .. n
          /\ hndlrs'[j] = hndlrs[at(j)] /\ hndlrs'[k] = hndlrs[at(k)]
      BY <1>1, <1>2, <1>3, <1>4
    <3>2. at(j) = at(k)
      BY <1>5, <2>1, <3>1
    <3> QED
      BY <1>1, <1>2, <1>4, <3>2
  <2>2. \A k \in DOMAIN hndlrs' : alive'[hndlrs'[k]] # "none"
    BY <1>1, <1>2, <1>3, <1>4 DEF ExecInv, Listed
  <2> QED
    BY <2>1, <2>2 DEF Listed
<1>9. Handled'
  <2>1. ASSUME NEW q \in Pids, q # p, \E k \in DOMAIN hndlrs : hndlrs[k] = q
        PROVE  \E k \in DOMAIN hndlrs' : hndlrs'[k] = q
    <3>1. PICK k \in 1 .. n : hndlrs[k] = q
      BY <1>2, <2>1
    <3>2. k # n - 1
      BY <2>1, <3>1 DEF p
    <3>3. CASE k = n
      BY <1>1, <1>2, <1>3, <1>4, <3>1, <3>3
    <3>4. CASE k \in 1 .. n - 2
      BY <1>2, <1>3, <1>4, <3>1, <3>4
    <3> QED
      BY <1>2, <3>1, <3>2, <3>3, <3>4
  <2> QED
    BY <1>1, <1>2, <2>1 DEF ExecInv, Handled, Runs
<1>10. LastWaited'
  <2>1. Last(hndlrs) = hndlrs[n] /\ Last(hndlrs') = hndlrs[n] /\ hndlrs' # <<>>
    BY <1>1, <1>2, <1>3 DEF Last, n
  <2>2. hndlrs[n] # p /\ hndlrs[n] \in Pids
    <3>1. n \in 1 .. n /\ n - 1 \in 1 .. n /\ n # n - 1
      BY <1>1, <1>2
    <3> QED
      BY <1>2, <1>5, <3>1 DEF p
  <2>3. alive'[hndlrs[n]] = "reaped" /\ pc' = "kill"
    BY <1>1, <1>2, <2>1, <2>2 DEF ExecInv, LastWaited, lineVars
  <2> QED
    BY <2>1, <2>3 DEF LastWaited
<1> QED
  BY <1>6, <1>7, <1>8, <1>9, <1>10 DEF ExecInv

(* The read loop, for the one process that is left. *)
LEMMA StepDrain == ASSUME ExecInv, Drain PROVE ExecInv'
<1> DEFINE p == Last(hndlrs)
<1>1. /\ pc = "kill" /\ Len(hndlrs) = 1 /\ pc' = "synced" /\ hndlrs' = <<>>
      /\ pipe' = [pipe EXCEPT ![p] = <<>>]
      /\ UNCHANGED <<array, i, sync, ret, open, alive, signalled, image, inputFd, holds, buf,
                     left, cwd>>
  BY DEF Drain, birthVars
<1>2. /\ hndlrs \in Seq(Pids) /\ p \in Pids /\ p = hndlrs[1] /\ DOMAIN hndlrs = {1}
      /\ alive[p] = "reaped" /\ pipe \in [Pids -> Seq(Units)]
      /\ files \in [FileNames -> Seq(Units)] /\ stdout \in Seq(Units)
  BY <1>1 DEF ExecInv, TypeOK, Contents, LastWaited, Last
<1>3. files' \in [FileNames -> Seq(Units)]
  <2> DEFINE f == array[i + 1].argv[1]
  <2>1. CASE files' = files
    BY <1>2, <2>1
  <2>2. CASE files' = [files EXCEPT ![f] = @ \o pipe[p]]
    <3>1. \A g \in FileNames : files[g] \o pipe[p] \in Seq(Units)
      BY <1>2, ConcatProperties
    <3> HIDE DEF f, p
    <3> QED
      BY <1>2, <2>2, <3>1
  <2> QED
    BY <2>1, <2>2 DEF Drain
<1>3a. stdout' \in Seq(Units)
  <2>1. pipe[p] \in Seq(Units)
    BY <1>2
  <2> QED
    BY <1>2, <2>1, PrintedUnits DEF Drain
<1> HIDE DEF p
<1>4. TypeOK'
  <2>1. Len(<<>>) = 0 /\ PIPE_CAPACITY \in Nat /\ <<>> \in Seq(Pids)
    BY ExecAssumption
  <2> QED
    BY <1>1, <1>2, <1>3, <2>1 DEF ExecInv, TypeOK
<1>5. Contents' /\ AtOperator'
  BY <1>1, <1>2, <1>3, <1>3a DEF ExecInv, Contents, AtOperator, Runs
<1>6. Listed' /\ Handled' /\ LastWaited'
  BY <1>1, <1>2 DEF ExecInv, Listed, Handled, LastWaited, Runs
<1> QED
  BY <1>4, <1>5, <1>6 DEF ExecInv

(* The shell ends in the middle of syncPointProc. *)
LEMMA StepDrainNowhere == ASSUME ExecInv, DrainNowhere PROVE ExecInv'
<1>1. /\ UNCHANGED <<array, i, sync, hndlrs, open, ret, procVars, files, cwd, stdout>>
      /\ pc' = "crash"
  BY DEF DrainNowhere, syncVars, diskVars
<1>2. AtOperator' /\ LastWaited'
  BY <1>1 DEF AtOperator, LastWaited
<1> QED
  BY <1>1, <1>2, ShellFrame DEF ExecInv, TypeOK, Contents

(* Every step of the shell and of its processes keeps the invariant. *)
THEOREM ExecInvariant == ExecSpec => []ExecInv
<1>1. ExecInv /\ [ExecNext]_execVars => ExecInv'
  <2> SUFFICES ASSUME ExecInv, [ExecNext]_execVars PROVE ExecInv'
    OBVIOUS
  <2>1. CASE execute
    BY <2>1, StepLoop, StepRegular, StepSync, StepKill, StepDrain, StepDrainNowhere
      DEF execute
  <2>2. CASE \E p \in Pids : Process(p)
    BY <2>2, StepProcess
  <2>3. CASE \/ \E parsed \in Lines : StartLine(parsed)
             \/ \E how \in {"exited", "crash"} : ShellEnds(how)
    BY <2>3, StepMain
  <2>4. CASE UNCHANGED execVars
    BY <2>4 DEF execVars, lineVars, syncVars, procVars, birthVars, diskVars, ExecInv, TypeOK, Contents,
                AtOperator, Listed, Handled, LastWaited, Runs
  <2> QED
    BY <2>1, <2>2, <2>3, <2>4 DEF ExecNext
<1> QED
  BY InitExec, <1>1, PTL DEF ExecSpec

(* When execute is back, every process of the line that still runs was     *)
(* sent SIGQUIT and the shell cannot read its pipe, for any programs, the  *)
(* ones that handle the signal too, any operators and interleavings:       *)
(* waitpid and the loop of syncPointProc reach every process that was      *)
(* forked since the last sync point.                                       *)
THEOREM NoneForgotten == ExecSpec => []NobodyForgotten
<1>1. ExecInv => NobodyForgotten
  BY DEF ExecInv, Handled, LastWaited, NobodyForgotten, Runs
<1> QED
  BY ExecInvariant, <1>1, PTL

(* The read ends that are left open when execute is back are those of the  *)
(* processes that were waited for (syncPointProc leaks those); every other *)
(* pipe of a pipeline is closed.                                           *)
OnlyLastLeaks == pc = "prompt" => \A p \in open : alive[p] = "reaped"

(* However many lines are run, the shell leaks no other read end. *)
THEOREM LeaksBounded == ExecSpec => []OnlyLastLeaks
<1>1. ExecInv => OnlyLastLeaks
  BY DEF ExecInv, Handled, LastWaited, OnlyLastLeaks
<1> QED
  BY ExecInvariant, <1>1, PTL
=============================================================================
