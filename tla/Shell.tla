------------------------------- MODULE Shell -------------------------------
(***************************************************************************)
(* main.c of Assignment_2: parser and execute in a loop, and what a line   *)
(* means.  A script is a sequence of lines; each has the physical lines    *)
(* that are typed and the commands that the user means by them.            *)
(***************************************************************************)
EXTENDS ShellParser, Executor

CONSTANT Scripts

ASSUME ScriptAssumption ==
  \A s \in Scripts : \A k \in DOMAIN s : s[k].text # <<>> /\ Last(Last(s[k].text)) = NL

VARIABLES
  script,   \* what is typed
  said,     \* the number of lines of the script that parser has returned
  input     \* the physical lines that getline has not returned yet

vars == <<script, said, input, execVars>>

Texts(s) == FlattenSeq([k \in DOMAIN s |-> s[k].text])

Init == ExecInit /\ script \in Scripts /\ said = 0 /\ input = Texts(script)

(* parser: an array of commands, exit at the end of the input, or the      *)
(* undefined behaviour that ends the shell.                                *)
ReadLine ==
  LET parsed == parser(input) IN
  /\ pc = "prompt"
  /\ input' = parsed.lines
  /\ \/ parsed.outcome = "ok" /\ StartLine(parsed.array) /\ said' = said + 1
     \/ /\ parsed.outcome # "ok"
        /\ ShellEnds(IF parsed.outcome = "exit" THEN "exited" ELSE "crash")
        /\ UNCHANGED said
  /\ UNCHANGED script

Gone == pc \in {"exited", "crash"} /\ UNCHANGED vars

Next ==
  \/ ReadLine
  \/ execute /\ UNCHANGED <<script, said, input>>
  \/ \E p \in Pids : Process(p) /\ UNCHANGED <<script, said, input>>
  \/ Gone

(* The shell and the processes are scheduled by the kernel, which also     *)
(* ends a process that leaves SIGQUIT alone; nothing makes the user type,  *)
(* and nothing makes a program that handles SIGQUIT end by it.             *)
Fairness ==
  /\ WF_vars(execute /\ UNCHANGED <<script, said, input>>)
  /\ \A p \in Pids :
       /\ WF_vars(Runnable(p) /\ UNCHANGED <<script, said, input>>)
       /\ WF_vars(/\ Runs(p) /\ Program(image[p]).quits /\ ProcQuit(p)
                  /\ UNCHANGED <<script, said, input>>)

Spec == Init /\ [][Next]_vars /\ Fairness

-----------------------------------------------------------------------------
(* What a line means: its programs run one after the other, each gets all  *)
(* that the one before it has written, and "&&" and "||" skip the next     *)
(* pipeline by the status of the last one that ran.                        *)

(* "data" is what the pipeline has written so far, "on" whether it is run, *)
(* "first" that it has no program yet, "stores" that one of them writes a  *)
(* file of its own, "to" a redirection that waits for its target, "seen"   *)
(* the status that syncPointProc returns for the pipeline.  "ok" says that *)
(* the shell supports the line.  It does not in these cases: it drops the  *)
(* rest of a line at the first pipeline it skips; it takes a redirected    *)
(* pipeline, a program that is not found and a cd for a success; it reads  *)
(* a file while it is truncated; a child without a program repeats what    *)
(* the shell has not written out yet and tells of its input; and a program *)
(* may be killed before it has written its file, unless those after it     *)
(* read to the end.                                                        *)
Blank == [out |-> <<>>, files |-> [f \in FileNames |-> <<>>], cwd |-> HOME,
          data |-> <<>>, status |-> 0, seen |-> 0, reads |-> {}, on |-> TRUE,
          first |-> TRUE, stores |-> FALSE, to |-> "", ok |-> TRUE]

Output(argv, data, disk) ==
  LET prog == Program(argv) IN
  CASE Missing(argv) -> <<CommandNotFound>>
    [] ~Missing(argv) /\ prog.src = "self"  -> [k \in 1 .. prog.n |-> argv[1]]
    [] ~Missing(argv) /\ prog.src = "stdin" -> SubSeq(data, 1, Min({prog.n, Len(data)}))
    [] ~Missing(argv) /\ prog.src = "file"  -> disk[argv[2]]
    [] OTHER -> <<>>

Stores(argv) == Program(argv).src = "store" /\ HasFile(argv)

ReadsAll(argv) == Program(argv).src = "stdin" /\ Program(argv).n = MaxReads

Effect(m, c) ==
  LET name == c.argv[1]
      goesOn == (m.status = 0) = (c.type = "AND")
  IN
  CASE c.type \in {"AND", "OR"} ->
         [m EXCEPT !.out = @ \o m.data, !.data = <<>>, !.reads = {}, !.on = goesOn,
                   !.first = TRUE, !.stores = FALSE,
                   !.ok = @ /\ (m.on => m.seen = m.status) /\ (goesOn => m.on)]
    [] c.type \in {"WRITE", "APPEND"} /\ m.on -> [m EXCEPT !.to = c.type]
    [] c.type = "REGULAR" /\ m.on /\ m.to # "" ->
         [m EXCEPT !.files[name] = IF m.to = "WRITE" THEN m.data ELSE @ \o m.data,
                   !.data = <<>>, !.to = "", !.seen = 0, !.first = TRUE, !.stores = FALSE,
                   !.ok = @ /\ name \in FileNames \ m.reads]
    [] c.type = "REGULAR" /\ m.on /\ m.to = "" /\ name = CD ->
         LET there == Len(c.argv) > 1 /\ c.argv[2] \in Dirs IN
         [m EXCEPT !.cwd = IF there THEN c.argv[2] ELSE @,
                   !.status = IF there THEN 0 ELSE 1, !.seen = 0]
    [] c.type = "REGULAR" /\ m.on /\ m.to = "" /\ name # CD ->
         [m EXCEPT !.data = Output(c.argv, @, m.files),
                   !.status = IF Missing(c.argv) THEN 127 ELSE Program(c.argv).status,
                   !.seen = Program(c.argv).status,
                   !.files = IF Stores(c.argv) THEN [@ EXCEPT ![c.argv[2]] = <<name>>] ELSE @,
                   !.reads = @ \cup {c.argv[k] : k \in 2 .. Len(c.argv)},
                   !.first = FALSE, !.stores = @ \/ Stores(c.argv),
                   !.ok = @ /\ (Missing(c.argv) => m.first /\ m.out = <<>>)
                            /\ (m.stores => ReadsAll(c.argv))]
    [] OTHER -> m

LineMeaning(m, cmds) ==
  LET end == FoldLeft(Effect, [m EXCEPT !.on = TRUE, !.status = 0, !.seen = 0], cmds)
  IN  [end EXCEPT !.out = @ \o end.data, !.data = <<>>, !.reads = {},
                  !.first = TRUE, !.stores = FALSE, !.to = "", !.ok = @ /\ end.to = ""]

Meaning(lines) == FoldLeft(LAMBDA m, line : LineMeaning(m, line.meant), Blank, lines)

-----------------------------------------------------------------------------
(* Properties *)

(* For the lines that the shell supports ("ok" above), what it has printed *)
(* and changed its directory to and what is in the files when it asks for  *)
(* the next line is what the lines so far mean, for every interleaving of  *)
(* the processes: the pipes lose and reorder nothing, the SIGQUIT to the   *)
(* earlier commands takes nothing from what the last one has read, and     *)
(* what they write after it goes nowhere.                                  *)
PrintsMeaning ==
  pc = "prompt" =>
    LET m == Meaning(SubSeq(script, 1, said)) IN
    m.ok => out = m.out /\ files = m.files /\ cwd = m.cwd

(* However a command is typed (bare or in double quotes with backslashes,  *)
(* in single quotes, continued over lines, with or without blanks around   *)
(* operators), parser returns the commands that are meant, and leaves the  *)
(* next line alone.  A word with a backslash is not typed in single quotes *)
(* here: tests.txt (18-19) keeps it, the copy loop drops it.               *)
RoundTrip ==
  pc \notin {"prompt", "exited", "crash"} =>
    /\ array = script[said].meant
    /\ input = Texts(SubSeq(script, said + 1, Len(script)))

(* No line of up to CommandSlots commands runs over the command array, and *)
(* the shell ends at the end of its input only; unless a line redirects to *)
(* what fopen cannot open, which nobody checks.                            *)
NoCrash ==
  /\ pc = "crash" => \E k \in 1 .. Len(array) - 1 :
                       array[k].type \in {"WRITE", "APPEND"} /\ ~TargetOpens(k)
  /\ pc = "exited" => said = Len(script)

(* execute comes back, or ends the shell as NoCrash says: no line makes    *)
(* the shell wait for a process that waits for the shell.                  *)
LineEnds == pc = "next" ~> pc \in {"prompt", "crash"}
=============================================================================
