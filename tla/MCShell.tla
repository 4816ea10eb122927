------------------------------ MODULE MCShell ------------------------------
(***************************************************************************)
(* Programs, lines and scripts for TLC.  t and f are true and false, e and *)
(* o write two units and one, h reads one unit, c is cat, y is yes, k      *)
(* copies the file it is given, w writes it, x is not there.  C and Y are  *)
(* a cat and a yes that handle SIGQUIT.                                    *)
(***************************************************************************)
EXTENDS Shell

MCEndless == 3

Prog(src, n, status) == [src |-> src, n |-> n, status |-> status, quits |-> TRUE]

Stubborn(prog) == [prog EXCEPT !.quits = FALSE]

MCBehaviour ==
  [w \in {<<"t">>, <<"f">>, <<"e">>, <<"o">>, <<"h">>, <<"c">>, <<"y">>, <<"k">>,
         <<"w">>, <<"C">>, <<"Y">>} |->
     CASE w = <<"t">> -> Prog("self", 0, 0)
       [] w = <<"f">> -> Prog("self", 0, 1)
       [] w = <<"e">> -> Prog("self", 2, 0)
       [] w = <<"o">> -> Prog("self", 1, 0)
       [] w = <<"h">> -> Prog("stdin", 1, 0)
       [] w = <<"c">> -> Prog("stdin", MCEndless, 0)
       [] w = <<"y">> -> Prog("self", MCEndless, 0)
       [] w = <<"k">> -> Prog("file", 1, 0)
       [] w = <<"w">> -> Prog("store", 1, 0)
       [] w = <<"C">> -> Stubborn(Prog("stdin", MCEndless, 0))
       [] w = <<"Y">> -> Stubborn(Prog("self", MCEndless, 0))]

MCCD == <<"c", "d">>
MCFiles == {<<"F">>, <<"G">>}
MCDirs == {<<"/">>, <<"d">>}
MCHome == <<"/">>

-----------------------------------------------------------------------------
(* How a command is typed.  Nothing is escaped in single quotes. *)

Escape(ch, chars) == IF ch \in chars THEN <<Slash, ch>> ELSE <<ch>>

Typed(word, style) ==
  LET each(chars) == [k \in DOMAIN word |-> Escape(word[k], chars)]
      bare == each({" ", "|", "&", ">", "\"", "'", Slash})
  IN
  CASE style = "double" -> <<"\"">> \o FlattenSeq(each({"\"", Slash})) \o <<"\"">>
    [] style = "single" -> <<"'">> \o word \o <<"'">>
    [] style = "broken" -> FlattenSeq([k \in DOMAIN bare |->
                             IF k = 1 THEN bare[k] ELSE <<Slash, NL>> \o bare[k]])
    [] OTHER -> FlattenSeq(bare)

OpText(type) == CASE type = "AND" -> <<"&", "&">> [] type = "OR" -> <<"|", "|">>
                  [] type = "PIPE" -> <<"|">> [] type = "WRITE" -> <<">">>
                  [] type = "APPEND" -> <<">", ">">>

Join(seqs, sep) == FlattenSeq([k \in DOMAIN seqs |-> IF k = 1 THEN seqs[k] ELSE sep \o seqs[k]])

CommandText(c, style) ==
  IF c.type \in {"REGULAR", "COMMENT"}
  THEN Join([k \in DOMAIN c.argv |-> Typed(c.argv[k], IF k = 1 THEN "bare" ELSE style)], <<" ">>)
  ELSE OpText(c.type)

RECURSIVE PhysicalLines(_)
PhysicalLines(chars) ==
  IF chars = <<>> THEN <<>>
  ELSE LET n == Min({k \in DOMAIN chars : chars[k] = NL})
       IN  <<SubSeq(chars, 1, n)>> \o PhysicalLines(SubSeq(chars, n + 1, Len(chars)))

Line(cmds, style) ==
  LET sep == IF style = "tight" THEN <<>> ELSE <<" ">>
      text == Join([k \in DOMAIN cmds |-> CommandText(cmds[k], style)], sep)
  IN  [meant |-> cmds, text |-> PhysicalLines(text \o <<NL>>)]

-----------------------------------------------------------------------------
(* Lines *)

Cmd(words) == [type |-> "REGULAR", argv |-> words]
Op(type) == [type |-> type, argv |-> <<>>]

P(letter) == Cmd(IF letter \in {"k", "w"} THEN << <<letter>>, <<"F">> >> ELSE << <<letter>> >>)

ListOps == {"PIPE", "AND", "OR"}

(* The last program of every pipeline comes to an end. *)
Ends(cmds) ==
  \A k \in DOMAIN cmds :
    cmds[k] = P("y") =>
      \E j \in k + 1 .. Len(cmds) :
        /\ cmds[j].type = "REGULAR" /\ cmds[j] # P("c")
        /\ \A l \in k .. j : cmds[l].type \in {"REGULAR", "PIPE"}

Pairs == {<<P(p), Op(op), P(q)>> : p \in {"t", "f", "e", "h", "c", "k", "x", "y"},
                                   op \in ListOps,
                                   q \in {"t", "f", "e", "h", "c", "k"}}

(* Without a program; stdio's buffer is smaller than a pipe. *)
NoProgram == {<<P(p), Op(op), P("x")>> : p \in {"f", "o", "h", "x", "y"}, op \in ListOps}

Triples == {<<P(p), Op(a), P(q), Op(b), P(r)>> :
              p \in {"t", "f", "e", "y"}, a \in ListOps, q \in {"t", "f", "h", "c", "e"},
              b \in ListOps, r \in {"o", "c", "h"}}

Quads == {<<P(p), Op("PIPE"), P(q), Op("PIPE"), P(r), Op(op), P("h")>> :
            p \in {"e", "y"}, q \in {"y", "c"}, r \in {"e", "c"}, op \in {"PIPE", "AND"}}

ToFile(cmds, op, file) == cmds \o <<Op(op), Cmd(<<file>>)>>

Redirections ==
  { ToFile(<<P("o")>>, "WRITE", <<"F">>), ToFile(<<P("o")>>, "APPEND", <<"F">>),
    ToFile(<<P("e"), Op("PIPE"), P("h")>>, "WRITE", <<"F">>),
    ToFile(<<P("k")>>, "APPEND", <<"G">>), ToFile(<<P("k")>>, "WRITE", <<"F">>),
    ToFile(<<P("f")>>, "WRITE", <<"F">>) \o <<Op("AND"), P("o")>>,
    ToFile(<<P("o")>>, "WRITE", <<"F">>) \o <<Op("AND"), P("k")>>,
    <<P("o"), Op("WRITE")>>, ToFile(<<P("o")>>, "WRITE", <<"a">>),
    <<P("o"), Op("APPEND"), Op("PIPE"), P("c")>>, <<Cmd(<<MCCD>>), Op("WRITE"), Op("PIPE")>> }

(* Programs that may outlive the line, and programs that write a file. *)
Survivors ==
  { <<P("Y"), Op("PIPE"), P("t")>>, <<P("Y"), Op("PIPE"), P("C"), Op("PIPE"), P("h")>>,
    <<P("o"), Op("PIPE"), P("C"), Op("PIPE"), P("t")>> }

Storing ==
  { <<P("w")>>, <<P("w"), Op("PIPE"), P("t")>>, <<P("w"), Op("PIPE"), P("c"), Op("AND"), P("k")>>,
    <<P("o"), Op("PIPE"), P("w"), Op("AND"), P("k")>> }

Others ==
  { <<>>, <<P("k")>>, <<Cmd([k \in 1 .. 4 |-> <<"o">>])>>, <<[type |-> "COMMENT", argv |-> << <<"#">>, <<"a">> >>]>>,
    <<Cmd(<<MCCD, <<"d">> >>), Op("AND"), P("o")>>, <<Cmd(<<MCCD>>)>>,
    <<Cmd(<<MCCD, <<"a">> >>), Op("OR"), P("o")>>,
    <<P("y"), Op("PIPE"), P("h")>> }

(* Words that have to be quoted; one that starts with an operator is taken *)
(* for the operator, however it is quoted.                                 *)
Chars == {"a", " ", "\"", "'", Slash, "|", NL}
Words == {w \in UNION {[1 .. n -> Chars] : n \in 1 .. 3} : ~isSpecialChar(w[1])}

CanType(word, style) ==
  CASE style = "bare" -> \A k \in DOMAIN word : word[k] # NL
    [] style = "broken" -> Len(word) > 1 /\ \A k \in DOMAIN word : word[k] # NL
    [] style = "single" -> \A k \in DOMAIN word : word[k] \notin {"'", Slash}
    [] OTHER -> TRUE

Quoted == UNION {{Line(<<Cmd(<< <<"o">>, w>>), Op("PIPE"), P("c")>>, style) :
                    w \in {v \in Words : CanType(v, style)}} :
                 style \in {"bare", "double", "single", "broken"}}

Plain(cmdsSet) == {Line(cmds, "bare") : cmds \in cmdsSet}

MCScripts ==
  {<<l>> : l \in {Line(cmds, "tight") : cmds \in {c \in Pairs \cup NoProgram \cup Triples \cup Quads : Ends(c)}}}
    \cup {<<l, Line(<<P("o")>>, "bare")>> : l \in Quoted}
    \cup {<<l, m>> : l, m \in Plain(Redirections \cup Others)}
    \cup {<<l, Line(<<P("k")>>, "bare")>> : l \in Plain(Storing)}
    \cup {<<l, Line(<<P("o")>>, "bare")>> : l \in Plain(Survivors)}
    \cup {<<l, m, Line(<<P("k")>>, "bare")>> :
            l, m \in Plain({ToFile(<<P("o")>>, op, <<"F">>) : op \in {"WRITE", "APPEND"}})}

(* One line, whose last command writes two units. *)
MCLongOutput == {<<Line(<<P("e")>>, "bare")>>}
=============================================================================
