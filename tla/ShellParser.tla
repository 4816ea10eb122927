---------------------------- MODULE ShellParser ----------------------------
(***************************************************************************)
(* parser.c of Assignment_2: from the lines that getline returns to the    *)
(* array of commands that execute gets.                                    *)
(*                                                                         *)
(* A line is a sequence of characters that ends with a newline; a token    *)
(* and a word are sequences of characters.  parser looks at most at the    *)
(* kind of a character, so one letter stands for all of them.              *)
(***************************************************************************)
EXTENDS Integers, Sequences, SequencesExt, FiniteSetsExt

CONSTANTS
  INITIAL_SEQUENCE_SIZE, EXTENSION_SIZE

ASSUME ArrayAssumption ==
  INITIAL_SEQUENCE_SIZE \in Nat \ {0} /\ EXTENSION_SIZE \in Nat

NL == "\n"
Slash == "\\"
Quotes == {"\"", "'"}

isSpecialChar(ch) == ch \in {"|", "&", ">"}

-----------------------------------------------------------------------------
(* The inner loop of parser: the end of the word that starts at s.  It     *)
(* stops at a separator outside quotes, at a closing quote, or before the  *)
(* newline that ends the buffer.  The escaped character after a backslash  *)
(* is passed over, so a quote it meets is never one that was escaped.      *)
(* After a continued line the word is looked at again from its start, with *)
(* the quote as it stands.                                                 *)
RECURSIVE WordEnd(_, _, _, _, _, _)
WordEnd(buf, lines, s, e, quote, trimParen) ==
  LET stop(q, trim) == [buf |-> buf, lines |-> lines, e |-> e, quote |-> q,
                        trimParen |-> trim, eof |-> FALSE]
  IN
  CASE e >= Len(buf) -> stop(quote, trimParen)
    [] e < Len(buf) /\ buf[e] = Slash /\ buf[e + 1] = NL ->
         IF lines = <<>> THEN [stop(quote, trimParen) EXCEPT !.eof = TRUE]
         ELSE WordEnd(SubSeq(buf, 1, e - 1) \o Head(lines), Tail(lines), s, s,
                      quote, trimParen)
    [] e < Len(buf) /\ buf[e] = Slash /\ buf[e + 1] # NL ->
         WordEnd(buf, lines, s, e + 2, quote, trimParen)
    [] e < Len(buf) /\ quote = "" /\ (buf[e] \in {" ", NL} \/ isSpecialChar(buf[e])) ->
         stop(quote, trimParen)
    [] e < Len(buf) /\ buf[e] \in Quotes /\ quote = buf[e] -> stop("", TRUE)
    [] e < Len(buf) /\ buf[e] \in Quotes /\ quote = "" ->
         WordEnd(buf, lines, s, e + 1, buf[e], TRUE)
    [] OTHER -> WordEnd(buf, lines, s, e + 1, quote, trimParen)

(* Mutant: backslashes are kept. *)
UnescapeNot(chars) == chars

(* The copy loop: a backslash gives way to the character after it. *)
RECURSIVE Unescape(_)
Unescape(chars) ==
  IF chars = <<>> THEN <<>>
  ELSE IF Head(chars) # Slash \/ Len(chars) = 1
  THEN <<Head(chars)>> \o Unescape(Tail(chars))
  ELSE <<chars[2]>> \o Unescape(SubSeq(chars, 3, Len(chars)))

Parsed(outcome, tokens, lines) == [outcome |-> outcome, tokens |-> tokens, lines |-> lines]

(* The tokens of buf from s on, and the lines that are left: "exit" when   *)
(* getline finds the end of the input.  If a word stops where it started   *)
(* with a quote closed, endPos - startPos - 1 wraps around and calloc      *)
(* returns NULL: "crash".  For an operator trimParen is read before it is  *)
(* set; its place on the stack holds the false of the token before.        *)
RECURSIVE Tokens(_, _, _, _)
Tokens(buf, lines, start, argList) ==
  LET s == Min({k \in start .. Len(buf) + 1 :
                  k > Len(buf) \/ (buf[k] # " " /\ ~(buf[k] = NL /\ k = 1))})
      opEnd == Min({k \in s .. Len(buf) : ~isSpecialChar(buf[k])})
      w == WordEnd(buf, lines, s, s, "", FALSE)
      word == IF w.trimParen THEN SubSeq(w.buf, s + 1, w.e - 1) ELSE SubSeq(w.buf, s, w.e - 1)
  IN
  IF s > Len(buf) \/ buf[s] = NL THEN Parsed("ok", argList, lines)
  ELSE IF isSpecialChar(buf[s])
  THEN Tokens(buf, lines, opEnd, Append(argList, SubSeq(buf, s, opEnd - 1)))
  ELSE IF w.eof \/ (w.quote # "" /\ w.lines = <<>>) THEN Parsed("exit", argList, <<>>)
  ELSE IF w.quote # "" THEN Tokens(w.buf \o Head(w.lines), Tail(w.lines), s, argList)
  ELSE IF w.trimParen /\ w.e = s THEN Parsed("crash", argList, w.lines)
  ELSE Tokens(w.buf, w.lines, IF w.trimParen THEN w.e + 1 ELSE w.e,
              Append(argList, Unescape(word)))

-----------------------------------------------------------------------------
(* From tokens to commands *)

isSpecialToken(t) == t # <<>> /\ isSpecialChar(t[1])

OperatorType(t) ==
  LET twice == Len(t) > 1 /\ t[2] = t[1] IN
  CASE t[1] = "&" /\ twice  -> "AND"
    [] t[1] = "|" /\ ~twice -> "PIPE"
    [] t[1] = "|" /\ twice  -> "OR"
    [] t[1] = ">" /\ ~twice -> "WRITE"
    [] t[1] = ">" /\ twice  -> "APPEND"
    [] OTHER -> "UNKNOWN"

Word(t) == t # <<>>

(* A run of tokens that are no operators is a command; empty ones are      *)
(* dropped, and a command with nothing left has no argv[0] to look at.     *)
Regular(tokens) ==
  LET argv == SelectSeq(tokens, Word) IN
  [type |-> CASE argv = <<>> -> "CRASH"
              [] argv # <<>> /\ argv[1][1] = "#" -> "COMMENT"
              [] OTHER -> "REGULAR",
   argv |-> argv]

RECURSIVE Commands(_)
Commands(tokens) ==
  IF tokens = <<>> THEN <<>>
  ELSE IF isSpecialToken(tokens[1])
  THEN <<[type |-> OperatorType(tokens[1]), argv |-> <<>>]>> \o Commands(Tail(tokens))
  ELSE LET n == Max({k \in DOMAIN tokens : \A j \in 1 .. k : ~isSpecialToken(tokens[j])})
       IN  <<Regular(SubSeq(tokens, 1, n))>> \o Commands(SubSeq(tokens, n + 1, Len(tokens)))

(* Mutant: the array is not extended. *)
CommandSlotsFixed == INITIAL_SEQUENCE_SIZE

(* allocateCommand: extendCommandArray adds EXTENSION_SIZE slots when the  *)
(* array is first full; it leaves the capacity alone, so never again.      *)
CommandSlots == INITIAL_SEQUENCE_SIZE + EXTENSION_SIZE

(* addArg: extendArgv frees argv and does not replace it, and a full argv  *)
(* has no NULL at its end.                                                 *)
ArgSlots == INITIAL_SEQUENCE_SIZE - 1

(* What parser returns for the lines it may read. *)
parser(lines) ==
  LET lexed == IF lines = <<>> THEN Parsed("exit", <<>>, <<>>)
               ELSE Tokens(Head(lines), Tail(lines), 1, <<>>)
      array == IF lexed.outcome = "ok" THEN Commands(lexed.tokens) ELSE <<>>
      broken == \/ Len(array) > CommandSlots
                \/ \E k \in DOMAIN array : \/ Len(array[k].argv) > ArgSlots
                                           \/ array[k].type = "CRASH"
  IN  [outcome |-> IF broken THEN "crash" ELSE lexed.outcome,
       tokens |-> lexed.tokens, lines |-> lexed.lines, array |-> array]
=============================================================================
