------------------------------ MODULE MCPipeline ------------------------------
(***************************************************************************)
(* Source files, character by character: the default program, examples of  *)
(* the language with the code they mean, and files of two items, many of   *)
(* them wrong in one of the stages.                                        *)
(***************************************************************************)
EXTENDS Pipeline

Words ==
  [motif |-> <<"m", "o", "t", "i", "f">>, extern |-> <<"e", "x", "t", "e", "r", "n">>,
   main  |-> <<"m", "a", "i", "n">>,      print  |-> <<"p", "r", "i", "n", "t">>,
   fact  |-> <<"f", "a", "c", "t">>,      is     |-> <<"i", "s">>,
   f     |-> <<"f">>, g |-> <<"g">>, a |-> <<"a">>, b |-> <<"b">>]

MCMotif  == Words.motif
MCExtern == Words.extern
MCIs     == Words.is
\* A part of a word is no name of the examples.
MCNameOfWord(word) ==
  LET names == { name \in DOMAIN Words : Words[name] = word }
  IN  IF names = {} THEN "part" ELSE CHOOSE name \in names : TRUE

\* The text of a sequence of words and characters: words get a blank.
Text(parts) ==
  FlattenSeq([i \in DOMAIN parts |->
    IF parts[i] \in DOMAIN Words THEN Append(Words[parts[i]], " ") ELSE <<parts[i]>>])

-----------------------------------------------------------------------------
(* The examples *)

\* main.swift and README.md: factorial.
Factorial ==
  Text(<<"#", "f", "newline",
         "motif", "fact", "(", "a", ")", "{", "newline",
         "is", "a", "<", "1", "?", "a", ":", "a", "*", "fact", "(", "a", "-", "1", ")",
         "newline", "}", "newline",
         "print", "(", "fact", "(", "5", ")", ")">>)

Declarations ==
  Text(<<"extern", "g", "(", "a", ")", "newline",
         "motif", "f", "(", "a", ",", "b", ")", "{", "b", "+", "g", "(", "a", ")", "}",
         "print", "(", "g", "(", "1", ".", "5", ")", ")">>)

\* What their functions return, and what main calls.  Numbers are not told
\* apart.
Param(i)        == Generate!Source!Term("param", <<i>>, <<>>)
Number          == Generate!Source!Term("number", <<>>, <<>>)
Op(op, args)    == Generate!Source!Term(op, <<>>, args)
Call(name, arg) == Generate!Source!Term("call", <<name>>, <<arg>>)

Meaning ==
  [t \in {Factorial, Declarations} |->
     IF t = Factorial
       THEN [name  |-> "fact",
             value |-> Op("cond", << Op("<", <<Param(1), Number>>), Param(1),
                                     Op("*", <<Param(1), Call("fact", Op("-", <<Param(1), Number>>))>>) >>),
             calls |-> << Call("fact", Number), Call("print", Call("fact", Number)) >>]
       ELSE [name  |-> "f",
             value |-> Op("+", <<Param(2), Call("g", Param(1))>>),
             calls |-> << Call("g", Number), Call("print", Call("g", Number)) >>]]

RECURSIVE Erased(_)
Erased(term) ==
  IF term.op = "number" THEN Number
  ELSE [term EXCEPT !.args = [i \in DOMAIN @ |-> Erased(@[i])]]

Means(m) ==
  LET f     == Generate!Named(functions, m.name)
      main_ == Generate!Named(functions, "main")
      made  == Generate!CallsOf(main_, 1)
  IN  /\ Erased(Generate!Returns(f)) = m.value
      /\ [i \in DOMAIN made |-> Erased(made[i])] = m.calls

IsExample == text \in DOMAIN Meaning /\ arguments \in { <<>>, <<"program">> }

Compiled ==
  /\ IsExample
  /\ stage = "exited" /\ shown \subseteq {"bitcode"}
  /\ Means(Meaning[text])

(* Programs of the language go all the way: every stage takes them, no     *)
(* error is shown (the file may still not be writable: {}), and            *)
(* the bitcode of each function means what its text says.                  *)
ExamplesCompile == IsExample ~> Compiled

-----------------------------------------------------------------------------
(* Files of two items *)

MotifText(body) == Text(<<"motif", "f", "(", "a", ")", "{">> \o body \o <<"}">>)

Bodies ==
  { <<"a", "+", "1">>, <<"a">>, <<>>, <<"b">>, <<"a", ">", "1">>, <<"a", "<", "1">>,
    <<"a", "+", "a", "*", "1">>, <<"f", "(", "a", ")", "+", "a">>, <<"1", "+", "2">>,
    <<"(", "a", "+", "1", ")">>, <<"a", "+", "{", "a", "+", "1", "}">>, <<"+", "a">>,
    <<"is", "a", "<", "1", "?", "a", ":", "a", "+", "1">>,
    <<"is", "a", "<", "1", "?", "is", "a", "<", "1", "?", "a", ":", "a", ":", "a", "+", "1">>,
    <<"is", "a", "?", "a", ":", "a">>, <<"is", "a", "<", "1", "?", "a", ":">> }

Items ==
  { MotifText(body) : body \in Bodies }
  \cup { Text(s) : s \in
    { <<>>, <<"extern", "f", "(", "a", ")">>, <<"extern", "f">>, <<"motif", "g", "(", ")", "{", "}">>,
      <<"f", "(", "1", ")">>, <<"print", "(", "f", "(", "1", ")", ")">>, <<"print", "(", "a", ")">>,
      <<"f", "(", "1", ",", "2", ")">>, <<"f", "(", ")">>, <<"main", "(", ")">>,
      <<"1", ".", "2", ".", "5">>, <<"1", "+", "2">>, <<",">>, <<")">>, <<"%", "a">>,
      <<"#", "a", "newline">>, <<"#", "a">>, <<"is", "1", "?", "2", ":", "1">> } }

Files2 == { first \o second : first \in Items, second \in Items }

Flagged == { <<"program", "-emit-tokens">>, <<"program", "-emit-ast">>,
             <<"program", "-emit-llvm">>, <<"missing">> }

Invoke(args, texts) == { [arguments |-> args, text |-> t] : t \in texts }

MCInvocations ==
  Invoke(<<>>, {Factorial})
  \cup Invoke(<<"program">>, Files2 \cup {Declarations})
  \cup UNION { Invoke(args, {Factorial, Declarations} \cup Items) : args \in Flagged }

=============================================================================
