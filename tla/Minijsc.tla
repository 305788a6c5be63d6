------------------------------- MODULE Minijsc -------------------------------
(***************************************************************************)
(* The program minijsc: main hands every source, the file named on the     *)
(* command line or a line typed at the prompt, to `run', which makes a     *)
(* parser and, of what it parses, an interpreter.  Neither catches what    *)
(* they throw.  Sources come as the tokens the lexer makes of them, which  *)
(* Tokenizer describes.                                                    *)
(***************************************************************************)
EXTENDS Interpreter, Parser

CONSTANTS
  Session,      \* sequences of elements of Source
  Functions,    \* [name, params] of the functions in them
  MaxScopes     \* more scopes than any of them uses at once

ASSUME SessionAssumption ==
  /\ Session \subseteq Seq(Source)
  /\ Functions \subseteq [name : String, params : Seq(String)]
  /\ MaxScopes \in Nat \ {0}

VARIABLES
  sources,      \* what is still to be read
  phase         \* what main is doing, or how the process ended

vars == <<sources, phase, parserVars, interpreterVars>>

Init ==
  /\ sources \in Session
  /\ phase = "prompt"
  /\ tokens = <<Eof>>
  /\ current = 0
  /\ todo = <<>>
  /\ results = <<>>
  /\ parsed = "done"
  /\ InterpreterInit

\* getline succeeds; `run' makes a parser, with a tree of its own.
ReadSource ==
  /\ phase = "prompt" /\ sources # <<>>
  /\ sources' = Tail(sources)
  /\ phase' = "parsing"
  /\ tokens' = Append(Head(sources), Eof)
  /\ current' = 0
  /\ todo' = <<Statements("Program", 0)>>
  /\ results' = <<>>
  /\ nodes' = <<>>
  /\ parsed' = "parsing"
  /\ UNCHANGED <<control, locals, valueStack, scopes, declared, status>>

\* main returns.
EndOfInput ==
  /\ phase = "prompt" /\ sources = <<>>
  /\ phase' = "returned"
  /\ UNCHANGED <<sources, parserVars, interpreterVars>>

Parse ==
  /\ phase = "parsing"
  /\ ParserNext
  /\ UNCHANGED <<sources, phase, control, locals, valueStack, scopes, declared, status>>

\* parse has thrown, and nothing catches it, or is undefined.
ParseFailed ==
  /\ phase = "parsing" /\ parsed \notin {"parsing", "done"}
  /\ phase' = IF parsed = "undefined" THEN "undefined" ELSE "terminated"
  /\ UNCHANGED <<sources, parserVars, interpreterVars>>

\* auto interpreter = Interpreter(); interpreter.run(code)
StartInterpreter ==
  /\ phase = "parsing" /\ parsed = "done"
  /\ phase' = "interpreting"
  /\ Start(results)
  /\ UNCHANGED <<sources, parserVars>>

Interpret ==
  /\ phase = "interpreting"
  /\ InterpreterNext
  /\ UNCHANGED <<sources, phase, parserVars>>

\* `run' returns to main, and its interpreter is gone, with every name.
RunReturned ==
  /\ phase = "interpreting" /\ status = "done"
  /\ phase' = "prompt"
  /\ Start(<<>>)
  /\ UNCHANGED <<sources, parserVars>>

\* An exception leaves `run' and main, or the interpreter is undefined.
RunFailed ==
  /\ phase = "interpreting" /\ status \in {"error", "terminated", "crashed"}
  /\ phase' = IF status = "crashed" THEN "undefined" ELSE "terminated"
  /\ UNCHANGED <<sources, parserVars, interpreterVars>>

RunSource ==
  Parse \/ ParseFailed \/ StartInterpreter \/ Interpret \/ RunReturned \/ RunFailed

MinijscNext == ReadSource \/ EndOfInput \/ RunSource

\* The process is one thread, and goes on while it has a source to run; when
\* the next line is typed is up to the user.
Spec == Init /\ [][MinijscNext]_vars /\ WF_vars(RunSource)

(***************************************************************************)
(* Properties.                                                             *)
(***************************************************************************)

\* Activation records and values.  No local outlives its visitor.
MinijscTypeOK ==
  /\ WellFormed([nodes |-> nodes, stmts |-> <<>>])
  /\ ToSet(locals) \cup ToSet(valueStack)
       \subseteq Value \cup {NoValue} \cup {Function(k) : k \in DOMAIN nodes}
  /\ currIdx \in 0 .. Len(symTables) - 1
  /\ control = <<>> => locals = <<>>
  /\ status \in {"running", "done", "error", "crashed", "terminated"}
  /\ phase \in {"prompt", "parsing", "interpreting", "returned", "terminated", "undefined"}

(***************************************************************************)
(* The interpreter is one of the runs of ScopeStack, whose invariants hold *)
(* of it.                                                                  *)
(***************************************************************************)

SignatureOf(k) == [name |-> nodes[k].name, params |-> nodes[k].params]

\* A scope with functions known by their signatures.
Abstracted(scope) ==
  [scope EXCEPT !.values =
     [n \in DOMAIN @ |-> IF @[n].kind = "Function" THEN SignatureOf(@[n].val) ELSE @[n]]]

IsEnd(item) == item.do \in {"block", "call"}

FrameOf(item) == [kind |-> item.do, saved |-> item.saved, base |-> item.base]

\* The frames of the blocks and calls that have not ended in a list of
\* records, innermost last.
Active(records) ==
  LET active[n \in 0 .. Len(records)] ==
        IF n = 0 THEN <<>>
        ELSE LET item == records[Len(records) - n + 1]
             IN  IF IsEnd(item) THEN Append(active[n - 1], FrameOf(item)) ELSE active[n - 1]
  IN  active[Len(records)]

S == INSTANCE ScopeStack WITH
       Name       <- String,
       Data       <- Value,
       Func       <- Functions,
       MaxScopes  <- MaxScopes,
       symTables  <- [i \in DOMAIN symTables |-> Abstracted(symTables[i])],
       valueStack <- Len(valueStack),
       frames     <- Active(control),
       declared   <- {SignatureOf(k) : k \in declared},
       status     <- IF status = "done" THEN "running" ELSE status

\* Every step of the interpreter does to the scopes what one of ScopeStack
\* does, or nothing; with every source it begins anew.
ImplementsScopes ==
  /\ S!Init
  /\ [][IF RunReturned THEN S!Init' ELSE S!Next]_(S!vars)

\* Whatever a source is, it is dealt with: parser and interpreter come to an
\* end, for every source without an endless loop of its own that the parser
\* does not hang on.
SourceAnswered ==
  phase \in {"parsing", "interpreting"} ~> phase \notin {"parsing", "interpreting"}

(***************************************************************************)
(* What the source says of itself and the code does not do.                *)
(***************************************************************************)

\* "Variable declarations can either have an initial value or are assigned the
\* `null` value" (Interpreter.cpp, visitVarDecl)
DeclaredNull ==
  [][ Interpret /\ Back("VarDecl") /\ Self.init = 0
      => Running' /\ Scope(currIdx)'.values[Self.name] = Null ]_vars

===============================================================================
