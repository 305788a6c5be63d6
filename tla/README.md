# A verification project for minijsc

minijsc is a small JavaScript implementation in C++: a lexer, a parser and a
tree-walking interpreter, and next to them a second, unfinished path that
compiles the tree to bytecode for a stack machine.  A mark-and-sweep collector
in C (`gc/gc.c`) stands beside both; nothing uses it yet.  The program is
sequential.  What is hard in it is not interleaving but bookkeeping: a scope
pointer that three functions update in different orders and exceptions skip, a
collector that runs in the middle of an allocation, two evaluators that are
meant to agree, bytecode whose reader and writer must keep in step, and a
parser whose loops get on only if every function they call does.

Paths below are relative to the repository.

## 1. The system

| Component | Code | State | Operations |
|---|---|---|---|
| Interpreter: scopes and calls | `include/Interpreter.h`, `src/lib/Interpreter.cpp`, `include/JSCallable.h`, `include/JSRuntime.h` | the vector `symTables` of environments with parent indices, `currIdx`, the value stack | `define`, `assign`, `resolve`, `visit*`, `executeBlock`, `appendSymbolTable`, `popSymbolTable`, `JSFunction::call`, the exception `JSReturn` |
| Mark-and-sweep collector | `gc/gc.c` | object list, mark bits, stack, `numObjects`, `maxObjects` | `newVM`, `push`, `pop`, `pushInt`, `pushPair`, `newObject`, `mark`, `markAll`, `sweep`, `gc`, `freeVM` |
| Bytecode compiler | `include/BytecodeCompiler.h`, `src/lib/BytecodeCompiler.cpp` | bytecode buffer, constants pool | one visitor per node, two `emit`s, `addValue` |
| Virtual machine | `include/VM.h`, `src/lib/VM.cpp` | `ip`, value stack, globals | `run`, one case per instruction |
| Bytecode | `include/Bytecode.h` | none | the numbering of instructions |
| Values | `include/JSValue.h` | kind and datum | `getValue`, comparisons, truthiness, arithmetic |
| Syntax tree | `include/AST.h` | the nodes | getters, `accept` |
| Disassembler | `src/lib/Bytecode.cpp` | an offset | a walk over the bytecode |
| Optimizer | `include/ASTOptimizer.h`, `src/lib/ASTOptimizer.cpp` | an expression stack | constant folding, one visitor per node |
| Lexer | `include/JSLexer.h`, `src/lib/JSLexer.cpp` | cursor, tokens | `scanTokens`, `scanString`, `scanNumber`, ... |
| Parser | `include/JSParser.h`, `src/lib/JSParser.cpp` | cursor over the tokens | recursive descent, loop in `parse` |
| Tokens | `include/JSToken.h`, `src/lib/JSToken.cpp` | none | printing |
| Command line, prompt | `src/bin/main.cpp` | none: every source, the file or a line, gets a lexer, a parser and an interpreter of its own | `run`, `runFile`, `runPrompt` |
| JIT context, IR | `include/Jit.h`, `include/IR.h` | a mapped page | only a test uses the first, nothing the second |
| Vendored | `third_party/fmt`, `tests/doctest.h` | | |

How they interact: the prompt hands text to the lexer, its tokens to the
parser and the statements to the interpreter, all by plain calls.  The
interpreter calls back into itself through `JSFunction::call`, and
`JSReturn` and `runtime_error` cut through any number of these activations at
once.  Compiler and machine share nothing but two buffers that are copied, the
bytecode and the constants pool.  The collector has one client, its own tests.

Which behaviours are hard, and what makes each part correct:

* **Scopes.**  `executeBlock` pushes a scope and increments `currIdx`; on the
  way out it reloads `currIdx` from a parent pointer and pops the vector.
  `call` pushes a scope with `appendSymbolTable`, and `executeBlock` pushes it
  again.  The handler of `JSReturn` pops one scope, however many the callee had
  pushed.  Correct means: the pointer, the vector and the parent pointers
  describe one stack; a name means the newest binding; an exit takes away what
  the entry brought and never what belongs to somebody else.
* **The collector.**  An allocation may collect first, while its operands are
  only on the stack; objects form cycles; `sweep` unlinks what it stands on; a
  threshold compared with `==` decides when to collect.  Correct means: nothing
  the stack leads to is freed, everything else is freed by each collection, the
  bookkeeping is exact, and a collection ends.
* **Compiler and machine.**  Instructions are one byte or two, without
  alignment; an offset is cut to a byte; some visitors emit nothing, and a null
  operand, which `compile` passes over, emits nothing either.  Correct
  means: instruction boundaries agree, nothing is popped that was not pushed
  unless the tree leaves it out, and the result is what the tree means and what
  the interpreter would compute.
* **Interpreter on a program.**  Values half computed survive calls, returns
  and leaked scopes; short circuits decide what runs; null pointers and
  function values reach places that expect a basic value.  Correct means: the
  scopes are a stack in the sense above, and the values are those that
  JavaScript's scopes prescribe wherever the known leaks cannot be seen.
* **Lexer.**  One or two characters of lookahead, at the end of the source too;
  two loops that pass line ends.  Correct means: the longest lexeme at every
  position, the right text in it, an end.
* **Parser.**  Six levels of operators in six functions, optional parts, lists
  with a limit, null pointers for what is missing.  Correct means: no token is
  lost or put under the wrong node, precedence and the rule for `else` decide,
  what the grammar derives is accepted, and the loops end.
* **Prompt.**  An exception that leaves `run` leaves `main`.  Correct means:
  every source is dealt with, and a line starts from nothing.
* **Optimizer, disassembler.**  Folding goes through a stack that other visits
  use; the walk over the bytes steps one byte whatever it finds.  Correct
  means: the meaning stays, and every instruction that runs is listed.

`PROJECT.json` lists the hazards with their lines, the components with their
status, and the lines of code each definition stands for.

## 2. The modules

| Module | Models | |
|---|---|---|
| `ScopeStack` | interpreter: scopes and calls, over all programs | `MCScopeStack` instantiates it |
| `ProofBasics`, `ScopeStackProofs` | | theorems about `ScopeStack` |
| `ManagedHeap` | what a garbage-collected heap promises | the abstract specification |
| `GC` | `gc/gc.c` | implements `ManagedHeap`; `MCGC` instantiates it |
| `GCProofs` | | theorems about `GC` |
| `JSValue`, `AST`, `Tree`, `Bytecode` | values, nodes, the tree shared by parser and interpreter, instruction set | operators only |
| `BytecodeCompiler` | the compiler, one visit per step | |
| `Optimizer`, `Disassembler` | constant folding; the walk over the bytes | |
| `VM` | the machine, one instruction per step | |
| `CompileAndRun` | the bytecode path composed, and the meaning of a tree | `MCCompileAndRun` instantiates it |
| `MeaningProofs` | | theorems about `CompileAndRun` |
| `Lexical`, `Tokenizer` | character classes and tables; the longest lexeme | the abstract specification |
| `Lexer` | the lexer, one character per step | implements `Tokenizer`; `MCLexer` instantiates it |
| `LexerProofs` | | theorems about `Lexer` |
| `Parser` | the parser, one call or loop test per step | `MCParser` instantiates it |
| `ParserProofs`, `ReadingProofs` | | theorems about `Parser` |
| `Interpreter` | the interpreter on a given program, one visit per step | |
| `Semantics` | what a program means with JavaScript's scopes | the reference; nothing of the code |
| `Minijsc` | `main`, `run`, parser and interpreter composed | implements `ScopeStack` |
| `MinijscProofs` | | theorems about `Minijsc` |
| `Agreement` | `Minijsc` against `Semantics` | `MCMinijsc` instantiates it |

Several modules have a section called *Mistakes*.  It holds operators that no
action refers to: each is an action with one slip a maintainer might make.  For
every property there is one that breaks it; `PROJECT.json` lists the pairs
under `mutants`.

### ScopeStack

State: `symTables` (a sequence; C++ index *i* is element *i*+1, and -1 is the
parent of the global scope), `currIdx`, the *height* of the value stack,
`status`, and `frames`, the part of the C++ call stack that matters: one record
per active block or function body, with the local `currentScopeIdx` it saved.
A record also notes the height of the value stack at entry, which the code does
not; properties use it and no action reads it.

The program is not fixed.  At every moment any statement a program could
contain next may run: a declaration, an assignment, a use of an undefined name,
entering or leaving a block, a call of any function some visible name is bound
to, a `return`, a null dereference.  So a behaviour is a run of some program,
and the invariants are about all programs over the given names.  An action is a
whole visitor up to the point where another statement may run: `Call` is
`visitCallExpr` and `JSFunction::call` up to the first statement of the body,
`CallFinish` the rest, `ReturnStmt` the throw, the catch and the return to the
caller.

Abstracted: values are `Data` or a function; the evaluation of an expression is
its effect on scopes and on what stays on the value stack.  A call with fewer
arguments than parameters is undefined behaviour, and `Interpreter` has it; here
it is one of the ways to crash.  The undefined behaviour of dereferencing a null
`JSBasicValue` is an action that ends the run in the status `crashed`.

### ManagedHeap and GC

`ManagedHeap` has the references of the client, the live objects, their fields,
and nothing else.  An object that is not in use may disappear at any time; one
that is in use may not.  *In use* is the definition the code gives in its
comments, as the least set that is closed under it.

`GC` is the collector one object at a time: `Mark` is one call of the recursive
`mark` (`work` holds the calls to come), `Sweep` is one iteration of the loop.
`Request` is `pushInt` or `pushPair` up to the allocation, which may start a
collection first, and `AllocInt` and `AllocPair` are the rest.  `SetField` is
what a client, such as the tests, does with `a->second = b`.  The refinement
mapping takes the members of the object list for the live objects and forgets
the rest; `Mark`, `MarkDone`, `SweepDone` and sweeping a reached object are
stuttering steps.  Asserts that fail `exit` the process: status `exited`.

Memory: an object is an address; freed memory reads as no fields, which nothing
may rely on, because `NoDangling` says that nothing in use is freed.

### The bytecode path: JSValue, AST, Bytecode, BytecodeCompiler, Optimizer, Disassembler, VM, CompileAndRun

A program is a sequence of nodes in which children come before parents.  The
C++ recursion of the compiler is the list `todo` of activation records, so that
the order in which bytes and constants are appended is the code's own.  The VM
fetches bytes; operands and instructions are not distinguished in the buffer,
as in the code.  Operand offsets wrap at 256.

Popping an empty `std::vector`, calling `back()` on it, or indexing past the
constants pool is undefined behaviour.  There is no outcome to enumerate that
would mean anything, so the run ends in the result `undefined`, and properties
say when that cannot happen.

Numbers are doubles in the code and a small set of integers with a given
arithmetic here (`Number`, `Arith`): what is checked does not depend on what a
sum is, only on which operands it gets.  Infinities and not-a-number are left
out; so nothing here says how a comparison with a not-a-number behaves.  A
string is its rank among strings, 0 being the empty one.

`CompileAndRun` also states the meaning of a tree without any reference to
bytecode.  `NodeMeaning` gives a node its value from those of its operands, with
the operators of the machine or those of the interpreter, and `Meaning` is the
recursive function over the nodes that it defines.  `StmtEffect` is what a
statement does to the stack and the globals, and `Outcome` the effect of all
statements of the program.  `Compilable` is what the classes of the nodes make
sure of: an operand is an expression or null, a statement a node or null.  Null
pointers are the compiler's business.  The parser leaves one for an operand it
does not find (`var a = 1 + ;`), `compile` passes over it (`VisitNull`), and the
visitor of the operator emits its instruction all the same.  Then, and where an
operand is an assignment or a call, whose visitors are empty, a value is
missing.  `Supported` says that what the compiler visits of a program is `Whole`:
no value is left out.

For all others there is an account of the height of the stack.  Code is a
*move*: how far it reaches below the stack it begins with, how much higher it
leaves it, and whether it ends the program.  `Then` composes two of them,
`NodeMove` gives each node its move from those of its operands, and `Starved`
says that the move of the whole program reaches below the empty stack.

An expression compiled by itself may first be rewritten by the optimizer, and
other expressions may be visited before that without anybody taking the result
(`VisitOnly`), as the tests do.  `rewriteAST` of an expression that is not
binary is a cast the code has no answer for; a caller must not do it, and no
action does.  The disassembler is an operator: the list of offsets and names
it prints for a sequence of bytes.  Its place in the machine (a member that
exists in a tracing build) prints and changes nothing.

### Lexical, Tokenizer, Lexer

A character stands for its class, except where tables ask for it.  `mode` is the
scanning function that is active.  `Tokenizer` says what comes out: at `pos`,
the longest lexeme there is, or one character dropped.  It knows no lookahead
and no modes; words, numbers and strings are predicates on sequences.  The
refinement mapping holds `pos` at the start of the token while one is being
scanned, so that all steps but the last of a token stutter.

### AST, Tree, Parser

`todo` is the list of what the active calls still have to do, innermost first,
and `results` what finished calls have returned.  `Rule` says what follows the
token a statement begins with, as a list of records: `Consume` is `consume`,
`Unless` an optional expression, and so on; an action takes the first record
and may put others in its place.  A call whose only effect is to call the next
one (`parseExpr`, and each level of operators on the way down) is taken
together with it.  `parse`, whose loop is also that of `parseBlockStmt`, is
`ParseStatements`.

Exceptions end the parse, with their C++ type in `parsed`, for nobody catches
them.  Three expressions of the source are undefined for some input and end in
`undefined`: the log line that prints the token behind the next, and two
questions to a null pointer for its kind.  Where the parser hangs it adds
statements for ever; `MaxStmts` is the bound there.  Once a list is as long as
the input, an empty statement at its end is forgotten when another is parsed,
and only an empty statement: none of the list's tokens goes with it, and no
input that the parser gets through has so many.

A token is a kind and a literal (`Token`), as `JSToken` is but for the lexeme;
what the model keeps of the lexeme of an identifier is its literal, the name.

### Interpreter, Minijsc, Semantics, Agreement

`control` is what the active visitors still have to do, `locals` what their C++
locals hold, `valueStack` what is on the value stack when no visitor is about
to pop it: exactly the values that calls leave behind.  Values are those of
`JSValue`, a function (its declaration), or the null pointer; `evaluate` of a
null expression is the last of these, and every cast and dereference in the
code is a condition `Basic` or `# NoValue`, whose failure ends the run in the
status `crashed`.  `JSReturn` cuts `control` and `locals` back to the call.

`declared`, the functions declared so far, is a history variable, here and in
`ScopeStack`; no guard of the interpreter reads it.

`Minijsc` is the process.  Each source is parsed and then interpreted, by a
parser and an interpreter of its own, so a function declared on one line is
unknown on the next.  Sources are sequences of tokens: what the lexer makes of
text is `Lexer`'s subject, and the two meet at the token kinds.

`Semantics` evaluates a tree in one recursive definition with the scopes a
JavaScript programmer expects: a scope ends with its block or call, however it
is left, and a function sees the scopes around its declaration.  It shares the
operators on values with the interpreter and nothing else.  `AgreesWithScopes`, in
`Agreement`, compares the two.  They differ where leaked or dynamic scopes can be seen, and
the precondition says when they cannot: no name is declared twice, no function
is active twice, and, for runs that fail, no call has returned before.

## 3. The runs

| Run | Checks | States |
|---|---|---|
| `ScopeStack` | the scope discipline over all programs with one function `f(x)`, variables `f` and `x` | 209,276 |
| `Scope_ReturnUnwinds`, `Scope_FunctionScopeAtTopLevel` | two sentences of the source that the code does not keep | violation |
| `GC` | safety of the collector on every heap of three objects; it implements `ManagedHeap`; a collection ends | 66,636 |
| `CompileAndRun` | compiled code against the meaning of the tree and against the interpreter; optimizer, disassembler; any bytes run to an end | 291,968 |
| `Bytecode_NamesLoaded`, `Bytecode_EqualityShared` | two sentences of the source that the code does not keep | violation |
| `Lexer` | every short text; the lexer implements `Tokenizer`, and ends | 140,757 |
| `Parser` | sentences, damaged sentences and every short sequence of tokens | 411,455 |
| `Parser_ParseEnds` | a statement on which the parser hangs | violation |
| `Minijsc` | 120 sessions: the interpreter implements `ScopeStack` and computes what JavaScript's scopes prescribe; every source is answered | 18,034 |
| `Minijsc_DeclaredNull` | a sentence of the source that the code does not keep | violation |

**ScopeStack.**  `ScopeChain`: pointer, vector and parents are one stack.
`LeaksAccumulate` and `OnlyReturnsLeak`: the accounting of what calls leave
behind (section 5).  `ResolvesToNewest`: a walk along parents finds the newest
binding on the whole stack, whoever made it.  `ExitRestoresUnlessReturned`: the
true form of what the comments promise of every block.  That a return never
gives the caller's scope back follows from `LeaksAccumulate` and is the theorem
`NeverRestores`.  `OlderScopesKeepTheirNames`: a block can change older scopes
by assignment only.  Bounds: five scopes, one
datum, one function with one parameter whose name is also a variable, so that
shadowing, leaking into the caller, calling a name that was rebound and calling
from an inner block all occur; five scopes hold a block around a call around a
block, or a call that returned and one that did not.  `MaxScopes` is the one
bound in the guards; the violation runs use six.

**GC.**  `NoDangling`, `ListExact`, `ThresholdHolds`, `MarksCleared`,
`WorkBounded` and `NothingLeaks` hold at every step of a collection, not only
between two; `CollectsExactly` says that a collection leaves the objects in use
and no other.  `ImplementsHeap` is the refinement, `CollectionEnds` the
liveness.  Bounds: three addresses allow a cycle of two pairs around an
integer, sharing, self-reference, garbage that points at live objects and the
reverse; a stack of two slots is the smallest on which a pair can be built, and
overflows.  The threshold of 2 makes collections happen, grow the threshold and
reset it.  Where the code has a stack of 256 slots and starts at eight objects,
nothing in it depends on these numbers; all but the liveness property are also
proved for every value of them.

**CompileAndRun.**  Every tree made of two leaves out of seven, an operation on
them and one on that, every operator in the middle position; sums of literals
of every kind within other expressions, for the optimizer; pairs of
declarations where the second reads or redeclares the first, with statements
that compile to nothing and a `return` between; trees in which a value is left
out, by a null operand, an assignment or a call, at either of two depths, behind
expressions that leave a value in its place, null statements or a `return`; and
128 declarations, whose 256 constants are the most
a byte can address.  Besides, all sequences of at most four bytes out of ten:
one instruction of every form, a byte that is no instruction, and two valid
offsets.  `CompiledMeansSource`: stack and globals at the end are those of the
meaning, rewritten or not.  `UnderflowForeseen`: a program is run to a result
unless it is `Starved`, and a starved one never is; a supported one is not
starved.  `InSync`: the machine finds an instruction wherever it looks for one.
`AgreesWithInterpreter`: on numbers under arithmetic, equality, `<=` and `>=`,
and on booleans under the logical operators, the two evaluators agree.  (`<` and
`>` are outside because the machine's `Greater` shares the case of
`GreaterEqual`, and `Lesser` that of `LesserEqual`; `==` on booleans because the
interpreter compares them as the number 0.)  Machine and interpreter also differ on the value of `and` and
`or`; `AgreedType` states the part of the language where they agree.
`FoldingKeepsMeaning`: the optimizer takes its own result and no other off its
stack, and folding does not change what the machine computes; `MaxKept`, one,
is the bound on results left there.  `ListsInstructions`: wherever the machine
is about to fetch, the disassembler has a line for that offset.  `RunEnds`: any
bytes at all are run to an end.

**Lexer.**  Every text of at most four characters out of eleven, a few of each
class, and every text of up to five out of the characters numbers, strings and
operators are made of.  Four characters hold a keyword and the beginning of the
next token, or an operator behind a string; five hold a number with two dots,
or a string with a line end in it and one behind it.  `ImplementsTokenizer` is
the main property: kind, extent and text of every token.  `LineCounted`: the
line is that of the cursor in every mode.  `LexEnds`: every text ends.

**Parser.**  Each binary operator against each, with prefix operators, groups
and calls; every pair of nested conditionals and loops, for `else`;
declarations, loops with every part missing or present; lists at the limit
`kMaxArgs`, which is three here, and one past it.  Then the same with one token
missing, or replaced by a semicolon or a comma; and every sequence of at most
three tokens out of nineteen.  `ReadsBack`: between two statements, the tree
written out again is the input up to the cursor: nothing lost, swapped or taken
twice, for inputs that end in an error or hang later, too.
`GroupedByPrecedence` and `NearestElse` say which of the trees with this text
it is.  `AcceptsSentences`: what the grammar derives is accepted, including
lists of exactly `kMaxArgs`, and no list in the tree is longer.  `EndsOrHangs`: the parser ends or is back for
ever at a token with which no statement begins, and nothing else hangs it; it
never hangs inside a block that is not closed.  `StepsDescend` says why: at any
other token each step leaves less `Work` until the token is taken.

**Minijsc.**  A declaration, a function with one of six bodies and one of eleven
uses of it: in operands, arguments, conditions, nested blocks and loops;
recursion and a function whose name is assigned to by an argument; 24 sources
that fail, each in a way of its own; and sessions of two lines.
`ImplementsScopes`: each step does to the scopes what a step of `ScopeStack`
does, or nothing, so what is proved of `ScopeStack` for every program holds of
these runs.  `AgreesWithScopes` is described above.  `SourceAnswered`: parser
and interpreter come to an end with each of these sources; what may go on for
ever is a loop of the program, or the hang above, and none of the sources has
one.  Numbers run from -1 to 3 with sums cut off; `MaxScopes`, 20, is more than
any of the sources has.

The violation runs check one property each, on the smallest instance that shows
it.

Deadlock is switched off everywhere, because all these programs stop: the
interpreter by an error or an uncaught return, the collector when it is freed
or exits, the machine when it has returned.

### Fairness

All code is sequential, and a function that has been called takes its next
step.  `GC` is fair to the steps of a collection and to nothing else: what the
client calls next, and whether `malloc` finds memory, is nobody's obligation.
`CompileAndRun` is fair to the compiler, to the call of the machine and to its
loop, but not to the optimizer, which a caller need not use.  `Lexer` and
`Parser` are loops of one thread and fair to their next step.  `Minijsc` is
fair to everything from the moment a source has been read until it has been
dealt with, and not to `ReadSource`: when the next line is typed is up to the
user.  `ScopeStack` has no fairness and no liveness property: programs may
loop.

## 4. Findings

Six sentences of the source are not true of it.  Each is a property quoting the
sentence, in a run that finds it violated.

1. *Return statements evaluate the return value and unwind the stack back to
   the call expression* (`Interpreter.cpp:114-115`).  The handler pops one scope
   of the two or more the callee pushed.  After `f(5)` returns, the parameters
   of `f` shadow the caller's variables of the same name, a declaration that
   follows lands in the leaked scope, and each call leaks another scope.  In
   `factorial(x - 1) * x`, the `x` on the right is the callee's; the tests
   write `x * factorial(x - 1)`, which reads `x` first.  `ReturnUnwinds`.
2. *Set the function scope pointer to the top level environment*
   (`JSCallable.h:55,59`).  The parent is the scope of the caller: names
   resolve dynamically.  `FunctionScopeAtTopLevel`.
3. *Load variable name from constants table* (`VM.cpp:125`).  With the 257th
   constant the offset wraps to 0, and the name is whatever is there.
   `NamesLoaded`.
4. *Used to compare values in the VM and interpreter* (`JSValue.h:82-83`).  The
   interpreter compares the numbers of both sides, 0 for anything that has
   none: to it any two strings are equal.  `EqualityShared`.
5. *JSParser is a recursive descent parser that builds the abstract syntax
   tree* (`JSParser.h:25-26`).  On an empty statement, `a;;` or `while (a);`, it
   builds statements without expression until memory ends.  `ParseEnds`.
6. *Variable declarations can either have an initial value or are assigned the
   `null` value* (`Interpreter.cpp:81-83`).  `var a;` dereferences a null
   pointer in a log line before anything is assigned.  `DeclaredNull`.

The models also show, without a run of their own: a call that returns leaves a
second copy of its value on the value stack for ever (`LeaksAccumulate` counts
them); an exception passes `executeBlock` by, so a failed block leaves its
scope; `var a = (b = 0);`, `var a = f();` and `var a = 1 + ;` compile to code
that pops an empty stack (`UnderflowForeseen` says which programs do); an expression statement at the
end of the input reads past the tokens (`ParseExprStmt`).

## 5. The proofs

`ScopeStackProofs` proves for every set of names, values and functions, every
bound on the scopes and behaviours of any length: `TypeCorrect`,
`ScopeChainHolds`, `LeaksAccumulateHolds`, `OnlyReturnsLeakHolds`,
`ResolvesToNewestHolds`, `ExitRestores`, `NeverRestores` and
`OlderScopesKept`.  The only assumption is `ScopeAssumption`: functions have a
name and parameters that are names, and are not data.

`IndInv` is `TypeOK`, `ScopeChain`, `LeaksAccumulate` and `OnlyReturnsLeak`
together.  None of the first two is inductive alone.  `BlockExit` sets
`currIdx` to the parent of the current scope and pops the vector: that keeps
`currIdx` a natural number only if the scope popped is not the global one, and
the reason is not in the state of the scopes but in the accounting.  A live
frame owns one scope (a block) or two (a call); every call that returned since
left at least one scope and exactly one value; and nothing takes either back.
So the scopes between the innermost frame's entry and the present are at least
the frame's own (`LeaksAccumulate`, stated for *all* pairs of frames, since a
`return` removes any number of frames and makes two neighbours of frames that
were far apart).  With this, `BlockExit`, `CallFinish` and `ReturnStmt` pop
only scopes that exist and belong to frames that end.

`ResolvesToNewest` follows from `ScopeChain`: where each scope's parent is the
one before it, the walk of `assign` and `resolve` is a descent through all
scopes.  `Home` is a recursive function; the proof shows that such a function
exists, by well-founded descent, and that it stops at the largest index that
binds the name.  `OlderScopesKept` needs both: a declaration goes to a scope
above the innermost frame's `saved`, by the accounting, and an assignment to
one that binds the name already, by `HomeIsNewest`.  `ProofBasics` has the few
facts about maxima, least elements and sequences it needs.

`GCProofs` proves for every set of addresses, finite or not, every stack
capacity and every threshold (`GCAssumption`: the threshold is not zero):
`TypeCorrect`, `NoDanglingHolds`, `ListExactHolds`, `ThresholdNeverPassed`,
`MarksAreCleared`, `WorkIsBounded`, `FreeVMLeaksNothing`, `CollectionIsExact`,
`CollectionDescends`, and `HeapImplemented`: `Spec => H!Spec`, the refinement
itself.

Its invariant `IndInv` adds to the properties what a collection relies on from
one step to the next.  `Marking` is the tri-colour argument: what is marked or
pending is in use; it contains the roots; and the fields of what is marked are
marked or pending.  So when nothing is pending the marked objects are closed,
and by leastness they are the objects in use.  `Sweeping`: behind the cursor
everything is in use; at and ahead of it exactly the marked objects are; and no
mark is anywhere else, which needs that the list has no duplicates
(`ListExact`).  `RoomToAllocate` and `Freeing` carry what was tested before the
collection over to its end.  Reachability is a least set, and the proofs use
only four facts about it: it is closed, it is least, fields of what is out of
reach do not matter, and an allocation or a store adds at most the new object.
`CollectionDescends` is the safety part of `CollectionEnds`.  An object not yet
marked counts three, for its own call of `mark` and those on its two fields, a
pending call one, and the list is still to be swept: every step inside a
collection leaves less to do (`StillToDo`), whatever cycles the heap has.

`LexerProofs` proves for every set of letters, digits and keywords and every
source of any length `TypeCorrect`, `LineCountedHolds`, `LexerDescends`,
and `TokenizerImplemented`: `Spec => ImplementsTokenizer`.  The assumptions are
`LexicalAssumption` (letters and digits are disjoint, and are no other
characters that the tables or the scanning functions ask for; keywords are
words) and `InputAssumption` (sources are sequences of characters).

`CursorInv` is `TypeOK` and `LineCounted`, on a source that is a sequence; it
is inductive, because each step passes no character, one, or two that are no
line ends.  The refinement needs more, for the step that ends a token knows
only what comes next: `Scanned` says for each scanning function what the
characters passed since the start of the token were (letters and digits behind
a letter; digits; digits with one dot and a digit behind it; anything but a
quote behind a quote).  A lexeme's first character decides which of the four
predicates of `Tokenizer` it can satisfy, so a longer lexeme from the same
start would be one of the same sort, and its next character one on which the
scanning function does not stop.  That is `Longest`, and `MunchStep` turns it
into a step of the tokenizer: the maximum that `Tokenizer` chooses is where the
lexer stands.  `LexerDescends` is the safety part of `LexEnds`: three times the
characters to come, and what the scanning function still has to do on the next
one, is a number that every step makes smaller.

`MeaningProofs` proves, for every set of numbers and
strings with any arithmetic on them, every set of programs and every bytecode
put together by hand: `CompileAndRunTypeCorrect`, `InSyncHolds`,
`MachineRunsForward`, `ListsInstructionsHolds`, `FoldingKeepsMeaningHolds`,
`UnderflowForeseenHolds`, `CompiledMeansSourceHolds` and `AgreesWithInterpreterHolds`.  The assumptions
are `NumberAssumption` and `StringAssumption` (zero and the empty string exist;
arithmetic and concatenation stay in their sets), `ProgramAssumption` (programs
are `Compilable`: nodes of the right classes, or null) and `HandmadeAssumption` (the other bytecode is bytes and
values).

`StateInv` types the state, and adds that a machine that has been loaded has the
buffers of a compiler that is done.  `LaidOut` is what `InSync` needs: there is
a set of boundaries in the code such that a handled instruction begins at each,
ends at the next, and the machine stands on one of them.  Each emit adds one
boundary.  `MachineRunsForward` is the safety part of `RunEnds`, on any bytes:
while the machine runs, `ip` grows with every step and stays in the code.

The main argument is about values.  `Executed` is one instruction, and `Effect`
one item of the compiler's list, as a function of stack and globals
(`Snapshot`).  `Computes` says that there are two sequences of snapshots.  The
*trace* holds one for each boundary in the code that has been emitted, and
consecutive ones are related by the instruction between them.  The *plan* holds
one for each item of `todo`, and consecutive ones are related by the item's
effect.  The plan begins where the trace ends, and ends in `Outcome`: so at
every moment what has been emitted and what is still to come add up to the
meaning of the program.  A visit that is replaced by the visits to its operands
and an emit puts intermediate snapshots into the plan (`VisitForeseen`, by the
meaning of the node); an emit moves the first step of the plan to the end of the
trace (`EmitForeseen`, `EmitValueForeseen`).  The machine then follows the trace
(`MachineFollows`).  `Unstarted` says that an expression is rewritten before any
of its code is emitted, so `Rewrite` starts a new plan with an equal end.

Meaning, effects and types are recursive functions; each is shown to exist by
the least node for which it would not (`MeaningExists`, `EffectsExist`,
`TypesExist`), because the values of a node's operands, which come before it,
are all it depends on.  `EvaluatorsAgree` uses the least node on which the two
meanings would differ.

`CompiledMeansSourceHolds` and `AgreesWithInterpreterHolds` have the hypothesis
`PoolFits`: at most 256 constants, as many as a byte can tell apart.  It cannot
be dropped, for with the 257th the machine loads another constant in the place
of the one that was meant (finding 3).

`UnderflowForeseenHolds` needs neither that nor a tree that is supported.  Its
invariant, `Climbs`, is a second account of the same kind, of heights instead of
snapshots.  `Climb` is a sequence of moves, one for each boundary in the code:
what the program has done to the stack by then.  Consecutive ones are related by
the instruction between them (`OpMove`), and the last, followed by the moves of
`todo`, is the move of the program (`Ascends`).  `Then` is associative
(`ThenAssociates`), so the visit of a node may be replaced by those of its
operands and an emit (`ExpansionCounts`, `VisitAscends`); a null operand and an
empty visitor are `NoCode`, which composes with nothing.  The height the machine
has is the rise of the climb where it stands, where nothing has been reached for
yet (`Upright`).  It pops an empty stack exactly where the reach first exceeds 0
(`MachineClimbs`); from there on the reach cannot fall, so the program is
starved, and one that gets to its end is not.  That a supported program is not starved is a fact about the tree alone
(`SupportedNotStarved`): by `WholeMoves`, each expression of a whole part
reaches for nothing and leaves one value.

`ParserProofs` proves for every set of sources of any length, and every limit
on arguments, `ParserInvariant`, `ParserTypeCorrect`,
`GroupedByPrecedenceHolds`, `NearestElseHolds` and `ChildrenClassed`.
`ParserAssumption` says that sources are sequences of tokens and that their
literals are of the types the lexer gives them (`LiteralType`: names and
strings for identifiers, strings and `undefined`, numbers for numerals);
nothing says that a source is well formed, so the theorems hold of parses that
fail or hang, too.

None of the three properties is inductive.  The parser keeps no types: a
position in `results` is whatever the next call takes it for, an expression, a
statement, the null pointer or a name.  `ParserInv` therefore gives the results
*sorts*.  `Ex(l)` is an expression that holds together at least as tightly as
level `l`, or null; `Name`, `AnyStmt` and `Perhaps` (a statement or null) are
what they say.  `Signature` gives every activation record the sorts it takes
from the end of `results` and those it leaves there once it and all that it
becomes have been done, and `Does` chains the signatures of a list of records.
`WellTyped` says that the present results have sorts from which `todo` leads to
the one of a parse that has ended: so at every moment there is, for each
pending record, a typing of what it will find.  A step replaces the first
record by others that compose to the same signature, which is what the lemmas
of the form `...Keeps` show, one for each action.

`GroupedByPrecedence` is then what the sorts say: `More(level)` turns a left
operand of its level and a right operand of the next into one of its level.
`NearestElse` needs a sort that looks ahead.  `Fresh` is a statement that has
just been parsed: if an `else` could still belong to it, the next token is none.
`Fresh` and `Absent` (no statement behind an `else`, which does not come) speak
of the next token and so hold until the cursor moves; the other sorts are
`Firm`, and only firm ones may lie below the results that the next record
takes.  An `if` without `else` as the first branch of another is
`Fresh` when the outer one looks for its `else`, so it finds none; if it does
find one, the branch is `Shut`, a statement no `else` can belong to.

`ChildrenClassed` is about what C++ has a type checker for and the model, where
a node is a position, has not: every child is an expression or a statement, as
the pointers in `AST.h` promise, the body of a function is a block, and `parse`
returns statements.  The interpreter relies on all three.

`ParserInv` quantifies over all sequences of sorts and is not something TLC can
evaluate; what follows from it (the three properties) TLC has checked.

`ReadingProofs` proves `ReadsBackHolds`: for every set of sources of any length,
between two statements the text of the statements parsed is the input up to the
cursor.  With `GroupedByPrecedenceHolds` and `NearestElseHolds`, which say how
that text is grouped, it says which tree the parser builds.

The property speaks of the moments when nothing but `parse` is pending, and in
between the tokens that have been taken are scattered over results and pending
records.  So, as with the sorts, the invariant is about what is still to come,
but now about text.  A `text` gives each node its tokens (`Readings`: those that
agree with the tree so far, and say anything of nodes to come).  A `Point` is a
line of tokens that have been read, with a sequence of results.  `Act` is what
an activation record does to a point, once it and all that it becomes have been
done: it reads some tokens, takes the results it owns, whose text has been read
for them (`Before`), and leaves others in their place for the text that is read
by then.  `Run` chains the acts of a list of records.  `Reading` says: *whatever
run of the pending records there is from what the parser has at hand, it ends
with results whose text is what has been read.*  At first this says that a
program reads as it is written.  In the end, with `todo` empty but for the list
of statements, whose act may read nothing, it is `ReadsBack`.

A step that keeps it leaves records whose runs are acts of the one it
replaced (`Replaces`, `ReadingGoes`).  There is a lemma of this form for each
choice of each action, and for the lists of records that actions leave a lemma
that says what their runs read and leave (`Spells`, `Gains`, `Heard`).  They lean
on `ParserInv`, which bounds how many results a record finds and says that none
of them is missing where the text needs it.  Two facts about tokens need care.
A declaration `var a = ;` loses its equals sign in the tree, so lines are
compared up to such signs, and `Same` is the largest such comparison that
survives joining lines.  And a token `undefined` is a string to the parser
(`AsRead`).

That there is a text at all (`TextsExist`) is induction over the nodes, by the
least one that has none, since the tokens of a node depend on its children's.
The library's `FlattenSeq` joins sequences by a recursive function; `Joins` names
that function, which again is shown to exist step by step.

`StepsDescendHolds`, in the same module, is the safety part of `EndsOrHangs` for
inputs of any length.  `Work` adds up the weights of the pending records, from
the first to the one that is sure to take the next token (`Wanted`), for what is
behind that one waits for another token.  A record that takes none is replaced
by lighter ones (`AtMost`, one lemma for each action), and if it was sure to take
the token then one of these is.  That leaves the loop over statements, which
puts a heavier list behind the statement: at a token with which a statement can
begin, the statement takes it before the list is seen again; at the end of the
input the loop ends.  So, counted by the tokens to come and the work until the
next is taken, every step but those at other tokens comes closer to the end.

`MinijscProofs` proves for every set of sources and every sequence of them,
with loops and recursion of any length: `MinijscTypeCorrect`,
`ScopesAsScopeStack`, `ScopesKept`, `VisitorsKeepScopes` and
`ImplementsScopesHolds`.  Besides
`ParserAssumption`, `NumberAssumption` and `StringAssumption` it has
`SessionAssumption`, which types the constants.

`ScopeStack` knows no programs and `Interpreter` nothing else, so the refinement
has to show that a visitor finds in its C++ locals what it casts and pops: that
`control` and `locals` fit each other.  Each kind of activation record *pops*
some kinds of values from the locals and *pushes* others (`Pops`, `Pushes`):
`Evaluate` pushes one value, the rest of a call takes a callee and as many basic
values as there are arguments, a statement neither.  `Fitted` says that the
records of `control` can be chained so, from the locals there are to none.  It
asks one thing more of the end of a call, which notes in `held` how many locals
the callers have: the number is the right one, and nothing before that record
takes one of theirs.  With it, `JSReturn`, which drops any number of
records at once and cuts the locals to `held`, leaves a `control` that fits
(`ReturnFitted`); a crash or an exception needs nothing.  What a visitor puts in
its own place has to pop and push the same (`Passes`, with one lemma for what
the visitors begin with, `PassesVisit`, and one for what they go on with,
`PassesBack`).

`MinijscInv` is `Fitted`, with a typing of scopes and values, the invariant of
`ScopeStack`, and, for the parse before, `ParserInv` and what `ChildrenClassed`
says of its tree.  There is a lemma for each visitor, `...Step`: it keeps the
first and is a step of `ScopeStack`.  A function's scope holds the position of
its declaration where `ScopeStack` has its signature (`Picture`), and `Home`,
the walk of `assign` and `resolve`, is the same on either (`HomeSeen`).

`ScopesAsScopeStack` compares with `ScopeStack` on all signatures, its
bound on scopes taken away (`Unbounded`); `ScopesKept` follows by the invariant
of `ScopeStackProofs`, which holds without the bound.  `VisitorsKeepScopes` says in
terms of the visitors what the three action properties of `ScopeStack` say of
frames: a record of an end in `control` is a frame (`ActiveHas`), so the index
that `BlockEnd` and `CallEnd` take from a parent pointer is the one the record
saved, unless a call has returned in between.  `ImplementsScopesHolds` is
about the constants themselves and has the hypothesis `Covered`: no more than
`MaxScopes` scopes are in use, and the functions declared are among
`Functions`.  These constants bound the abstract specification, not the
code, and a session that goes beyond them is not described by it; in the run,
where they are 20 scopes and two signatures, none does.

`VisitorsNeverStuck` says that the visitors' guards leave nothing out: while the
interpreter runs, one of them holds (`VisitorApplies`), and what its action
takes is there: as many locals as it pops, the scopes that the end of a block or
of a call leaves, the block of a function that is called; and `execute` only
ever gets a statement and `evaluate` an expression (`ClassesMatch`).  The guards
are listed, for the prover has no `ENABLED`; what they guard are assignments,
which always can be made.  It follows from `Fitted` and, for the scopes, from
the invariant of `ScopeStackProofs`.

Only model-checked: `CollectionEnds`, `LexEnds`, `RunEnds`, `EndsOrHangs`,
`SourceAnswered`, `AcceptsSentences` and `AgreesWithScopes`.  Liveness under
fairness stays with TLC (the prover has no `ENABLED`).  Of the first four the
safety part is proved, that every step comes closer to the end;
`SourceAnswered` holds of sources without an endless loop, as those of its run,
and `VisitorsNeverStuck` is what of it holds of all.  `AcceptsSentences` is
about a grammar that only the inputs of the run know.  `Semantics` uses
recursive operators, so `AgreesWithScopes` is out of the prover's reach; it has
a module of its own, `Agreement`, which keeps them out of `Minijsc`.

## 6. What is not modelled

* Text: the lexer's characters are classes, and sources of `Minijsc` are tokens.
  Reading a file, the usage message and the prompt's own output are input and
  output only.
* Numbers are small sets of integers: infinities, not-a-number and the
  conversion of numerals are left out.  Strings are ranks.
* The C++ stack: how deep the visitors and `mark` may recurse.
* `rewriteAST` of an expression that is not binary (undefined, and a
  precondition).
* Getters and printing of `AST.h`, `JSToken` and `JSValue`, `objectPrint`,
  `displayStack` and logging have no effect on state; the two log lines that
  dereference a pointer or an index are in the model, as what they can do.
* `JSValue::setValue`, `JSObject` and `JSGlobalState` are used by nothing.
* `Jit.h` copies bytes to an executable page, and `IR.h` is an enumeration:
  there is nothing to interleave or to get out of order.  `fmt` and `doctest`
  are third-party.

## 7. Plan

The plan is done: every component but the JIT context is in a module, and of
what the runs check, all is proved but what section 5 names as only
model-checked.
