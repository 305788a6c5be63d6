------------------------------ MODULE Agreement ------------------------------
(***************************************************************************)
(* The interpreter's scopes against those of JavaScript, for programs that *)
(* the parser has read.                                                    *)
(***************************************************************************)
EXTENDS Minijsc, Semantics

\* The names a source declares, each as often as it does.
DeclaredNames ==
  LET words == {i \in DOMAIN tokens :
                  i > 1 /\ tokens[i].kind = "Identifier"
                  /\ tokens[i - 1].kind \in {"Var", "Let", "Function"}}
      decls == {k \in DOMAIN nodes : nodes[k].kind = "FuncDecl"}
  IN  {<<0, i, tokens[i].literal.val>> : i \in words}
        \cup UNION {{<<k, i, nodes[k].params[i]>> : i \in DOMAIN nodes[k].params} :
                      k \in decls}

DeclaresOnce == \A d, e \in DeclaredNames : d # e => d[3] # e[3]

\* However scopes leak: a source that declares no name twice, and runs without
\* error and without recursion by the rules of JavaScript's scopes, leaves the
\* same values in the same variables here.  Where no call has returned, so
\* that nothing has leaked, it also fails if and as it should.
AgreesWithScopes ==
  phase = "interpreting" /\ ~Running /\ DeclaresOnce =>
    LET means == Outcome(results)
        global == means.env[1]
    IN  means.flow = "go" \/ (valueStack = <<>> /\ means.flow # "recursive") =>
          /\ status = StatusOf(means.flow)
          /\ status # "crashed" => \A n \in DOMAIN global :
               /\ Home(n) # -1
               /\ Scope(Home(n)).values[n].kind = global[n].kind
               /\ Scope(Home(n)).values[n].val = global[n].val

===============================================================================
