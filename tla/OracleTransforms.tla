-------------------------- MODULE OracleTransforms --------------------------
(***************************************************************************)
(* The transformations of an oracle's code that transform_game_inst        *)
(* (src/src/transforms/proof_transforms.rs) applies before the code is     *)
(* written as an SMT term, and what the writer refuses.  Each is a         *)
(* function on blocks, which takes the first statement, what is inside it, *)
(* and the rest of the block.                                              *)
(***************************************************************************)
EXTENDS OracleSyntax, SequencesExt

CONSTANTS
  Oracles, \* [name |-> [args, type]]: the imported oracles
  Wires    \* [oracle name -> instance]: the edges of the package instance

(* samplify: sample statements are numbered in the order of the text. *)

\* A sample statement without a name is named after its number in the oracle.
SampleName(s, n) == IF s.name = Ident("") THEN <<"", n>> ELSE s.name

\* What samplify counts: the next number, and the names of the samples so far.
Counters == [ctr : Nat, positions : Seq(Idents)]
Count(c, s) == [ctr |-> c.ctr + 1, positions |-> Append(c.positions, SampleName(s, Len(c.positions) + 1))]

\* variant: a block gets a copy of the counter
CountersBefore(c, inner) == [inner EXCEPT !.ctr = c.ctr]
CountersAfter(c, inner) == inner

Samplify[in \in Code \X Counters] ==
  LET block == in[1]
      c == in[2]
  IN  IF block = <<>> THEN [code |-> <<>>, counters |-> c]
      ELSE LET s == Head(block)
               then == Samplify[<<s.then, c>>]
               else == Samplify[<<s.else, then.counters>>]
               isSample == s.op = "sample"
               new == IF isSample THEN [s EXCEPT !.id = c.ctr, !.name = SampleName(s, Len(c.positions) + 1)]
                      ELSE [s EXCEPT !.then = then.code, !.else = else.code]
               next == IF isSample THEN Count(c, s) ELSE CountersAfter(c, else.counters)
               rest == Samplify[<<Tail(block), next>>]
           IN  [code |-> <<new>> \o rest.code, counters |-> rest.counters]

-----------------------------------------------------------------------------
(* unwrapify: an assignment to a generated identifier for each unwrap. *)

\* variant: each expression is numbered from the same start
NotAdvanced(ctr, unwraps) == ctr
Advanced(ctr, unwraps) == ctr + Len(unwraps)

\* The closure of replace_unwrap, on an expression whose subexpressions are
\* replaced already.  unwraps: the assignments that go before the statement.
Replaced(e, ctr, subs) ==
  LET x == Generated(Advanced(ctr, subs.unwraps))
      new == [e EXCEPT !.args = subs.exprs]
  IN  IF e.op = "unwrap" THEN [expr |-> Var(x), unwraps |-> Append(subs.unwraps, Assign(x, <<>>, new))]
      ELSE [expr |-> new, unwraps |-> subs.unwraps]

\* Expression::mapfold, on a list of expressions: the subexpressions come first,
\* from left to right.
ReplaceUnwraps[in \in Seq(Exprs) \X Nat] ==
  LET exprs == in[1]
      ctr == in[2]
  IN  IF exprs = <<>> THEN [exprs |-> <<>>, unwraps |-> <<>>]
      ELSE LET e == Head(exprs)
               first == Replaced(e, ctr, ReplaceUnwraps[<<e.args, ctr>>])
               rest == ReplaceUnwraps[<<Tail(exprs), Advanced(ctr, first.unwraps)>>]
           IN  [exprs |-> <<first.expr>> \o rest.exprs, unwraps |-> first.unwraps \o rest.unwraps]

\* The expressions of a statement are replaced, the index before the others.
Unwrapify[in \in Code \X Nat] ==
  LET block == in[1]
      ctr == in[2]
  IN  IF block = <<>> THEN [code |-> <<>>, ctr |-> ctr]
      ELSE LET s == Head(block)
               r == ReplaceUnwraps[<<ExprsOf(s), ctr>>]
               then == Unwrapify[<<s.then, Advanced(ctr, r.unwraps)>>]
               else == Unwrapify[<<s.else, then.ctr>>]
               rest == Unwrapify[<<Tail(block), else.ctr>>]
               new == [s EXCEPT !.idx = SubSeq(r.exprs, 1, Len(s.idx)),
                                !.args = SubSeq(r.exprs, Len(s.idx) + 1, Len(r.exprs)),
                                !.then = then.code, !.else = else.code]
           IN  [code |-> r.unwraps \o <<new>> \o rest.code, ctr |-> rest.ctr]

-----------------------------------------------------------------------------
(* resolveoracles: each invocation gets the instance of its edge; one without  *)
(* an edge is an error, and the code is not used.  The bodies of loops are not  *)
(* entered.                                                                     *)

Resolve[block \in Code] ==
  [ok |-> \A s \in Range(block) :
            /\ s.op = "invoke" => s.name \in DOMAIN Wires
            /\ s.op = "ite" => Resolve[s.then].ok /\ Resolve[s.else].ok,
   code |-> [i \in DOMAIN block |->
              LET s == block[i]
              IN  IF s.op = "invoke" /\ s.name \in DOMAIN Wires THEN [s EXCEPT !.target = Wires[s.name]]
                  ELSE IF s.op = "ite" THEN [s EXCEPT !.then = Resolve[@].code, !.else = Resolve[@].code]
                  ELSE s]]

-----------------------------------------------------------------------------
(* returnify: every path ends in a return or an abort. *)

\* variant: a missing return is no error
EndedSomehow(block, noneOk) ==
  [ok |-> TRUE, code |-> IF noneOk /\ (block = <<>> \/ Last(block).op \notin {"return", "abort"})
                           THEN Append(block, Return(<<>>)) ELSE block]
Ended(block, noneOk) ==
  IF block # <<>> /\ Last(block).op \in {"return", "abort"} THEN [ok |-> TRUE, code |-> block]
  ELSE [ok |-> noneOk, code |-> Append(block, Return(<<>>))]

Returnify[in \in Code \X BOOLEAN] ==
  LET block == in[1]
      noneOk == in[2]
  IN  IF block # <<>> /\ Last(block).op = "ite"
        THEN LET ite == Last(block)
                 then == Returnify[<<ite.then, noneOk>>]
                 else == Returnify[<<ite.else, noneOk>>]
             IN  [ok |-> then.ok /\ else.ok,
                  code |-> Append(Front(block), [ite EXCEPT !.then = then.code, !.else = else.code])]
      ELSE Ended(block, noneOk)

-----------------------------------------------------------------------------
(* treeify: what follows a conditional moves into both of its branches. *)

\* The first statements of the block, own many, are its own; the others stood
\* behind a conditional, and their loops are treeified in any case.
Treeify[in \in Code \X Nat] ==
  LET block == in[1]
      own == in[2]
      conditionals == {i \in DOMAIN block : block[i].op = "ite"}
      Loop(s) == IF s.op = "for" THEN [s EXCEPT !.then = Treeify[<<@, Len(@)>>]] ELSE s
  IN  IF conditionals = {}
        THEN [i \in DOMAIN block |-> IF i <= own THEN block[i] ELSE Loop(block[i])]
      ELSE LET k == CHOOSE i \in conditionals : \A j \in conditionals : i <= j
               after == SubSeq(block, k + 1, Len(block))
           IN  Append([i \in 1 .. k - 1 |-> Loop(block[i])],
                      [block[k] EXCEPT !.then = Treeify[<<@ \o after, Len(@)>>],
                                       !.else = Treeify[<<@ \o after, Len(@)>>]])

-----------------------------------------------------------------------------
(* tableinitialize: a generated table starts empty.  done: those that did. *)

IsGenerated(x) == \E n \in {x[2]} : x = Generated(n)

InitTables[in \in Code \X SUBSET Idents] ==
  LET block == in[1]
      done == in[2]
  IN  IF block = <<>> THEN <<>>
      ELSE LET s == Head(block)
               table == s.idx # <<>> /\ IsGenerated(s.to[1])
               first == IF table /\ s.to[1] \notin done
                          THEN <<Assign(s.to[1], <<>>, Expr("newtable", Ident(""), <<>>))>> ELSE <<>>
               new == IF s.op = "ite" THEN [s EXCEPT !.then = InitTables[<<@, done>>], !.else = InitTables[<<@, done>>]]
                      ELSE s
           IN  first \o <<new>> \o InitTables[<<Tail(block), IF table THEN done \cup {s.to[1]} ELSE done>>]

-----------------------------------------------------------------------------
(* smt_codeblock_nonsplit. *)

\* Whether there is an unwrap in some expression of a list.
HasUnwrap[exprs \in Seq(Exprs)] ==
  \E i \in DOMAIN exprs : exprs[i].op = "unwrap" \/ HasUnwrap[exprs[i].args]

\* An invocation has an argument for each of its oracle's.
InFull(s) == s.op = "invoke" => Len(s.args) = Len(Oracles[s.name].args)

\* The writer panics: on a block with no end, a loop, an invocation without
\* target or with arguments missing, a sample without number, or an unwrap other
\* than an assigned one.
Written(s) == IF s.op = "assign" /\ s.args[1].op = "unwrap" THEN s.idx \o s.args[1].args ELSE ExprsOf(s)
Unwritable[block \in Code] ==
  \/ block = <<>>
  \/ Last(block).op \notin {"ite", "return", "abort"}
  \/ \E i \in DOMAIN block :
       LET s == block[i]
       IN  \/ s.op = "for"
           \/ s.op = "invoke" /\ s.target = ""
           \/ ~InFull(s)
           \/ s.op = "sample" /\ s.id = Unnumbered
           \/ HasUnwrap[Written(s)]
           \/ s.op = "ite" /\ (Unwritable[s.then] \/ Unwritable[s.else])
=============================================================================
