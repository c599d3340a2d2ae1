----------------------------- MODULE SmtScript -----------------------------
(***************************************************************************)
(* A script of SMT-LIB declarations and what the solver makes of it: each  *)
(* command must only name what an earlier one declared, at the sorts it    *)
(* was declared with, and must not declare a name again.  The solver is    *)
(* not part of the repository; a command it refuses leaves no trace.       *)
(*                                                                         *)
(* Sorts and names are tuples whose first component says what they are,    *)
(* where the program puts the same parts together to a string.             *)
(***************************************************************************)
EXTENDS Instantiation

IntSort == <<"Int">>
BoolSort == <<"Bool">>
SampleIdSort == <<"SampleId">>
BitsSort(suffix) == <<"Bits", suffix>>
ReturnValueSort(s) == <<"ReturnValue", s>>

\* The two ways a type becomes a sort: From<Type> for SmtExpr names the proof
\* constant (and panics when there is none), From<Type> for Sort the identifier
\* itself.
ProofName(ident) == IF ident.lvl = "literal" THEN ident.own ELSE AsProofIdentifier(ident)[1]

RECURSIVE SortBy(_, _)
SortBy(conversion, t) ==
  CASE t[1] = "int" -> IntSort
    [] t[1] = "bits" -> BitsSort(IF conversion = "proof" THEN ProofName(t[2]) ELSE t[2].own)
    [] t[1] = "maybe" -> <<"Maybe", SortBy(conversion, t[2])>>
    [] t[1] = "table" -> <<"Array", SortBy(conversion, t[2]), <<"Maybe", SortBy(conversion, t[3])>>>>
SmtSort(t) == SortBy("proof", t)
OwnSort(t) == SortBy("own", t)

\* A type that has no sort: a length in it is a constant that is assigned a number,
\* or nothing.
NoSmtSort(t) == \E length \in LengthsIn(t) : length.lvl # "literal" /\ AsProofIdentifier(length) = <<>>

-----------------------------------------------------------------------------
(* Terms. *)

Const(name) == [op |-> "apply", name |-> name, sort |-> <<>>, args |-> <<>>]
Apply(name, args) == [op |-> "apply", name |-> name, sort |-> <<>>, args |-> args]
Local(x) == Const(<<"local", x>>)
BuiltIn(op, args) == [op |-> op, name |-> <<>>, sort |-> <<>>, args |-> args]
As(op, sort) == [op |-> op, name |-> <<>>, sort |-> sort, args |-> <<>>]
Zero == BuiltIn("number", <<>>)
Eq(a, b) == BuiltIn("=", <<a, b>>)
IsAbort(value) == BuiltIn("is-abort", <<value>>)
If(c, a, b) == BuiltIn("ite", <<c, a, b>>)
\* binds a sequence of <<name, term>>
LetIn(binds, body) ==
  [op |-> "let", name |-> [i \in DOMAIN binds |-> binds[i][1]], sort |-> <<>>,
   args |-> Append([i \in DOMAIN binds |-> binds[i][2]], body)]

Ill == <<"ill-sorted">>

\* The sort of a term where funs has what is declared: a function from names to
\* [args, ret].
RECURSIVE SortOf(_, _)
SortOf(funs, t) ==
  IF t.op = "let"
    THEN LET n == Len(t.name)
             bound == [i \in 1..n |-> SortOf(funs, t.args[i])]
             new == [x \in ToSet(t.name) |->
                       [args |-> <<>>, ret |-> bound[CHOOSE i \in 1..n : t.name[i] = x]]]
         IN  IF Ill \in ToSet(bound) THEN Ill ELSE SortOf(new @@ funs, t.args[n + 1])
    ELSE
      LET s == [i \in DOMAIN t.args |-> SortOf(funs, t.args[i])]
          When(holds, sort) == IF holds THEN sort ELSE Ill
      IN  CASE Ill \in ToSet(s) -> Ill
            [] t.op = "apply" ->
                 IF t.name \notin DOMAIN funs THEN Ill
                 ELSE When(funs[t.name].args = s, funs[t.name].ret)
            [] t.op = "number" -> IntSort
            [] t.op = "sample-id" -> SampleIdSort
            [] t.op = "+" -> When(ToSet(s) = {IntSort}, IntSort)
            [] t.op \in {"and", "not"} -> When(ToSet(s) \subseteq {BoolSort}, BoolSort)
            [] t.op = "=" -> When(s[1] = s[2], BoolSort)
            [] t.op = "ite" -> When(s[1] = BoolSort /\ s[2] = s[3], s[2])
            [] t.op = "mk-return-value" -> ReturnValueSort(s[1])
            [] t.op = "return-value" -> When(s[1][1] = "ReturnValue", s[1][2])
            [] t.op = "is-abort" -> When(s[1][1] = "ReturnValue", BoolSort)
            [] t.op = "mk-abort" -> t.sort

-----------------------------------------------------------------------------
(* Commands: .sorts and .funs are what one declares, .uses the sorts it    *)
(* names; .terms are pairs of a term and the sort it must have, read with  *)
(* .locals bound.                                                          *)

Command == [sorts |-> {}, funs |-> {}, uses |-> {}, locals |-> <<>>, terms |-> {}]
Fun(name, args, ret) == [name |-> name, args |-> args, ret |-> ret]

DeclareSort(s) == [Command EXCEPT !.sorts = {s}]
DeclareFun(name, args, ret) ==
  [Command EXCEPT !.funs = {Fun(name, args, ret)}, !.uses = {ret} \union ToSet(args)]
DeclareConst(name, sort) == DeclareFun(name, <<>>, sort)
\* A datatype with one constructor and fields <<selector, sort>>.
DeclareDatatype(sort, constructor, fields) ==
  [Command EXCEPT !.sorts = {sort},
                  !.funs = {Fun(constructor, [i \in DOMAIN fields |-> fields[i][2]], sort)}
                             \union {Fun(fields[i][1], <<sort>>, fields[i][2]) : i \in DOMAIN fields},
                  !.uses = {fields[i][2] : i \in DOMAIN fields}]
\* A function of arguments <<name, sort>>.
DefineFun(name, args, ret, body) ==
  [DeclareFun(name, [i \in DOMAIN args |-> args[i][2]], ret) EXCEPT
     !.locals = args, !.terms = {<<body, ret>>}]
AssertTerm(t) == [Command EXCEPT !.terms = {<<t, BoolSort>>}]

RECURSIVE Heads(_)
Heads(s) ==
  CASE s[1] \in {"Maybe", "ReturnValue"} -> {<<s[1]>>} \union Heads(s[2])
    [] s[1] = "Array" -> Heads(s[2]) \union Heads(s[3])
    [] OTHER -> {s}

\* The solver: what was declared, and what of the script it refused.
EmptySession == [sorts |-> {IntSort, BoolSort}, funs |-> <<>>, refused |-> <<>>]
Names(c) == {f.name : f \in c.funs}
Key(c) == IF c.sorts # {} THEN c.sorts ELSE Names(c)
Accepts(session, c) ==
  /\ c.sorts \intersect session.sorts = {}
  /\ Names(c) \intersect DOMAIN session.funs = {}
  /\ UNION {Heads(s) : s \in c.uses} \subseteq session.sorts \union c.sorts
  /\ LET locals == [x \in {c.locals[i][1] : i \in DOMAIN c.locals} |->
                      [args |-> <<>>,
                       ret |-> c.locals[CHOOSE i \in DOMAIN c.locals : c.locals[i][1] = x][2]]]
     IN  \A p \in c.terms : SortOf(locals @@ session.funs, p[1]) = p[2]

Write(session, c) ==
  IF Accepts(session, c)
    THEN [session EXCEPT
            !.sorts = @ \union c.sorts,
            !.funs = [n \in Names(c) |-> LET f == CHOOSE f \in c.funs : f.name = n
                                         IN  [args |-> f.args, ret |-> f.ret]] @@ @]
    ELSE [session EXCEPT !.refused = Append(@, Key(c))]
WriteAll(session, script) == FoldLeft(Write, session, script)

\* What the sections of the script that keep an already_defined set leave of
\* theirs: the first command for each name.
Deduplicated(script) ==
  LET Known(i) == \E j \in 1..(i - 1) : Key(script[j]) = Key(script[i])
  IN  FlattenSeq([i \in DOMAIN script |-> IF Known(i) THEN <<>> ELSE <<script[i]>>])
=============================================================================
