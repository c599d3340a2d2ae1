------------------------------- MODULE MCGame -------------------------------
(* Instances of Game for TLC. *)
EXTENDS Game

\* Key stores a value of n bits, Fwd passes calls on to an instance like it, and
\* Log has another oracle.
PackageSet ==
  [p \in {"Key", "Fwd", "Log"} |->
     [params |-> {"n"},
      imports |-> [o \in IF p = "Fwd" THEN {"Get"} ELSE {} |-> "n"],
      oracles |-> [o \in IF p = "Log" THEN {"Set"} ELSE {"Get"} |-> "n"]]]

Arg(v) == <<[name |-> "n", value |-> v]>>
Inst(name, pkg, ps) == [name |-> name, index |-> {}, pkg |-> pkg, params |-> ps]
Many(name, pkg, is) == [name |-> name, index |-> is, pkg |-> pkg, params |-> Arg("len")]
Insts ==
  {Inst("a", "Key", Arg("len")), Inst("b", "Fwd", Arg("len")),
   Inst("c", "Fwd", Arg("len")), Inst("a", "Fwd", Arg("8")),
   Many("b", "Fwd", {"i"}),
   Inst("c", "Log", Arg("len")), Inst("c", "Lost", <<>>), Inst("c", "Key", <<>>), Inst("c", "Key", Arg("1+1")),
   Inst("c", "Key", Arg("len") \o Arg("8"))}

For(var, bound) == [var |-> var, bound |-> bound, uses |-> {"8"}]
Loops == {For("i", "i"), For("j", "j"), For("j", "i"), For("len", "len"),
          [var |-> "j", bound |-> "j", uses |-> {"len"}]}

To(o, dest, is) == [oracle |-> o, dest |-> dest, index |-> is]
Body(src, is, ws) == [source |-> src, index |-> is, wires |-> ws]
Bodies ==
  {Body(src, {}, <<To("Get", dest, {})>>) : src \in {"b", "c"}, dest \in {"a", "b", "c"}} \cup
  {Body("a", {}, <<To("Get", "b", {})>>),
   Body("b", {}, <<To("Set", "c", {})>>),
   Body("b", {}, <<To("Get", "a", {}), To("Get", "c", {})>>),
   Body("b", {"i"}, <<To("Get", "b", {"i"})>>),
   Body("b", {}, <<>>),
   Body("adversary", {}, <<To("Get", "b", {}), To("Set", "c", {})>>)}

Lens == {"len"}
Oracles == {"Get", "Set"}
Eight == {"8"}
Sum == {"1+1"}
=============================================================================
