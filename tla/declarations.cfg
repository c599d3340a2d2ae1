SPECIFICATION Spec
CONSTANT Proofs <- MCProofs
INVARIANT ScriptWellSorted
INVARIANT DeclaredAsMeant
