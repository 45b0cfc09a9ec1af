----------------------------- MODULE Conformance -----------------------------
(***************************************************************************)
(* The bytecode of a method (Frame) against its tree (SourceSemantics).    *)
(***************************************************************************)
EXTENDS Frame, SourceSemantics

\* The bytecode does what the tree says: at every call, the method has asked
\* for the same calls with the same arguments as its source would have after
\* the same answers, and it ends the same way (crates/nl-codegen/src/stmt.rs
\* and expr.rs against crates/nl-vm/src/interpreter.rs).
FollowsSource ==
  At({"invoke"}) \/ result # Running =>
    Meaning(method.source, trace) = IF result = Running THEN <<"call", Asked>> ELSE result
=============================================================================
