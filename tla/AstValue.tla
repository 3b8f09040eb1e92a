------------------------------- MODULE AstValue -------------------------------
(***************************************************************************)
(* What ast-scan.js can know of an expression: the text or the array it    *)
(* folds to, the dangerous global it denotes and whether by its own name,  *)
(* or nothing.                                                             *)
(***************************************************************************)
Text(letters) == [kind |-> "text", text |-> letters]
ArrayOf(items) == [kind |-> "array", items |-> items]
None == [kind |-> "none"]

Eval == <<"ev", "al">>
FunctionName == <<"Func", "tion">>
GeneratorName == <<"Generator", "Function">>
Globals == {Eval, FunctionName, GeneratorName}
Identity(name, direct) == [kind |-> "identity", name |-> name, direct |-> direct]
=============================================================================
