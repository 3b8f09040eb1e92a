------------------------------- MODULE AstFold -------------------------------
(***************************************************************************)
(* What ast-scan.js learns from a parsed statement: the constant folder,   *)
(* which dangerous global an expression denotes, and what a walk over an   *)
(* expression emits.  Bindings map a declared name to a text or a global.   *)
(***************************************************************************)
EXTENDS AstParser, AstValue, TLC

CONSTANT MaxFoldDepth

(* String.fromCharCode, unescape and hex decoding, letter by letter.       *)
CharOf == [n \in Numbers |-> CASE n = "1" -> "ev" [] n = "2" -> "al" [] OTHER -> "nul"]
Unescape(text) == [i \in DOMAIN text |-> CASE text[i] = "%ev" -> "ev" [] text[i] = "%al" -> "al"
                                           [] OTHER -> text[i]]
HexOf == [h \in {"6576", "616c"} |-> IF h = "6576" THEN "ev" ELSE "al"]
(* Hex decoding stops at the first letter that is no hex digit.            *)
FromHex(text) == LET bad == {i \in DOMAIN text : text[i] \notin DOMAIN HexOf}
                     n == IF bad = {} THEN Len(text) ELSE Min(bad) - 1
                 IN [i \in 1..n |-> HexOf[text[i]]]

Printed(v) == IF v.kind = "text" THEN v.text ELSE <<"[object Object]">>
RECURSIVE Joined(_, _), Split(_, _)
Joined(items, sep) == IF items = <<>> THEN <<>>
  ELSE Printed(items[1]) \o (IF Len(items) = 1 THEN <<>> ELSE sep \o Joined(Tail(items), sep))
Split(text, sep) ==
  IF sep = <<>> THEN [i \in DOMAIN text |-> Text(<<text[i]>>)]
  ELSE LET at == {i \in 1..(Len(text) - Len(sep) + 1) : SubSeq(text, i, i + Len(sep) - 1) = sep}
       IN IF at = {} THEN <<Text(text)>>
          ELSE <<Text(SubSeq(text, 1, Min(at) - 1))>>
               \o Split(SubSeq(text, Min(at) + Len(sep), Len(text)), sep)

Blank == {" ", "\n"}
Trim(text) == LET kept == {i \in DOMAIN text : text[i] \notin Blank}
              IN IF kept = {} THEN <<>> ELSE SubSeq(text, Min(kept), Max(kept))

(* A method of the whitelist on a folded receiver; an array has two.       *)
Methods == {"split", "reverse", "join", "trim", "concat"}
(* Variant: reverse leaves an array as it is.                              *)
Apply_ReverseKeeps(method, receiver, args) ==
  LET first(default) == IF args = <<>> THEN default ELSE Printed(args[1]) IN
  IF receiver.kind = "array"
    THEN CASE method = "join" -> Text(Joined(receiver.items, first(<<",">>)))
           [] method = "reverse" -> receiver
           [] OTHER -> None
    ELSE CASE method = "split" -> ArrayOf(IF args = <<>> THEN <<receiver>>
                                          ELSE Split(receiver.text, first(<<>>)))
           [] method = "trim" -> Text(Trim(receiver.text))
           [] OTHER -> None

Apply(method, receiver, args) ==
  LET first(default) == IF args = <<>> THEN default ELSE Printed(args[1]) IN
  IF receiver.kind = "array"
    THEN CASE method = "join" -> Text(Joined(receiver.items, first(<<",">>)))
           [] method = "reverse" -> ArrayOf(Reverse(receiver.items))
           [] OTHER -> None
    ELSE CASE method = "split" -> ArrayOf(IF args = <<>> THEN <<receiver>>
                                          ELSE Split(receiver.text, first(<<>>)))
           [] method = "trim" -> Text(Trim(receiver.text))
           [] method = "concat" -> Text(receiver.text \o FlattenSeq([i \in DOMAIN args |-> Printed(args[i])]))
           [] OTHER -> None

-----------------------------------------------------------------------------
IsNamed(node, names) == node.type = "Identifier" /\ \E n \in names : node.name = <<n>>
IsMember(node, names) == node.type = "Member" /\ ~node.computed /\ \E n \in names : node.name = <<n>>
IsMethodCall(node, names) == node.type = "Call" /\ IsMember(node.callee, names)
IsBufferFrom(node) == IsMethodCall(node, {"from"}) /\ IsNamed(node.callee.object, {"Buffer"})

(* One operand that does not fold fails the whole fold.                    *)
RECURSIVE FoldNode(_, _, _), FoldEach(_, _, _), FoldCall(_, _, _)
FoldEach(nodes, b, n) ==
  IF nodes = <<>> THEN <<>> ELSE <<FoldNode(Head(nodes), b, n)>> \o FoldEach(Tail(nodes), b, n)
FoldNode(node, b, n) ==
  IF n > MaxFoldDepth THEN None
  ELSE CASE node.type = "Literal" -> Text(node.value)
         [] node.type = "Identifier" ->
              IF node.name \in DOMAIN b /\ b[node.name].kind = "text" THEN b[node.name] ELSE None
         [] node.type = "Array" ->
              LET items == FoldEach(node.elements, b, n + 1)
              IN IF \E i \in DOMAIN items : items[i].kind = "none" THEN None ELSE ArrayOf(items)
         [] node.type = "Binary" ->
              LET l == FoldNode(node.left, b, n + 1)
                  r == FoldNode(node.right, b, n + 1)
              IN IF node.operator = "+" /\ l.kind = "text" /\ r.kind = "text"
                   THEN Text(l.text \o r.text) ELSE None
         [] node.type = "Call" -> FoldCall(node, b, n)
         [] OTHER -> None

FoldCall(node, b, n) ==
  LET f == node.callee
      args == FoldEach(node.args, b, n + 1)
      folded == \A i \in DOMAIN args : args[i].kind # "none"
  IN CASE IsMember(f, {"fromCharCode"}) /\ IsNamed(f.object, {"String"}) ->
            IF \A i \in DOMAIN node.args : node.args[i].type = "Literal" /\ node.args[i].number
              THEN Text([i \in DOMAIN node.args |-> CharOf[node.args[i].value[1]]]) ELSE None
       [] IsNamed(f, {"decodeURIComponent", "unescape"}) ->
            IF Len(args) = 1 /\ args[1].kind = "text" THEN Text(Unescape(args[1].text)) ELSE None
       [] IsMember(f, {"toString"}) /\ IsBufferFrom(f.object) ->
            LET given == FoldEach(f.object.args, b, n + 1) IN
            IF Len(given) >= 2 /\ given[1].kind = "text" /\ given[2] = Text(<<"hex">>)
              THEN Text(FromHex(given[1].text)) ELSE None
       [] IsMember(f, Methods) ->
            LET receiver == FoldNode(f.object, b, n + 1) IN
            IF receiver.kind # "none" /\ folded THEN Apply(f.name[1], receiver, args) ELSE None
       [] OTHER -> None

-----------------------------------------------------------------------------
(* Which dangerous global a node denotes, and whether by its own name.     *)
RECURSIVE ResolveIdentity(_, _)
ResolveIdentity(node, b) ==
  CASE node.type = "Identifier" ->
         IF node.name = Eval THEN Identity(Eval, TRUE)
         ELSE IF node.name \in DOMAIN b /\ b[node.name].kind = "identity" THEN b[node.name] ELSE None
    [] node.type = "Sequence" -> ResolveIdentity(Last(node.expressions), b)
    [] node.type = "Member" ->
         LET key == IF node.computed THEN FoldNode(node.key, b, 0) ELSE Text(node.name)
             made(f) == Identity(IF f.generator THEN GeneratorName ELSE FunctionName, FALSE)
             object == node.object
         IN IF key # Text(<<"constructor">>)
              THEN IF node.computed /\ key.kind = "text" /\ key.text \in Globals
                     THEN Identity(key.text, FALSE) ELSE None
            ELSE IF object.type = "Function" THEN made(object)
            ELSE IF /\ IsMethodCall(object, {"getPrototypeOf"}) /\ IsNamed(object.callee.object, {"Object"})
                    /\ Len(object.args) = 1 /\ object.args[1].type = "Function"
              THEN made(object.args[1])
            ELSE LET inner == ResolveIdentity(object, b) IN
                 IF inner.kind = "identity" /\ inner.name \in {FunctionName, GeneratorName}
                   THEN Identity(FunctionName, FALSE) ELSE None
    [] OTHER -> None

Decodes(node) ==
  LET f == node.callee IN
  \/ IsMember(f, {"fromCharCode"}) /\ IsNamed(f.object, {"String"})
  \/ IsNamed(f, {"decodeURIComponent", "unescape"})
  \/ IsMember(f, {"join"}) /\ IsMethodCall(f.object, {"reverse"})
       /\ IsMethodCall(f.object.callee.object, {"split"})
  \/ IsMember(f, {"toString"}) /\ IsBufferFrom(f.object)

Standalone(what) == [kind |-> "standalone", value |-> what]
LiteralFound(v) == IF v.kind = "text" THEN <<[kind |-> "literal", value |-> v.text]>> ELSE <<>>

(* What one node emits.  Only a specifier put together is worth a report:  *)
(* a literal one is in the text for every other scanner to see.            *)
Emitted(node, b) ==
  IF node.type = "Binary" THEN LiteralFound(FoldNode(node, b, 0))
  ELSE IF node.type # "Call" THEN <<>>
  ELSE LET identity == ResolveIdentity(node.callee, b)
           spec == FoldNode(node.args[1], b, 0)
       IN IF identity.kind = "identity" /\ ~identity.direct THEN <<Standalone(identity.name)>>
          ELSE IF IsNamed(node.callee, {"require"}) /\ Len(node.args) = 1
            THEN IF /\ node.args[1].type # "Literal" /\ spec.kind = "text"
                    /\ \E i \in 1..(Len(spec.text) - 1) : SubSeq(spec.text, i, i + 1) = <<"child", "process">>
                   THEN <<Standalone(spec.text)>> ELSE <<>>
          ELSE (IF Decodes(node) THEN <<[kind |-> "signal", value |-> <<"codeDecode">>]>> ELSE <<>>)
               \o LiteralFound(FoldCall(node, b, 0))

Children(node) ==
  CASE node.type = "Call" -> Append(node.args, node.callee)
    [] node.type = "Binary" -> <<node.left, node.right>>
    [] node.type = "Member" -> IF node.computed THEN <<node.object, node.key>> ELSE <<node.object>>
    [] node.type = "Sequence" -> node.expressions
    [] node.type = "Unary" -> <<node.argument>>
    [] node.type = "Array" -> node.elements
    [] node.type = "New" -> node.args
    [] OTHER -> <<>>

RECURSIVE WalkFrom(_, _, _), WalkEach(_, _, _)
WalkEach(nodes, b, n) ==
  IF nodes = <<>> THEN <<>> ELSE WalkFrom(Head(nodes), b, n) \o WalkEach(Tail(nodes), b, n)
WalkFrom(node, b, n) ==
  IF n > MaxParseDepth THEN <<>> ELSE Emitted(node, b) \o WalkEach(Children(node), b, n + 1)
WalkExpression(node, b) == WalkFrom(node, b, 0)

(* A declaration binds before it is walked; a name bound to a global is an *)
(* alias, direct or not; an initialiser that does not fold binds nothing,  *)
(* and leaves what the name was bound to before.                           *)
Bound(stmt, b) ==
  LET identity == ResolveIdentity(stmt.init, b)
      folded == FoldNode(stmt.init, b, 0)
  IN IF identity.kind = "identity" THEN (stmt.name :> [identity EXCEPT !.direct = FALSE]) @@ b
     ELSE IF folded.kind = "text" THEN (stmt.name :> folded) @@ b
     ELSE b
=============================================================================
