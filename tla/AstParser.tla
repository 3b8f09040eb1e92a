------------------------------- MODULE AstParser -------------------------------
(***************************************************************************)
(* The tokenizer and the recursive-descent parser of ast-scan.js.  A token *)
(* has a type and a value, a sequence of letters, so that the name eval,   *)
(* its escaped spelling and the string 'eval' have one value.  A parse     *)
(* function takes the tokens, a place and the depth counter, and answers   *)
(* whether it threw, where it stopped, the counter, and a node.            *)
(***************************************************************************)
EXTENDS Integers, Sequences, FiniteSets, SequencesExt, FiniteSetsExt

CONSTANTS MaxParseDepth, MaxTokens
ASSUME ParserAssumption == MaxParseDepth \in Nat /\ MaxTokens \in Nat

Numbers == {"0", "1", "2"}
StatementKeywords == {"const", "function", "class", "if", "for", "in", "await"}
ValueKeywords == {"this", "typeof", "new", "async"}
Keywords == StatementKeywords \cup ValueKeywords
Punctuators == {"(", ")", "[", "]", "{", "}", ";", ",", ".", "+", "=", "=>", "?", ":", "?.", "!", "*", "..."}

(* Words whose letters matter; the escaped spelling is the same name.      *)
Spelling(cell) == IF cell \in {"eval", "\\u_eval"} THEN <<"ev", "al">>
                  ELSE IF cell = "Function" THEN <<"Func", "tion">> ELSE <<cell>>

Token(type, value) == [type |-> type, value |-> value]
TypeOf(cell) == IF cell \in Numbers THEN "number"
                ELSE IF cell \in Keywords THEN "keyword"
                ELSE IF cell \in Punctuators THEN "punct"
                ELSE IF cell = "/re/" THEN "regex" ELSE "identifier"

(* The tokens of each suffix of a text: a string or comment without its    *)
(* end, or a cell that starts no token, ends the text there.               *)
TokensFrom(s) ==
  LET past == Len(s) + 1
      next(i, cell) == Min({past} \cup {j \in (i + 1)..Len(s) : s[j] = cell})
      from[i \in 1..past] ==
        IF i = past \/ s[i] = "@" THEN <<>>
        ELSE IF s[i] \in {" ", "\n"} THEN from[i + 1]
        ELSE IF s[i] = "//" THEN from[next(i, "\n")]
        ELSE IF s[i] = "/*" THEN IF next(i, "*/") = past THEN <<>> ELSE from[next(i, "*/") + 1]
        ELSE IF s[i] = "'"
          THEN IF next(i, "'") = past \/ next(i, "\n") < next(i, "'") THEN <<>>
               ELSE <<Token("string", SubSeq(s, i + 1, next(i, "'") - 1))>> \o from[next(i, "'") + 1]
        ELSE <<Token(TypeOf(s[i]), Spelling(s[i]))>> \o from[i + 1]
  IN from
Tokenize(s) == TokensFrom(s)[1]
(* Too many tokens, noticed at a punctuator, make the span unreadable.     *)
TooLarge(tokens) == \E i \in DOMAIN tokens : i > MaxTokens /\ tokens[i].type = "punct"

-----------------------------------------------------------------------------
Opaque == [type |-> "Opaque"]
Hole == [type |-> "Hole"]
Literal(t) == [type |-> "Literal", value |-> t.value, number |-> t.type = "number"]
Name(value) == [type |-> "Identifier", name |-> value]
Member(object, name) == [type |-> "Member", object |-> object, computed |-> FALSE, name |-> name]
Keyed(object, key) == [type |-> "Member", object |-> object, computed |-> TRUE, key |-> key]
Call(callee, args) == [type |-> "Call", callee |-> callee, args |-> args]
FunctionNode(generator) == [type |-> "Function", generator |-> generator]

Done(p, d, node) == [ok |-> TRUE, pos |-> p, depth |-> d, node |-> node]
(* Past its bound the counter fails every guard, however far past; its     *)
(* parity is kept, so that a throw still changes it.                       *)
Threw(d) == [ok |-> FALSE, pos |-> 0, node |-> Opaque,
             depth |-> IF d <= MaxParseDepth THEN d ELSE MaxParseDepth + ((d - MaxParseDepth) % 2)]

Tok(T, p) == IF p \in DOMAIN T THEN T[p] ELSE Token("eof", <<>>)
(* at() looks at the value only, whatever the type of the token.           *)
Sees(T, p, value) == Tok(T, p).value = <<value>>
IsName(t) == t.type \in {"identifier", "keyword"}
Then(r, node) == IF r.ok THEN Done(r.pos, r.depth, node) ELSE r
Passing(r) == Done(r.pos + 1, r.depth, r.node)
Expect(T, r, value) == IF ~r.ok THEN r
                       ELSE IF Sees(T, r.pos, value) THEN Passing(r) ELSE Threw(r.depth)

(* Past the close of the bracket open at p; 0 if the tokens end first.     *)
SkipBalanced(T, p, open, close) ==
  LET seen(cell, q) == Cardinality({k \in p..q : Sees(T, k, cell)})
      ends == {q \in p..Len(T) : seen(open, q) = seen(close, q)}
  IN IF ends = {} THEN 0 ELSE Min(ends) + 1
Skipped(T, p, d, open, close, node) ==
  LET end == IF Sees(T, p, open) THEN SkipBalanced(T, p, open, close) ELSE 0
  IN IF end = 0 THEN Threw(d) ELSE Done(end, d, node)

(* function, an optional star and name, parameters and body, unread.       *)
FunctionExpression(T, p, d) ==
  LET star == Sees(T, p + 1, "*")
      q == p + 1 + (IF star THEN 1 ELSE 0)
      r == IF Tok(T, q).type = "identifier" THEN q + 1 ELSE q
      head == Skipped(T, r, d, "(", ")", Opaque)
  IN IF head.ok THEN Skipped(T, head.pos, d, "{", "}", FunctionNode(star)) ELSE head

-----------------------------------------------------------------------------
BinaryOperators == {"*", "in"}
AdditiveOperators == {"+"}
UnaryOperators == {"!", "+", "typeof"}

(* Each parse function is a rule: f gives what the rules answer at a place *)
(* with the counter at a depth, and the rules call each other through it.  *)
(* The nodes of a list are its result; where the code builds a node around *)
(* the one to its left, the rule lists the nodes that still miss it.       *)
Rules == {"sequence", "commas", "assign", "binary", "binaryRest", "additive", "additiveRest",
          "unary", "postfix", "trailers", "members", "arguments", "elements", "primary"}

Prepend(node, r) == IF r.ok THEN Done(r.pos, r.depth, <<node>> \o r.node) ELSE r
(* The node that r read, and those that the rule goes on to read.          *)
List(f, r, rule) == IF r.ok THEN Prepend(r.node, f[<<rule, r.pos, r.depth>>]) ELSE r
Around(left, node) == CASE node.type = "Binary" -> [node EXCEPT !.left = left]
                        [] node.type = "Call" -> [node EXCEPT !.callee = left]
                        [] node.type = "Member" -> [node EXCEPT !.object = left]
Built(left, nodes) == FoldLeft(Around, left, nodes)

Commas(f, T, p, d) == IF Sees(T, p, ",") THEN List(f, f[<<"assign", p + 1, d>>], "commas")
                      ELSE Done(p, d, <<>>)
Sequence(f, T, p, d) ==
  LET first == f[<<"assign", p, d>>]
      more == f[<<"commas", first.pos, first.depth>>]
  IN IF first.ok /\ Sees(T, first.pos, ",")
       THEN Then(more, [type |-> "Sequence", expressions |-> <<first.node>> \o more.node])
       ELSE first

(* A conditional is read and forgotten.                                    *)
Assign(f, T, p, d) ==
  LET test == f[<<"binary", p, d>>]
      yes == Expect(T, f[<<"assign", test.pos + 1, test.depth>>], ":")
  IN IF ~(test.ok /\ Sees(T, test.pos, "?")) THEN test
     ELSE IF yes.ok THEN Then(f[<<"assign", yes.pos, yes.depth>>], Opaque) ELSE yes

(* guardDepth counts up on entry; only a return counts down again, a throw *)
(* does not.                                                               *)
Guarded(d) == d + 1 <= MaxParseDepth
Returns(r) == IF r.ok THEN Done(r.pos, r.depth - 1, r.node) ELSE r
Chain(f, p, d, rule, rest) ==
  LET first == f[<<rule, p, d + 1>>]
      more == f[<<rest, first.pos, first.depth>>]
  IN IF ~Guarded(d) THEN Threw(d + 1)
     ELSE IF first.ok THEN Returns(Then(more, Built(first.node, more.node))) ELSE first

(* parseBinaryLevel over parseAdditive over parseUnary.                    *)
Binary(f, p, d) == Chain(f, p, d, "additive", "binaryRest")
Additive(f, p, d) == Chain(f, p, d, "unary", "additiveRest")
Operand(f, T, p, d, rule) ==
  LET right == f[<<rule, p + 1, d>>]
  IN Then(right, [type |-> "Binary", operator |-> Tok(T, p).value[1], left |-> Hole,
                  right |-> right.node])
BinaryRest(f, T, p, d) ==
  IF \E op \in BinaryOperators : Sees(T, p, op)
    THEN List(f, Operand(f, T, p, d, "additive"), "binaryRest") ELSE Done(p, d, <<>>)
AdditiveRest(f, T, p, d) ==
  IF \E op \in AdditiveOperators : Sees(T, p, op)
    THEN List(f, Operand(f, T, p, d, "unary"), "additiveRest") ELSE Done(p, d, <<>>)

Unary(f, T, p, d) ==
  LET r == f[<<"unary", p + 1, d>>] IN
  IF \E op \in UnaryOperators : Sees(T, p, op) THEN Then(r, [type |-> "Unary", argument |-> r.node])
  ELSE f[<<"postfix", p, d>>]

Postfix(f, p, d) == Chain(f, p, d, "primary", "trailers")
Trailers(f, T, p, d) ==
  LET args == f[<<"arguments", IF Sees(T, p, "(") THEN p + 1 ELSE p + 2, d>>]
      key == Expect(T, f[<<"sequence", p + 1, d>>], "]")
  IN IF Sees(T, p, "(") \/ (Sees(T, p, "?.") /\ Sees(T, p + 1, "("))
       THEN List(f, Then(args, Call(Hole, args.node)), "trailers")
     ELSE IF Sees(T, p, ".") \/ Sees(T, p, "?.")
       THEN IF IsName(Tok(T, p + 1))
              THEN List(f, Done(p + 2, d, Member(Hole, Tok(T, p + 1).value)), "trailers")
              ELSE Threw(d)
     ELSE IF Sees(T, p, "[") THEN List(f, Then(key, Keyed(Hole, key.node)), "trailers")
     ELSE Done(p, d, <<>>)

(* Up to the closing bracket; an array may have holes.                     *)
Items(f, T, p, d, rule) ==
  LET close == IF rule = "arguments" THEN ")" ELSE "]"
      spread == Sees(T, p, "...")
      e == f[<<"assign", IF spread THEN p + 1 ELSE p, d>>]
      item == IF spread THEN Opaque ELSE e.node
  IN IF Sees(T, p, close) THEN Done(p + 1, d, <<>>)
     ELSE IF rule = "elements" /\ Sees(T, p, ",") THEN Prepend(Hole, f[<<rule, p + 1, d>>])
     ELSE IF ~e.ok THEN e
     ELSE IF Sees(T, e.pos, ",") THEN Prepend(item, f[<<rule, e.pos + 1, e.depth>>])
     ELSE Then(Expect(T, e, close), <<item>>)

Arrow(f, T, p, d) == IF Sees(T, p, "{") THEN Skipped(T, p, d, "{", "}", FunctionNode(FALSE))
                     ELSE Then(f[<<"assign", p, d>>], FunctionNode(FALSE))
(* The callee of new is a name and plain members, without a call; what is  *)
(* made of it is not looked at.                                            *)
Members(f, T, p, d) == IF ~Sees(T, p, ".") THEN Done(p, d, Opaque)
                       ELSE IF IsName(Tok(T, p + 1)) THEN f[<<"members", p + 2, d>>] ELSE Threw(d)
New(f, T, p, d) ==
  LET callee == f[<<"members", p + 2, d>>]
      args == IF Sees(T, callee.pos, "(") THEN f[<<"arguments", callee.pos + 1, callee.depth>>]
              ELSE Then(callee, <<>>)
  IN IF ~IsName(Tok(T, p + 1)) THEN Threw(d)
     ELSE IF callee.ok THEN Then(args, [type |-> "New", args |-> args.node]) ELSE callee

Parenthesised(f, T, p, d) ==
  LET inner == Expect(T, f[<<"sequence", p + 1, d>>], ")")
  IN IF inner.ok /\ Sees(T, inner.pos, "=>") THEN Arrow(f, T, inner.pos + 1, inner.depth) ELSE inner
ArrayLiteral(f, p, d) ==
  LET list == f[<<"elements", p + 1, d>>]
  IN Then(list, [type |-> "Array", elements |-> list.node])

Primary(f, T, p, d) ==
  LET t == Tok(T, p)
      is(cell) == t.type # "string" /\ t.value = <<cell>>
  IN IF t.type \in {"string", "number"} THEN Done(p + 1, d, Literal(t))
     ELSE IF t.type = "regex" THEN Done(p + 1, d, Opaque)
     ELSE IF is("(") THEN Parenthesised(f, T, p, d)
     ELSE IF is("[") THEN ArrayLiteral(f, p, d)
     ELSE IF is("{") THEN Skipped(T, p, d, "{", "}", Opaque)
     ELSE IF is("function") THEN FunctionExpression(T, p, d)
     ELSE IF is("async") /\ Sees(T, p + 1, "function") THEN FunctionExpression(T, p + 1, d)
     ELSE IF is("new") THEN New(f, T, p, d)
     ELSE IF is("class") \/ is("await") THEN Threw(d)
     ELSE IF is("this") THEN Done(p + 1, d, Name(t.value))
     ELSE IF ~IsName(t) THEN Threw(d)
     ELSE IF Sees(T, p + 1, "=>") THEN Arrow(f, T, p + 2, d) ELSE Done(p + 1, d, Name(t.value))

Rule(f, T, rule, p, d) ==
  CASE rule = "sequence" -> Sequence(f, T, p, d)
    [] rule = "commas" -> Commas(f, T, p, d)
    [] rule = "assign" -> Assign(f, T, p, d)
    [] rule = "binary" -> Binary(f, p, d)
    [] rule = "binaryRest" -> BinaryRest(f, T, p, d)
    [] rule = "additive" -> Additive(f, p, d)
    [] rule = "additiveRest" -> AdditiveRest(f, T, p, d)
    [] rule = "unary" -> Unary(f, T, p, d)
    [] rule = "postfix" -> Postfix(f, p, d)
    [] rule = "trailers" -> Trailers(f, T, p, d)
    [] rule = "members" -> Members(f, T, p, d)
    [] rule \in {"arguments", "elements"} -> Items(f, T, p, d, rule)
    [] rule = "primary" -> Primary(f, T, p, d)

Calls(T) == Rules \X (1..(Len(T) + 1)) \X Nat
ParserOf(T) == LET parse[c \in Calls(T)] == Rule(parse, T, c[1], c[2], c[3]) IN parse
Parse(rule, T, p, d) == ParserOf(T)[<<rule, p, d>>]

-----------------------------------------------------------------------------
Initialised(T, name, init) ==
  IF ~init.ok THEN init
  ELSE IF Sees(T, init.pos, ",") THEN Threw(init.depth)
  ELSE Then(init, [type |-> "Declaration", name |-> name, init |-> init.node])
Declaration(T, p, d) ==
  LET name == Tok(T, p + 1) IN
  IF name.type # "identifier" THEN Threw(d)
  ELSE Initialised(T, name.value,
         IF Sees(T, p + 2, "=") THEN Parse("assign", T, p + 3, d) ELSE Done(p + 2, d, Hole))

(* One statement, with its semicolon if it has one.                        *)
IsExpression(r) == Then(r, [type |-> "Expression", expression |-> r.node])
Terminated(T, r) == IF r.ok /\ Sees(T, r.pos, ";") THEN Passing(r) ELSE r
Statement(T, p, d) ==
  LET keyword == Tok(T, p).type = "keyword" /\ \E k \in StatementKeywords : Sees(T, p, k) IN
  Terminated(T, IF keyword /\ Sees(T, p, "const") THEN Declaration(T, p, d)
                ELSE IF keyword THEN Threw(d)
                ELSE IsExpression(Parse("sequence", T, p, d)))

(* Brackets opened and not closed from p up to q, and where recovery may   *)
(* stop: the close of the first bracket, a stray closer, or a semicolon    *)
(* outside; here only punctuators count.                                   *)
IsPunct(T, q, cells) == Tok(T, q).type = "punct" /\ \E c \in cells : Sees(T, q, c)
Nest(T, p, q) == Cardinality({k \in p..(q - 1) : IsPunct(T, k, {"(", "[", "{"})})
                 - Cardinality({k \in p..(q - 1) : IsPunct(T, k, {")", "]", "}"})})
Stops(T, p) == {q \in p..Len(T) : \/ IsPunct(T, q, {")", "]", "}"}) /\ Nest(T, p, q) <= 1
                                  \/ IsPunct(T, q, {";"}) /\ Nest(T, p, q) = 0}

(* Variants: a closer that nothing opened is not consumed; only a semicolon *)
(* ends a statement.                                                       *)
SkipToStatementBoundary_Stays(T, p) ==
  LET q == Min(Stops(T, p)) IN
  IF Stops(T, p) = {} THEN Len(T) + 1
  ELSE IF IsPunct(T, q, {")", "]", "}"}) /\ Nest(T, p, q) = 0 THEN q ELSE q + 1
SkipToStatementBoundary_Semicolon(T, p) ==
  Min({Len(T)} \cup {q \in p..Len(T) : Sees(T, q, ";")}) + 1

(* Where recovery resumes: past the first stop, or past the last token.    *)
SkipToStatementBoundary(T, p) == Min({Len(T)} \cup Stops(T, p)) + 1
=============================================================================
