------------------------------- MODULE AstScan -------------------------------
(***************************************************************************)
(* AstScanner.scan: the spans of a module's text, highest risk first, each *)
(* tokenized, parsed statement by statement with recovery, and analysed.   *)
(*                                                                         *)
(* A module is a program, a sequence of fragments.  A fragment is its      *)
(* cells together with what it means, stated apart from the scanner: the   *)
(* name it binds and to what, the text it puts together, and what it       *)
(* calls.  The properties compare the two.                                 *)
(***************************************************************************)
EXTENDS SpanQueue, AstParser, AstValue

CONSTANTS Programs,
          Bind(_, _),  \* the bindings after a declaration, and the findings in
          Walk(_, _)   \* an expression: Bound and WalkExpression of AstFold

VARIABLES program, span

scanVars == <<program, queueVars, span>>

NoSpan == [start |-> 0, tokens |-> <<>>, pos |-> 1, depth |-> 0,
           statements |-> <<>>, bindings |-> <<>>]

ScanInit == /\ program \in Programs
            /\ source = FlattenSeq([i \in DOMAIN program |-> program[i].cells])
            /\ QueueInit
            /\ span = NoSpan

PassOverSpan == PassOver /\ UNCHANGED <<program, span>>

OpenSpan ==
  /\ queue.todo # <<>>
  /\ LET next == Head(queue.todo)
         tokens == Tokenize(SubSeq(source, next.start, next.end - 1))
     IN /\ TakeUp(TooLarge(tokens))
        /\ span' = IF TooLarge(tokens) THEN NoSpan
                   ELSE [NoSpan EXCEPT !.start = next.start, !.tokens = tokens]
  /\ UNCHANGED program

(* parseProgram: a statement that parses is kept; from one that throws,    *)
(* the skip starts again at its first token, and the depth counter keeps   *)
(* what the throw left in it.                                              *)
Parsing == queue.at = "inside" /\ span.pos <= Len(span.tokens)
ParseStatement ==
  /\ Parsing
  /\ \E s \in {Statement(span.tokens, span.pos, span.depth)} :
     /\ s.ok
     /\ span' = [span EXCEPT !.pos = s.pos, !.depth = s.depth, !.statements = Append(@, s.node)]
  /\ UNCHANGED <<program, queueVars>>

Recover ==
  /\ Parsing
  /\ \E s \in {Statement(span.tokens, span.pos, span.depth)} :
     /\ ~s.ok
     /\ span' = [span EXCEPT !.pos = SkipToStatementBoundary(span.tokens, @), !.depth = s.depth]
  /\ UNCHANGED <<program, queueVars>>

(* Every finding is placed at the start of its span.                       *)
Placed(items) == [i \in DOMAIN items |-> items[i] @@ [pos |-> span.start]]

AnalyzeStatement ==
  /\ queue.at = "inside" /\ ~Parsing /\ span.statements # <<>>
  /\ LET s == Head(span.statements)
         declares == s.type = "Declaration"
         bindings == IF declares /\ s.init # Hole THEN Bind(s, span.bindings) ELSE span.bindings
         e == IF declares THEN s.init ELSE s.expression
     IN /\ span' = [span EXCEPT !.statements = Tail(@), !.bindings = bindings]
        /\ found' = found \o Placed(Walk(e, bindings))
  /\ UNCHANGED <<program, source, half, queue>>

CloseSpan ==
  /\ ~Parsing /\ span.statements = <<>> /\ Leave
  /\ span' = NoSpan
  /\ UNCHANGED program

EndScan == Finish /\ UNCHANGED <<program, span>>

AstStep == PassOverSpan \/ OpenSpan \/ ParseStatement \/ Recover
           \/ AnalyzeStatement \/ CloseSpan \/ EndScan

-----------------------------------------------------------------------------
(* What the program means, without the scanner.                            *)
Binder(name, i) == LET at == {j \in 1..(i - 1) : program[j].binds = name}
                   IN IF at = {} THEN None ELSE program[Max(at)].to
(* Fragment i calls a dangerous global, not by its own name.               *)
Reaches(i) ==
  LET c == program[i].calls IN
  \/ c.by = "hidden"
  \/ c.by = "name" /\ Binder(c.name, i).kind = "identity"
  \/ c.by = "key" /\ Binder(c.name, i).kind = "text" /\ Binder(c.name, i).text \in Globals
Reaching == {i \in DOMAIN program : Reaches(i)}
Makes(i) == LET m == program[i].makes IN
  IF m.of = "none" THEN m.texts
  ELSE IF Binder(m.of, i).kind # "text" THEN {}
  ELSE {Binder(m.of, i).text \o t : t \in m.texts}
Texts == UNION {Makes(i) : i \in DOMAIN program}

WholeIn(s) == s.start = 1 /\ s.end = Len(source) + 1
(* A fragment of cells no statement can follow, and one whose end a next   *)
(* fragment would be read on from.                                         *)
Readable == \A i \in DOMAIN program :
  /\ ~program[i].breaks
  /\ i > 1 /\ Head(program[i].cells) \in Openers => Last(program[i - 1].cells) # "}"

(* No report without cause: some fragment does reach a dangerous global by *)
(* another way than its name.  Where one span holds a whole program that   *)
(* the tokenizer can read to its end, every such call is reported once,    *)
(* whatever else is in it that the parser does not understand.             *)
ReportsExactly ==
  /\ Reports # {} => Reaching # {}
  /\ (/\ queue.at = "scanned" /\ Readable
      /\ \E s \in queue.looked : WholeIn(s))
     => Cardinality(Reports) = Cardinality(Reaching)

(* A literal emitted is a text the program itself puts together.           *)
LiteralsAreTexts == Literals \subseteq Texts

(* The parser takes a statement or recovers as it would have done had      *)
(* nothing failed before it.                                               *)
RecoveryIsBounded ==
  Parsing => (Statement(span.tokens, span.pos, 0).ok
                => Statement(span.tokens, span.pos, span.depth).ok)
=============================================================================
