---------------------------- MODULE AhoCorasick -----------------------------
(***************************************************************************)
(* The keyword automaton (packages/fw-agent/src/aho-corasick.js).  Text is *)
(* a sequence of UTF-16 code units.  A trie node is named by the path that *)
(* leads to it, so that node.next[code] is Append(node, code) when that is *)
(* a node and null otherwise; the root is <<>>.                            *)
(***************************************************************************)
EXTENDS Naturals, Sequences, FiniteSetsExt, SequencesExt

NoMatch == <<>>
Root    == <<>>

\* Mutant: code units beyond ASCII are masked into it.
FoldCode_Masked(code) ==
    LET masked == code % 128
    IN  IF masked \in 65..90 THEN masked + 32 ELSE masked

NonAsciiBucket == 127

FoldCode(code) ==
    IF code \in 65..90 THEN code + 32
    ELSE IF code < 127 THEN code
    ELSE NonAsciiBucket

Folded(text) == [i \in 1..Len(text) |-> FoldCode(text[i])]

-----------------------------------------------------------------------------
(* The constructor. *)

\* _buildTrie, which reads the keywords in their order: the last one to end
\* at a node is its output.
Nodes(keywords) ==
    {Root} \cup UNION {Prefixes(Folded(keywords[k])) : k \in DOMAIN keywords}

OwnOutput(keywords, node) ==
    LET ending == {k \in DOMAIN keywords : Folded(keywords[k]) = node}
    IN  IF ending = {} THEN NoMatch ELSE keywords[Max(ending)]

\* Mutant: every node fails to the root.
FailureLinks_ToRoot(nodes) == [node \in nodes |-> Root]

\* From a node, the links of those that have one lead to the first node with
\* a child for the code, or to the root.
Follow(nodes, fail, linked, from, code) ==
    LET child[node \in linked] ==
          IF Append(node, code) \in nodes THEN Append(node, code)
          ELSE IF node = Root THEN Root
          ELSE child[fail[node]]
    IN  child[from]

\* _buildFailureLinks goes breadth first: a node's link follows its parent's
\* links when all shorter nodes have theirs.
FailureLinks(nodes) ==
    LET fail[node \in nodes] ==
          IF Len(node) <= 1 THEN Root
          ELSE LET shorter == {n \in nodes : Len(n) < Len(node)}
               IN  Follow(nodes, fail, shorter, fail[Front(node)], Last(node))
    IN  fail

\* Mutant: a node does not inherit the output of the node it fails to.
Outputs_OwnOnly(keywords, fail) ==
    [node \in DOMAIN fail |-> OwnOutput(keywords, node)]

\* A node without an output of its own has that of the node it fails to.
Outputs(keywords, fail) ==
    LET output[node \in DOMAIN fail] ==
          IF OwnOutput(keywords, node) # NoMatch \/ Len(node) <= 1
            THEN OwnOutput(keywords, node)
            ELSE output[fail[node]]
    IN  output

Automaton(keywords) ==
    LET nodes == Nodes(keywords)
        fail  == FailureLinks(nodes)
    IN  [fail |-> fail, output |-> Outputs(keywords, fail)]

-----------------------------------------------------------------------------
(* searchInsensitive(text) *)

\* One turn of its loop: the first node with an output ends the search.
Turn(automaton, s, code) ==
    IF s.match # NoMatch THEN s
    ELSE LET fail == automaton.fail
             node == Follow(DOMAIN fail, fail, DOMAIN fail, s.node, FoldCode(code))
         IN  [node |-> node, match |-> automaton.output[node]]

SearchInsensitive(automaton, text) ==
    LET after[i \in 0..Len(text)] ==
          IF i = 0 THEN [node |-> Root, match |-> NoMatch]
                   ELSE Turn(automaton, after[i - 1], text[i])
    IN  after[Len(text)].match

-----------------------------------------------------------------------------
(* What the search is to return: of the keywords that end first in the text, *)
(* the longest.  Letters match in either case, other code units themselves.  *)

\* No keyword has a capital or a character beyond ASCII.
KeywordCodes == (0..126) \ (65..90)

LowerCase(code) == IF code \in 65..90 THEN code + 32 ELSE code

SameText(a, b) ==
    Len(a) = Len(b) /\ \A i \in 1..Len(a) : LowerCase(a[i]) = LowerCase(b[i])

EndsAt(keyword, text, i) ==
    Len(keyword) <= i /\ SameText(keyword, SubSeq(text, i - Len(keyword) + 1, i))

FirstMatch(keywords, text) ==
    LET all  == {keywords[k] : k \in DOMAIN keywords}
        ends == {i \in 1..Len(text) : \E kw \in all : EndsAt(kw, text, i)}
    IN  IF ends = {} THEN NoMatch
        ELSE CHOOSE kw \in all :
               /\ EndsAt(kw, text, Min(ends))
               /\ \A other \in all :
                    EndsAt(other, text, Min(ends)) => Len(other) <= Len(kw)
=============================================================================
