------------------------------ MODULE MCDetector ------------------------------
(***************************************************************************)
(* The fragments programs are made of, with their meaning.  The scanner    *)
(* sees the cells only.                                                    *)
(***************************************************************************)
EXTENDS Detector, AstFold

frag(cells) == [cells |-> cells, binds |-> "none", to |-> None, calls |-> [by |-> "none"],
                makes |-> [of |-> "none", texts |-> {}], breaks |-> FALSE]
makes(f, text) == [f EXCEPT !.makes = [of |-> "none", texts |-> {text}]]
hides(f) == [f EXCEPT !.calls = [by |-> "hidden"]]
bindsText(name, text, init) ==
  makes([frag(<<"const", name, "=">> \o init) EXCEPT !.binds = name, !.to = Text(text)], text)
evAl == <<"'", "ev", "'", "+", "'", "al", "'">>

(* Declarations.                                                           *)
binders == {
  bindsText("k", Eval, evAl \o <<";">>),
  bindsText("k", Eval, <<"String", ".", "fromCharCode", "(", "1", ",", "2", ")", ";">>),
  bindsText("k", Eval, <<"'", "al", "ev", "'", ".", "split", "(", "'", "'", ")", ".", "reverse",
                         "(", ")", ".", "join", "(", "'", "'", ")", ";">>),
  bindsText("k", Eval, <<"Buffer", ".", "from", "(", "'", "6576", "616c", "'", ",", "'", "hex", "'",
                         ")", ".", "toString", "(", ")", ";">>),
  bindsText("k", Eval, <<"unescape", "(", "'", "%ev", "%al", "'", ")", ";">>),
  bindsText("k", <<"other">>, <<"[", "'", "other", "'", "]", ".", "join", "(", "'", "'", ")", ";">>),
  [frag(<<"const", "f", "=", "eval", ";">>) EXCEPT !.binds = "f", !.to = Identity(Eval, FALSE)],
  [hides(frag(<<"const", "f", "=", "this", "[">> \o evAl \o <<"]", ";">>))
     EXCEPT !.binds = "f", !.to = Identity(Eval, FALSE), !.calls = [by |-> "none"],
            !.makes = [of |-> "none", texts |-> {Eval}]]}

(* Calls: hidden ones, and ones every other scanner can see.               *)
callers == {
  [frag(<<"f", "(", "a", ")", ";">>) EXCEPT !.calls = [by |-> "name", name |-> "f"]],
  [frag(<<"this", "[", "k", "]", "(", "a", ")", ";">>) EXCEPT !.calls = [by |-> "key", name |-> "k"]],
  makes(hides(frag(<<"this", "[">> \o evAl \o <<"]", "(", "a", ")", ";">>)), Eval),
  hides(frag(<<"(", "function", "(", ")", "{", "}", ")", ".", "constructor", "(", "a", ")", ";">>)),
  hides(frag(<<"Object", ".", "getPrototypeOf", "(", "function", "*", "(", ")", "{", "a", ";", "}", ")",
               ".", "constructor", "(", "a", ")", ";">>)),
  makes(hides(frag(<<"require", "(", "'", "child", "'", "+", "'", "process", "'", ")", ";">>)),
        <<"child", "process">>),
  frag(<<"require", "(", "'", "child", "process", "'", ")", ";">>),
  frag(<<"(", "0", ",", "eval", ")", "(", "a", ")", ";">>),
  frag(<<"\\u_eval", "(", "a", ")", ";">>),
  frag(<<"eval", "(", "a", ")", ";">>),
  [makes(frag(<<"b", "(", "k", "+", "'", "ner", "'", ")", ";">>), <<"ner">>) EXCEPT !.makes.of = "k"],
  makes(frag(<<"b", "(", "'", "mi", "'", "+", "'", "ner", "'", ")", ";">>), <<"mi", "ner">>),
  frag(<<"b", "(", "'", "mi", "ner", "'", ")", ";">>)}

(* What the parser does not understand, or reads past.                     *)
others == {
  frag(<<"for", "(", "a", ";", ";", ")">>), frag(<<"if", "(", "a", ")">>),
  frag(<<"const", "{", "a", "}", "=", "b", "(", ")", ";">>),
  frag(<<"class", "a", "{", "b", "(", ")", "{", "}", "}">>),
  frag(<<"function", "g", "(", ")", "{", "a", ";", "}">>),
  frag(<<"a", "=", "b", "(", ")">>), frag(<<"a", "?", "b", ":", "0", ";">>),
  frag(<<"b", "(", "'", ")", "'", ")", ";">>), frag(<<")">>), frag(<<";">>),
  frag(<<"//", "'", "(", "\n">>), frag(<<"/*", "{", "'", "*/">>),
  frag(<<"a", "=>", "{", "b", ";", "}">>), frag(<<"new", "a", ".", "b", "(", "...", "c", ")", ";">>),
  frag(<<"a", "?.", "b", "?.", "(", "[", ",", "0", "]", ")", ";">>), frag(<<"!", "/re/", ";">>),
  frag(<<"async", "function", "(", ")", "{", "}", ";">>)}
broken == {[frag(<<"@">>) EXCEPT !.breaks = TRUE], [frag(<<"'", "a", "\n">>) EXCEPT !.breaks = TRUE]}

(* A high-risk shape with nothing to it.                                   *)
plain == makes(frag(<<"b", "(", "'", "o", "'", "+", "'", "ther", "'", ")", ";">>), <<"o", "ther">>)
calm == CHOOSE f \in callers : f.cells[1] = "require" /\ f.calls.by = "none"
grave == CHOOSE f \in callers : f.calls.by = "hidden" /\ f.cells[1] = "this"

pairs == {<<x, y>> : x \in binders \cup others \cup broken, y \in callers}
         \cup {<<x, y>> : x \in callers, y \in others \cup broken}
triples == {<<x, y, z>> : x \in binders, y \in others, z \in callers}
           \cup {<<x, y, z>> : x \in others, y \in binders, z \in callers}
floods == {<<calm, calm, calm, calm, grave>>, <<calm, grave, calm, calm, grave>>,
           <<grave, grave, grave, grave, grave>>, <<grave, calm, calm, calm, calm, grave, grave>>,
           <<plain, plain, plain, plain, plain>>}

MCPrograms == {<<>>} \cup {<<x>> : x \in callers} \cup pairs \cup triples \cup floods
MCViolations == {{}, {"HIGH"}, {"MEDIUM"}}

(* Assignments without semicolons, then a hidden call.  Each leaves three  *)
(* in the depth counter: three reach the bound of AstDepthLeak.cfg, as     *)
(* twenty reach the code's own.                                            *)
assignment == frag(<<"a", "=", "b", "(", ")", "\n">>)
LeakPrograms == {[i \in 1..n |-> assignment] \o <<grave>> : n \in {1, 2, 3}}
=============================================================================
