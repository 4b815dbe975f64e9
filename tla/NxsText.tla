------------------------------- MODULE NxsText --------------------------------
(***************************************************************************)
(* From the text of an .nxs document to its fields: the lexer (lexer.rs),  *)
(* the pragmas (lib.rs) and the recursive-descent parser (parser.rs).      *)
(*                                                                         *)
(* A text is a sequence of lexemes: <<"nl">> for the end of a line,        *)
(* <<"bang", terms>> for `!` and the terms an author joins by +, <<"at",   *)
(* k>> for `@k`, the others as the tokens they become.  A value is         *)
(* <<kind, ...>>: <<"text", parts, length>>, <<"object", fields>>,         *)
(* <<"list", values>>, <<"macro", terms>>; a field is [key, val].          *)
(* A result is a set of at most one element; {} is an error.               *)
(***************************************************************************)
EXTENDS Integers, Sequences, SequencesExt, FiniteSets, FiniteSetsExt

CONSTANT MaxDepth     \* nested objects the parser follows; 64 in the code

ASSUME MaxDepthAssumption == MaxDepth \in Nat

The(result) == CHOOSE x \in result : TRUE

\* -------------------------------------------------------------------------
\* The lexer

\* What a lexeme is as part of a macro's text: only a text keeps its meaning, the text's
\* first and last character decide whether it is taken for one literal.
Swallowed(x) == IF x[1] = "val" /\ x[2][1] = "text" THEN x[2] ELSE <<"other">>

\* read_macro_expr: everything up to the end of the line, a comma or a closing brace
\* belongs to the macro, a closing bracket and the next field too.
LexStep(st, x) ==
    IF st.open /\ x[1] \notin {"nl", ",", "}"}
    THEN [st EXCEPT !.toks[Len(st.toks)] = <<"val", <<"macro", Append(@[2][2], Swallowed(x))>>>>]
    ELSE CASE x[1] = "nl"   -> [st EXCEPT !.open = FALSE]
           [] x[1] = "bang" -> [toks |-> Append(st.toks, <<"val", <<"macro", x[2]>>>>), open |-> TRUE]
           [] x[1] = "at"   -> [toks |-> Append(st.toks, <<"val", <<"macro", << <<"ref", x[2]>> >> >>>>),
                                open |-> FALSE]
           [] OTHER         -> [toks |-> Append(st.toks, x), open |-> FALSE]

\* tokenize
Tokens(text) == FoldLeft(LexStep, [toks |-> <<>>, open |-> FALSE], text).toks

\* -------------------------------------------------------------------------
\* The parser: a result holds the value and the position behind it.

Peek(toks, p) == IF p \in DOMAIN toks THEN toks[p] ELSE <<"eof">>
Skip(toks, p, kind) == IF Peek(toks, p)[1] = kind THEN p + 1 ELSE p

RECURSIVE ParseValue(_, _, _), ParseBody(_, _, _, _), ParseElems(_, _, _, _)

\* parse_field: the colon may be left out, before any value.
ParseField(toks, p, depth) ==
    IF Peek(toks, p)[1] # "ident" THEN {}
    ELSE {[val |-> [key |-> toks[p][2], val |-> r.val], pos |-> r.pos] :
             r \in ParseValue(toks, Skip(toks, p + 1, ":"), depth)}

\* The fields of an object, with a comma or none behind each.
ParseBody(toks, p, depth, fields) ==
    IF Peek(toks, p)[1] \in {"}", "eof"}
    THEN IF Peek(toks, p)[1] = "}" THEN {[val |-> <<"object", fields>>, pos |-> p + 1]} ELSE {}
    ELSE UNION {ParseBody(toks, Skip(toks, r.pos, ","), depth, Append(fields, r.val)) :
                   r \in ParseField(toks, p, depth)}

\* Mutant of ParseObject: the depth is not looked at.
ParseObjectDeep(toks, p, depth) == ParseBody(toks, p + 1, depth + 1, <<>>)

\* parse_object
ParseObject(toks, p, depth) ==
    IF depth + 1 > MaxDepth THEN {} ELSE ParseBody(toks, p + 1, depth + 1, <<>>)

\* parse_list: all values of one kind; a list adds nothing to the depth.
ParseElems(toks, p, depth, vals) ==
    IF Peek(toks, p)[1] \in {"]", "eof"}
    THEN IF Peek(toks, p)[1] = "]" THEN {[val |-> <<"list", vals>>, pos |-> p + 1]} ELSE {}
    ELSE UNION {IF vals # <<>> /\ vals[1][1] # r.val[1] THEN {}
                ELSE ParseElems(toks, Skip(toks, r.pos, ","), depth, Append(vals, r.val)) :
                   r \in ParseValue(toks, p, depth)}

ParseValue(toks, p, depth) ==
    CASE Peek(toks, p)[1] = "{"   -> ParseObject(toks, p, depth)
      [] Peek(toks, p)[1] = "["   -> ParseElems(toks, p + 1, depth, <<>>)
      [] Peek(toks, p)[1] = "val" -> {[val |-> toks[p][2], pos |-> p + 1]}
      [] OTHER                    -> {}

\* parse_file: between top-level fields there is no comma.
RECURSIVE ParseFile(_, _, _)
ParseFile(toks, p, fields) ==
    IF Peek(toks, p)[1] = "eof" THEN {fields}
    ELSE UNION {ParseFile(toks, r.pos, Append(fields, r.val)) : r \in ParseField(toks, p, 0)}

\* parse_file_with_pragmas and apply_pragma: leading `@name value` pairs, of which the
\* lexer lets only @layout through; the last one counts.
RECURSIVE ParseText(_, _, _)
ParseText(toks, p, layout) ==
    LET t == Peek(toks, p)
        isPragma == t[1] = "val" /\ t[2][1] = "macro" /\ t[2][2][1][1] = "ref" /\ Len(t[2][2]) = 1
        name     == Peek(toks, p + 1)
    IN  IF ~isPragma
        THEN {[layout |-> layout, fields |-> fs] : fs \in ParseFile(toks, p, <<>>)}
        ELSE IF t[2][2][1][2] # "layout" \/ name[1] # "ident"
                  \/ name[2] \notin {"row", "columnar", "pax"} THEN {}
        ELSE ParseText(toks, p + 2, name[2])
===============================================================================
