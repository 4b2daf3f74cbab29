---------------------------- MODULE HwGenParser ----------------------------
(***************************************************************************)
(* The recursive descent parser of register descriptions                   *)
(* (hw/hwgen/parse.go), on sequences of tokens.  Every parse function      *)
(* takes the parser's state to the state after it, with the syntax tree it *)
(* returns in the field x; a node is <<kind, position, ...>>.  A line ends *)
(* with ";" (the scanner's automatic semicolon); after a bailout, which    *)
(* main recovers, the rest of the calls sees the end of the file.          *)
(***************************************************************************)
EXTENDS Naturals, Sequences, FiniteSets, SequencesExt

CONSTANTS
  Idents,     \* the tokens that are identifiers; "_" is one
  UintNames,  \* those of the form uintN
  Ints,       \* the tokens that are integer literals
  Inputs      \* the token sequences to parse

HwGenParserAssumption == UintNames \subseteq Idents /\ "_" \in Idents

VARIABLES
  input,
  p,        \* [pos, errors, syncPos, syncCnt, scope, unresolved, bailed, x]
  decls,
  phase     \* "package", "imports", "decls", "undefined", "done"

vars == <<input, p, decls, phase>>

At(i) == IF i <= Len(input) THEN input[i] ELSE "EOF"
Line(i) == Cardinality({j \in DOMAIN input : j < i /\ input[j] = ";"})
\* The first position from i on that is not a comment
skip(i) == CHOOSE j \in i .. Len(input) + 1 :
             At(j) # "comment" /\ \A k \in i .. j - 1 : At(k) = "comment"
Tok(q) == IF q.bailed THEN "EOF" ELSE At(q.pos)
With(q, x) == [q EXCEPT !.x = x]
\* After what leads to q, what comes next
Then(q, Rest(_)) == Rest(q)

None == <<>>
Bad(q) == <<"bad", q.pos>>
Ident(at, name) == <<"ident", at, name>>
IsIdent(x) == x # None /\ x[1] = "ident"
NameOf(x) == x[3]

-----------------------------------------------------------------------------
(* Errors, and going on after them *)

\* One error a line is kept, and after 11 of them the parser gives up
error(q, at) ==
  IF q.bailed \/ (q.errors # <<>> /\ Last(q.errors) = Line(at)) THEN q
  ELSE IF Len(q.errors) > 10 THEN [q EXCEPT !.bailed = TRUE]
  ELSE [q EXCEPT !.errors = Append(@, Line(at))]

errorExpected(q) == error(q, q.pos)

\* To the next token that is not a comment
next(q) ==
  IF Tok(q) = "EOF" THEN q
  ELSE [q EXCEPT !.pos = skip(q.pos + 1)]

expect(q, tok) == next(IF Tok(q) = tok THEN q ELSE errorExpected(q))

\* At a token to go on from, a sync returns at most 10 times without progress
Stays(q) == q.pos = q.syncPos /\ q.syncCnt < 10

RECURSIVE syncTo(_, _)
syncTo(q, Starts) ==
  CASE Tok(q) = "EOF" -> q
    [] Tok(q) \in Starts /\ Stays(q) -> [q EXCEPT !.syncCnt = @ + 1]
    [] Tok(q) \in Starts /\ ~Stays(q) /\ q.pos > q.syncPos ->
         [q EXCEPT !.syncPos = q.pos, !.syncCnt = 0]
    [] OTHER -> syncTo(next(q), Starts)

syncStmt(q) == syncTo(q, {"const", "type", "var", "return"})
syncDecl(q) == syncTo(q, {"const", "type", "var"})

expectSemi(q) ==
  CASE Tok(q) \in {")", "}"} -> q
    [] Tok(q) = ";" -> next(q)
    [] OTHER -> syncStmt(errorExpected(q))

-----------------------------------------------------------------------------
(* Names *)

names(idents) == {NameOf(idents[k]) : k \in DOMAIN idents}

\* declare: an error for each name that is in the scope, or twice in idents
declared(q, scope, idents) ==
  FoldLeftDomain(LAMBDA r, k :
      IF NameOf(idents[k]) \in scope \cup {NameOf(idents[j]) : j \in 1 .. k - 1}
      THEN error(r, idents[k][2]) ELSE r, q, idents)

declare(q, idents) ==
  [declared(q, q.scope, idents) EXCEPT !.scope = @ \cup names(idents)]

\* Seeded bug: the blank identifier is not looked up
resolve_NotBlank(q, x) ==
  IF IsIdent(x) /\ NameOf(x) # "_" /\ NameOf(x) \notin q.scope
  THEN [q EXCEPT !.unresolved = Append(@, x)] ELSE q

\* tryResolve: a name that no scope has yet is left to the end of the file
resolve(q, x) ==
  IF IsIdent(x) /\ NameOf(x) \notin q.scope
  THEN [q EXCEPT !.unresolved = Append(@, x)] ELSE q

parseIdent(q) ==
  IF Tok(q) \in Idents THEN With(next(q), Ident(q.pos, Tok(q)))
  ELSE With(expect(q, "identifier"), Ident(q.pos, "_"))

RECURSIVE identsFrom(_, _)
identsFrom(q, list) ==
  Then(parseIdent(q), LAMBDA r :
    IF Tok(r) = "," THEN identsFrom(next(r), Append(list, r.x)) ELSE With(r, Append(list, r.x)))

parseIdentList(q) == identsFrom(q, <<>>)

-----------------------------------------------------------------------------
(* Expressions *)

UnaryOps == {"+", "-", "!", "^", "&"}
LevelOf(tok) == CASE tok \in {"==", "="} -> 3
                  [] tok \in {"+", "-", "|", "^"} -> 4
                  [] tok \in {"*", "/", "%", "<<", ">>", "&"} -> 5
                  [] OTHER -> 0

\* tokPrec: in the right hand sides that are all there is, "=" stands for "=="
operator(q) == IF Tok(q) = "=" THEN "==" ELSE Tok(q)

RECURSIVE parseRhs(_), tryIdentOrType(_), parseType(_)

parseOperand(q) ==
  CASE Tok(q) \in Idents -> Then(parseIdent(q), LAMBDA r : resolve(r, r.x))
    [] Tok(q) \in Ints -> With(next(q), <<"int", q.pos>>)
    [] Tok(q) = "(" -> Then(parseRhs(next(q)), LAMBDA r :
                              With(expect(r, ")"), <<"paren", q.pos, r.x>>))
    [] Tok(q) \in {"[", "struct", "{"} -> tryIdentOrType(q)
    [] OTHER -> With(syncStmt(errorExpected(q)), Bad(q))

RECURSIVE parseUnaryExpr(_)
parseUnaryExpr(q) ==
  IF Tok(q) \in UnaryOps
  THEN Then(parseUnaryExpr(next(q)), LAMBDA r : With(r, <<"unary", q.pos, r.x>>))
  ELSE parseOperand(q)

\* The right operand of an operator takes in only operators of a higher level
Tighter(level) == level + 1

\* The loops of parseBinaryExpr over the levels and the operators of a level
RECURSIVE climb(_, _, _), parseBinaryExpr(_, _)
climb(q, level, lowest) ==
  IF level < lowest THEN q
  ELSE IF LevelOf(Tok(q)) # level THEN climb(q, level - 1, lowest)
  ELSE Then(parseBinaryExpr(expect(q, operator(q)), Tighter(level)), LAMBDA y :
         climb(With(y, <<"binary", q.pos, q.x, y.x>>), level, lowest))

parseBinaryExpr(q, lowest) ==
  Then(parseUnaryExpr(q), LAMBDA x : climb(x, LevelOf(Tok(x)), lowest))

parseRhs(q) == parseBinaryExpr(q, 1)

RECURSIVE parseRhsList(_, _)
parseRhsList(q, list) ==
  Then(parseRhs(q), LAMBDA r :
    IF Tok(r) = "," THEN parseRhsList(next(r), Append(list, r.x)) ELSE With(r, Append(list, r.x)))

-----------------------------------------------------------------------------
(* Types *)

\* The length of [N], [...], [] or [hi:lo]
parseLength(q) ==
  IF Tok(q) = "..." THEN With(next(q), <<"ellipsis", q.pos>>)
  ELSE IF Tok(q) = "]" THEN With(q, None)
  ELSE Then(parseRhs(q), LAMBDA hi :
         IF Tok(hi) # ":" THEN hi
         ELSE Then(parseRhs(next(hi)), LAMBDA lo : With(lo, <<"range", q.pos, hi.x, lo.x>>)))

parseArrayType(q) ==
  Then(parseLength(expect(q, "[")), LAMBDA len :
  Then(expect(len, "]"), LAMBDA r :
  Then(IF Tok(r) # ";" THEN parseType(r) ELSE With(r, None), LAMBDA elt :
    With(elt, <<"array", q.pos, len.x, elt.x>>))))

parseBitArrayType(q, elt) ==
  Then(expect(q, "("), LAMBDA r :
    IF Tok(r) = ")" THEN With(next(errorExpected(r)), Bad(r))
    ELSE Then(parseRhs(r), LAMBDA len : With(expect(len, ")"), <<"array", q.pos, len.x, elt>>)))

parseVarType(q) ==
  Then(tryIdentOrType(q), LAMBDA r :
    IF r.x = None THEN With(next(errorExpected(r)), Bad(r)) ELSE r)

parseType(q) == Then(parseVarType(q), LAMBDA r : resolve(r, r.x))

\* parseVarList: the types up to one that no "," follows; none may follow the last ","
RECURSIVE varsFrom(_, _)
varsFrom(q, list) ==
  IF Tok(q) # "," THEN With(q, Append(list, q.x))
  ELSE Then(tryIdentOrType(next(q)), LAMBDA r :
         IF r.x = None THEN With(r, Append(list, q.x)) ELSE varsFrom(r, Append(list, q.x)))

\* The attributes /name after a field
RECURSIVE attributes(_)
attributes(q) ==
  IF Tok(q) # "/" THEN q
  ELSE Then(next(q), LAMBDA r : attributes(IF Tok(r) \in Idents THEN next(r) ELSE errorExpected(r)))

\* makeIdentList: what is no identifier is an error, unless it was one before
makeIdentList(q, list) ==
  With(FoldLeft(LAMBDA r, x : IF x[1] \in {"ident", "bad"} THEN r ELSE error(r, x[2]), q, list),
       [k \in DOMAIN list |-> IF IsIdent(list[k]) THEN list[k] ELSE Ident(list[k][2], "_")])

parseFieldDecl(q, scope, defaultType) ==
  Then(varsFrom(parseVarType(q), <<>>), LAMBDA list :
  Then(tryIdentOrType(list), LAMBDA typed :
  Then(makeIdentList(attributes(typed), list.x), LAMBDA idents :
  Then(IF typed.x = None THEN Ident(idents.pos, defaultType) ELSE typed.x, LAMBDA typ :
    With(resolve(declared(expectSemi(idents), scope, idents.x), typ),
         <<"field", q.pos, idents.x, typ>>)))))

parseOffset(q) ==
  Then(parseRhs(expect(q, "...")), LAMBDA offset :
  Then(Tok(offset) \in Idents, LAMBDA tagged :
    With(expectSemi(IF tagged THEN next(offset) ELSE offset),
         <<"offset", q.pos, offset.x, IF tagged THEN Tok(offset) ELSE "">>)))

RECURSIVE fieldsFrom(_, _, _, _)
fieldsFrom(q, scope, defaultType, list) ==
  CASE Tok(q) \in Idents ->
         Then(parseFieldDecl(q, scope, defaultType), LAMBDA f :
           fieldsFrom(f, scope \cup names(f.x[3]), defaultType, Append(list, f.x)))
    [] Tok(q) = "..." ->
         Then(parseOffset(q), LAMBDA o : fieldsFrom(o, scope, defaultType, Append(list, o.x)))
    [] OTHER -> With(q, list)

\* A field without a type is 1 bit wide in a bit field, and a "_" in a struct
parseStructType(q, isBitfield) ==
  Then(expect(IF isBitfield THEN q ELSE expect(q, "struct"), "{"), LAMBDA r :
  Then(fieldsFrom(r, {}, IF isBitfield THEN "1" ELSE "_", <<>>), LAMBDA fields :
    With(expect(fields, "}"), <<"struct", q.pos, fields.x, isBitfield>>)))

tryIdentOrType(q) ==
  CASE Tok(q) \in Idents -> parseIdent(q)
    [] Tok(q) = "[" -> parseArrayType(q)
    [] Tok(q) \in {"struct", "{"} -> parseStructType(q, Tok(q) = "{")
    [] Tok(q) = "(" -> parseBitArrayType(q, None)
    [] OTHER -> With(q, None)

-----------------------------------------------------------------------------
(* Declarations *)

parseImportSpec(q) ==
  Then(IF Tok(q) \in Idents \cup {"."} THEN next(q) ELSE q, LAMBDA r :
    With(expectSemi(IF Tok(r) = "badpath" THEN next(errorExpected(r)) ELSE expect(r, "string")), None))

parseValueSpec(q) ==
  Then(parseIdentList(q), LAMBDA idents :
  Then(IF Tok(idents) = "=" THEN parseRhsList(next(idents), <<>>) ELSE With(idents, <<>>), LAMBDA values :
  Then(expectSemi(values), LAMBDA ended :
    With(declare(IF values.x = <<>> THEN error(ended, q.pos) ELSE ended, idents.x),
         <<"const", q.pos, idents.x, values.x>>))))

parseTypeSpec(q) ==
  Then(Tok(q) = "default", LAMBDA isDefault :
  Then(parseIdent(IF isDefault THEN next(q) ELSE q), LAMBDA ident :
  Then(declare(ident, <<ident.x>>), LAMBDA r :
  Then(CASE ~isDefault -> parseType(r)
         [] isDefault /\ Tok(r) = "(" -> parseBitArrayType(r, Ident(r.pos, "_"))
         [] OTHER -> parseIdent(r), LAMBDA typ :
    With(expectSemi(typ), <<"type", q.pos, <<ident.x>>, typ.x, isDefault>>)))))

parseSpec(q, keyword) == CASE keyword = "const" -> parseValueSpec(q)
                           [] keyword \in {"type", "func"} -> parseTypeSpec(q)
                           [] keyword = "import" -> parseImportSpec(q)

RECURSIVE specsFrom(_, _, _)
specsFrom(q, keyword, list) ==
  IF Tok(q) \in {")", "EOF"} THEN With(q, list)
  ELSE Then(parseSpec(q, keyword), LAMBDA s : specsFrom(s, keyword, Append(list, s.x)))

parseGenDecl(q, keyword) ==
  Then(expect(q, keyword), LAMBDA r :
    IF Tok(r) = "("
    THEN Then(specsFrom(next(r), keyword, <<>>), LAMBDA group :
           With(expectSemi(expect(group, ")")), group.x))
    ELSE Then(parseSpec(r, keyword), LAMBDA spec : With(spec, <<spec.x>>)))

parseDecl(q) == IF Tok(q) \in {"const", "type", "func"} THEN parseGenDecl(q, Tok(q))
                ELSE With(syncDecl(errorExpected(q)), <<>>)

-----------------------------------------------------------------------------
Init == /\ input \in Inputs
        /\ p = [pos |-> skip(1), errors |-> <<>>, syncPos |-> 0, syncCnt |-> 0, scope |-> {},
                unresolved |-> <<>>, bailed |-> FALSE, x |-> None]
        /\ decls = <<>>
        /\ phase = "package"

\* The package clause; with an error in it the rest is not looked at.  The scope of the
\* file starts with the default type "1".
ParsePackage ==
  /\ phase = "package"
  /\ LET name == parseIdent(expect(p, "package"))
         q == expectSemi(IF NameOf(name.x) = "_" THEN error(name, name.pos) ELSE name)
     IN /\ p' = [q EXCEPT !.scope = {"1"}, !.x = None]
        /\ phase' = IF q.errors = <<>> THEN "imports" ELSE "done"
  /\ UNCHANGED <<input, decls>>

ParseImport ==
  /\ phase = "imports"
  /\ IF Tok(p) = "import" THEN p' = With(parseGenDecl(p, "import"), None) /\ UNCHANGED phase
     ELSE UNCHANGED p /\ phase' = "decls"
  /\ UNCHANGED <<input, decls>>

ParseDecl ==
  /\ phase = "decls" /\ Tok(p) # "EOF"
  /\ LET q == parseDecl(p) IN p' = With(q, None) /\ decls' = decls \o q.x
  /\ UNCHANGED <<input, phase>>

\* The end of parseFile: identifiers that the file declares later on are resolved, and
\* there is no tree after an error.  A bailout skips this.
ResolveFile ==
  /\ phase = "decls" /\ Tok(p) = "EOF"
  /\ IF p.bailed THEN UNCHANGED p
     ELSE p' = [p EXCEPT !.unresolved = SelectSeq(@, LAMBDA x : NameOf(x) \notin p.scope)]
  /\ phase' = IF p.bailed \/ p.errors # <<>> THEN "done" ELSE "undefined"
  /\ UNCHANGED <<input, decls>>

\* main: what is still unresolved and is no uintN is undefined
ReportUndefined ==
  /\ phase = "undefined"
  /\ p' = FoldLeft(LAMBDA q, x : IF NameOf(x) \in UintNames THEN q ELSE error(q, x[2]),
                   p, p.unresolved)
  /\ phase' = "done"
  /\ UNCHANGED <<input, decls>>

Next == ParsePackage \/ ParseImport \/ ParseDecl \/ ResolveFile \/ ReportUndefined

Spec == Init /\ [][Next]_vars

-----------------------------------------------------------------------------
(* The language: the positions after what a symbol of the grammar, from     *)
(* position i on, may stand for                                             *)

ends(from, To(_)) == UNION {To(i) : i \in from}
token(i, toks) == IF At(i) \in toks THEN {skip(i + 1)} ELSE {}
optional(i, To(_)) == {i} \cup To(i)

RECURSIVE Exprs(_), Types(_), Fields(_), Attributes(_), Idents1(_), Specs(_, _)

Operands(i) == token(i, Idents \cup Ints)
               \cup ends(ends(token(i, {"("}), Exprs), LAMBDA j : token(j, {")"}))
               \cup (IF At(i) \in {"[", "struct", "{"} THEN Types(i) ELSE {})
RECURSIVE Unaries(_)
Unaries(i) == Operands(i) \cup ends(token(i, UnaryOps), Unaries)
BinaryOps == {"==", "+", "-", "|", "^", "*", "/", "%", "<<", ">>", "&"}
Exprs(i) == LET u == Unaries(i)
            IN u \cup ends(ends(u, LAMBDA j : token(j, BinaryOps)), Exprs)
RECURSIVE ExprLists(_)
ExprLists(i) == LET u == Exprs(i)
                IN u \cup ends(ends(u, LAMBDA j : token(j, {","})), ExprLists)

Semis(i) == IF At(i) \in {")", "}"} THEN {i} ELSE token(i, {";"})
Idents1(i) == LET u == token(i, Idents)
              IN u \cup ends(ends(u, LAMBDA j : token(j, {","})), Idents1)
Ranges(i) == optional(i, LAMBDA j : ends(token(j, {":"}), Exprs))
Lengths(i) == {i} \cup token(i, {"..."}) \cup ends(Exprs(i), Ranges)
Elements(i) == IF At(i) = ";" THEN {i} ELSE Types(i)
Parens(i) == ends(ends(token(i, {"("}), Exprs), LAMBDA j : token(j, {")"}))
Types(i) ==
  token(i, Idents) \cup Parens(i)
  \cup ends(ends(ends(token(i, {"["}), Lengths), LAMBDA j : token(j, {"]"})), Elements)
  \cup ends(ends(ends({i} \cup token(i, {"struct"}), LAMBDA j : token(j, {"{"})), Fields),
            LAMBDA j : token(j, {"}"}))

Attributes(i) == {i} \cup ends(ends(token(i, {"/"}), LAMBDA j : token(j, Idents)), Attributes)
\* A list of names may end with a "," if no type follows
NamesAndType(i) == LET u == Idents1(i)
                   IN ends(u, LAMBDA j : optional(j, Types)) \cup ends(u, LAMBDA j : token(j, {","}))
Offsets(i) == ends(ends(token(i, {"..."}), Exprs), LAMBDA j : {j} \cup token(j, Idents))
Fields(i) == {i} \cup ends(ends(ends(NamesAndType(i), Attributes) \cup Offsets(i), Semis), Fields)

ValueSpecs(i) == ends(ends(ends(Idents1(i), LAMBDA j : token(j, {"="})), ExprLists), Semis)
TypeSpecs(i) ==
  ends(ends(token(i, Idents), Types), Semis)
  \cup ends(ends(ends(token(i, {"default"}), LAMBDA j : token(j, Idents)),
                 LAMBDA j : token(j, Idents) \cup Parens(j)), Semis)
ImportSpecs(i) == ends(ends({i} \cup token(i, Idents \cup {"."}), LAMBDA j : token(j, {"string"})), Semis)
OneSpec(i, keyword) == CASE keyword = "const" -> ValueSpecs(i)
                         [] keyword \in {"type", "func"} -> TypeSpecs(i)
                         [] keyword = "import" -> ImportSpecs(i)
Specs(i, keyword) == {i} \cup ends(OneSpec(i, keyword), LAMBDA j : Specs(j, keyword))
DeclEnds(i, keyword) ==
  LET from == token(i, {keyword})
  IN ends(from, LAMBDA j : OneSpec(j, keyword))
     \cup ends(ends(ends(ends(from, LAMBDA j : token(j, {"("})), LAMBDA j : Specs(j, keyword)),
                    LAMBDA j : token(j, {")"})), Semis)
RECURSIVE Bodies(_, _)
Bodies(i, keywords) ==
  {i} \cup ends(UNION {DeclEnds(i, k) : k \in keywords}, LAMBDA j : Bodies(j, keywords))

Files == LET heads == ends(ends(token(skip(1), {"package"}), LAMBDA i : token(i, Idents \ {"_"})), Semis)
         IN ends(ends(heads, LAMBDA i : Bodies(i, {"import"})),
                 LAMBDA i : Bodies(i, {"const", "type", "func"}))

\* The file, without its comments, is one of the language
Grammatical == Len(input) + 1 \in Files

-----------------------------------------------------------------------------
(* Properties *)

\* The parts of a node that are types or expressions, and all nodes of a tree
parts(x) == CASE x[1] \in {"unary", "paren", "offset"} -> {x[3]}
              [] x[1] \in {"binary", "array", "range"} -> {x[3], x[4]}
              [] x[1] = "struct" -> ToSet(x[3])
              [] x[1] = "const" -> ToSet(x[4])
              [] x[1] = "field" \/ (x[1] = "type" /\ ~x[5]) -> {x[4]}
              [] OTHER -> {}
RECURSIVE nodesOf(_)
nodesOf(x) == {x} \cup UNION {nodesOf(y) : y \in parts(x) \ {None}}
Nodes == UNION {nodesOf(x) : x \in ToSet(decls) \ {None}}

Once(idents) == \A j, k \in DOMAIN idents : j # k => NameOf(idents[j]) # NameOf(idents[k])
DeclaredIdents == FlattenSeq([k \in DOMAIN decls |-> decls[k][3]])
FieldIdents(x) ==
  FlattenSeq([k \in DOMAIN x[3] |-> IF x[3][k][1] = "field" THEN x[3][k][3] ELSE <<>>])

DistinctNames == Once(DeclaredIdents) /\ \A x \in Nodes : x[1] = "struct" => Once(FieldIdents(x))
AllDefined == \A x \in Nodes : IsIdent(x) => NameOf(x) \in names(DeclaredIdents) \cup UintNames \cup {"1"}

\* A file parses without an error if and only if it is one of the language, declares no
\* name twice in a scope, and uses only names that it declares, before or after the use.
\* No error is lost in the recovery from it, and none is made up (parseFile, main).
ParseFileExact ==
  phase = "done" =>
    (p.errors = <<>> <=> IF Grammatical THEN DistinctNames /\ AllDefined ELSE FALSE)

LevelOfNode(x) == IF x[1] = "binary" THEN LevelOf(At(x[2])) ELSE 6

\* In a tree of a file without errors operators bind by their levels, those of one level
\* to the left, and the operands stand on their sides of the operator (parseBinaryExpr).
TreesBind ==
  phase = "done" /\ p.errors = <<>> =>
    \A x \in Nodes : x[1] = "binary" =>
      /\ LevelOfNode(x[3]) >= LevelOfNode(x) /\ LevelOfNode(x[4]) > LevelOfNode(x)
      /\ \A y \in nodesOf(x[3]) : y[2] < x[2]
      /\ \A y \in nodesOf(x[4]) : y[2] > x[2]

Earlier(a, b) == \E k \in DOMAIN a : a[k] < b[k] /\ \A j \in 1 .. k - 1 : a[j] = b[j]

\* A declaration, with errors or not, brings the parser on or uses up one of the 10 times
\* that a sync need not: parsing ends (syncStmt and syncDecl).
ParseProgress ==
  /\ p.syncCnt <= 10
  /\ phase = "decls" /\ Tok(p) # "EOF" =>
       LET q == parseDecl(p)
       IN q.bailed \/ Earlier(<<p.pos, p.syncPos, p.syncCnt>>, <<q.pos, q.syncPos, q.syncCnt>>)
=============================================================================
