-------------------------------- MODULE Dsl --------------------------------
(***************************************************************************)
(* The schema language (pkg/dsl) and what is built from it (internal/      *)
(* schema/schema.go): a text is a sequence of tokens, the parser walks it  *)
(* with a current and a peek token, the compiler turns statements into     *)
(* entity definitions, and String() writes statements back as tokens.      *)
(***************************************************************************)
EXTENDS Naturals, Sequences, SequencesExt, FiniteSets

USER == "user"

-----------------------------------------------------------------------------
(* Tokens *)

Keywords == {"entity", "relation", "action", "and", "or", "not"}
Delimiters == {"NL", "=", "@", "(", ")", "{", "}", ",", "#", ".", "EOF", "ILLEGAL", ""}
Ignores == {" ", "comment"}

\* NextToken: what the parser sees of a text.
Lex(text) == SelectSeq(text, LAMBDA token : token \notin Ignores)

IsIdent(token) == token \notin Keywords \cup Delimiters \cup Ignores

\* The token at a place; NewParser starts before the first one.
Tok(t, p) == IF p < 1 THEN "" ELSE IF p > Len(t) THEN "EOF" ELSE t[p]

-----------------------------------------------------------------------------
(* Expressions.  A result is the expression and the place of the current   *)
(* token, or an error.                                                     *)

Operators == {"and", "or"}

Identifier(idents, prefix) == [op |-> "", idents |-> idents, prefix |-> prefix]
InfixExpression(op, left, right) == [op |-> op, left |-> left, right |-> right]

Parsed(exp, pos) == [err |-> "", exp |-> exp, pos |-> pos]
ParseError(err) == [err |-> err, exp |-> <<>>, pos |-> 0]

RECURSIVE Walk(_, _, _, _)
\* After an identifier: every "." adds the token behind it, whatever it is.
Walk(t, p, idents, prefix) ==
    IF Tok(t, p + 1) = "." THEN Walk(t, p + 2, Append(idents, Tok(t, p + 2)), prefix)
    ELSE Parsed(Identifier(idents, prefix), p)

\* parseIdentifier and parsePrefixExpression
prefixParseFns(t, p) ==
    IF Tok(t, p) = "not" THEN Walk(t, p + 1, <<Tok(t, p + 1)>>, TRUE)
    ELSE IF IsIdent(Tok(t, p)) THEN Walk(t, p, <<Tok(t, p)>>, FALSE)
    ELSE ParseError("no prefix parse function")

RECURSIVE parseExpression(_, _, _)
RECURSIVE parseInnerParen(_, _)
RECURSIVE Infixes(_, _)
RECURSIVE InnerInfixes(_, _)

Joined(op, left, right) ==
    IF right.err # "" THEN right
    ELSE Parsed(InfixExpression(op, left.exp, right.exp), right.pos)

\* Mutant: the operands associate to the right.
parseInfixExpressionRight(t, left) ==
    Joined(Tok(t, left.pos + 1), left, parseExpression(t, left.pos + 2, "LOWEST"))

\* The right operand is an identifier, or all that parseInnerParen takes.
parseInfixExpression(t, left) ==
    Joined(Tok(t, left.pos + 1), left, parseExpression(t, left.pos + 2, "LOGIC"))

\* The loop of parseExpression at the lowest precedence.
Infixes(t, r) ==
    IF r.err # "" \/ Tok(t, r.pos + 1) \notin Operators THEN r
    ELSE Infixes(t, parseInfixExpression(t, r))

parseExpression(t, p, precedence) ==
    IF Tok(t, p) = "(" THEN parseInnerParen(t, p + 1)
    ELSE IF precedence = "LOGIC" THEN prefixParseFns(t, p)
    ELSE Infixes(t, prefixParseFns(t, p))

\* The loop of parseInnerParen: it steps over a closing parenthesis and goes
\* on with the operator behind it.
InnerInfixes(t, r) ==
    IF r.err # "" \/ Tok(t, r.pos) = ")" THEN r
    ELSE LET q == IF Tok(t, r.pos + 1) = ")" THEN [r EXCEPT !.pos = @ + 1] ELSE r
         IN IF Tok(t, q.pos + 1) \notin Operators THEN q
            ELSE InnerInfixes(t, parseInfixExpression(t, q))

parseInnerParen(t, p) ==
    IF Tok(t, p) = "(" THEN parseExpression(t, p, "LOWEST")
    ELSE InnerInfixes(t, prefixParseFns(t, p))

RECURSIVE SkipParens(_, _)
SkipParens(t, p) == IF Tok(t, p) = ")" THEN SkipParens(t, p + 1) ELSE p

Unbalanced(t, r) ==
    IF r.err = "" /\ Tok(t, r.pos + 1) = ")" THEN [r EXCEPT !.pos = SkipParens(t, @ + 1)] ELSE r

\* Closing parentheses that are left over are passed over.
parseExpressionStatement(t, p) == Unbalanced(t, parseExpression(t, p, "LOWEST"))

-----------------------------------------------------------------------------
(* Statements *)

RelationType(type, relation) == [type |-> type, relation |-> relation]
IsDirectEntityReference(ref) == ref.relation = ""

RECURSIVE RelationTypes(_, _, _)
RelationTypes(t, p, types) ==
    IF Tok(t, p + 1) # "@" THEN Parsed(types, p)
    ELSE IF ~IsIdent(Tok(t, p + 2)) THEN ParseError("expected IDENT")
    ELSE IF Tok(t, p + 3) # "#"
         THEN RelationTypes(t, p + 2, Append(types, RelationType(Tok(t, p + 2), "")))
    ELSE IF ~IsIdent(Tok(t, p + 4)) THEN ParseError("expected IDENT")
    ELSE RelationTypes(t, p + 4, Append(types, RelationType(Tok(t, p + 2), Tok(t, p + 4))))

\* setRelationReference and setActionReference: one name, one meaning.
Names(entity) == {entity.relations[i].name : i \in DOMAIN entity.relations}
                   \cup {entity.actions[i].name : i \in DOMAIN entity.actions}

WithRelation(entity, name, r) ==
    IF r.err # "" THEN r
    ELSE IF name \in Names(entity) THEN ParseError("ERROR_CODE_DUPLICATED_RELATION_REFERENCE")
    ELSE Parsed([entity EXCEPT !.relations = Append(@, [name |-> name, types |-> r.exp])], r.pos)

parseRelationStatement(t, p, entity) ==
    IF ~IsIdent(Tok(t, p + 1)) \/ Tok(t, p + 2) # "@" THEN ParseError("expected IDENT and SIGN")
    ELSE WithRelation(entity, Tok(t, p + 1), RelationTypes(t, p + 1, <<>>))

WithAction(entity, name, r) ==
    IF r.err # "" THEN r
    ELSE Parsed([entity EXCEPT !.actions = Append(@, [name |-> name, exp |-> r.exp])], r.pos)

parseActionStatement(t, p, entity) ==
    LET name == Tok(t, p + 1) IN
    IF ~IsIdent(name) THEN ParseError("expected IDENT")
    ELSE IF name \in Names(entity) THEN ParseError("ERROR_CODE_DUPLICATED_ACTION_REFERENCE")
    ELSE IF Tok(t, p + 2) # "=" THEN ParseError("expected ASSIGN")
    ELSE WithAction(entity, name, parseExpressionStatement(t, p + 3))

BodyStatement(t, r) ==
    CASE Tok(t, r.pos) = "relation" -> parseRelationStatement(t, r.pos, r.exp)
      [] Tok(t, r.pos) = "action" -> parseActionStatement(t, r.pos, r.exp)
      [] Tok(t, r.pos) \in {"NL", "{"} -> r
      [] OTHER -> ParseError("expected RELATION, ACTION or RBRACE")

RECURSIVE EntityBody(_, _)
\* The loop of parseEntityStatement; r holds the entity and the current place.
EntityBody(t, r) ==
    IF r.err # "" \/ Tok(t, r.pos) = "}" THEN r
    ELSE EntityBody(t, [BodyStatement(t, r) EXCEPT !.pos = @ + 1])

parseEntityStatement(t, p, statements) ==
    LET name == Tok(t, p + 1) IN
    IF ~IsIdent(name) THEN ParseError("expected IDENT")
    ELSE IF \E i \in DOMAIN statements : statements[i].name = name
         THEN ParseError("ERROR_CODE_DUPLICATED_ENTITY_REFERENCE")
    ELSE IF Tok(t, p + 2) # "{" THEN ParseError("expected LBRACE")
    ELSE EntityBody(t, Parsed([name |-> name, relations |-> <<>>, actions |-> <<>>], p + 2))

WithEntity(statements, r) == IF r.err # "" THEN r ELSE [r EXCEPT !.exp = Append(statements, @)]

\* What is not an entity statement is passed over.
parseStatement(t, r) ==
    IF Tok(t, r.pos) # "entity" THEN r
    ELSE WithEntity(r.exp, parseEntityStatement(t, r.pos, r.exp))

RECURSIVE Statements(_, _)
\* The loop of Parse; r holds the statements and the current place.
Statements(t, r) ==
    IF r.err # "" \/ Tok(t, r.pos) = "EOF" THEN r
    ELSE Statements(t, [parseStatement(t, r) EXCEPT !.pos = @ + 1])

Parse(text) == Statements(Lex(text), Parsed(<<>>, 0))

-----------------------------------------------------------------------------
(* String(): statements written back, every infix expression in parentheses *)

RECURSIVE ExpressionString(_)
\* Mutant: String() leaves out the parentheses.
ExpressionStringFlat(exp) ==
    IF exp.op # ""
    THEN ExpressionString(exp.left) \o <<exp.op>> \o ExpressionString(exp.right)
    ELSE (IF exp.prefix THEN <<"not">> ELSE <<>>)
            \o FoldLeft(LAMBDA s, ident : IF s = <<>> THEN <<ident>> ELSE s \o <<".", ident>>,
                        <<>>, exp.idents)

ExpressionString(exp) ==
    IF exp.op # ""
    THEN <<"(">> \o ExpressionString(exp.left) \o <<exp.op>> \o ExpressionString(exp.right) \o <<")">>
    ELSE (IF exp.prefix THEN <<"not">> ELSE <<>>)
            \o FoldLeft(LAMBDA s, ident : IF s = <<>> THEN <<ident>> ELSE s \o <<".", ident>>,
                        <<>>, exp.idents)

RelationString(relation) ==
    <<"relation", relation.name>>
        \o FlattenSeq([i \in DOMAIN relation.types |->
              LET ref == relation.types[i]
              IN <<"@", ref.type>> \o (IF ref.relation = "" THEN <<>> ELSE <<"#", ref.relation>>)])
        \o <<"NL">>

ActionString(action) == <<"action", action.name, "=">> \o ExpressionString(action.exp) \o <<"NL">>

EntityString(entity) ==
    <<"entity", entity.name, "{", "NL">>
        \o FlattenSeq([i \in DOMAIN entity.relations |-> RelationString(entity.relations[i])])
        \o <<"NL">>
        \o FlattenSeq([i \in DOMAIN entity.actions |-> ActionString(entity.actions[i])])
        \o <<"}", "NL">>

-----------------------------------------------------------------------------
(* The compiler *)

EntityNames(schema) == {schema[i].name : i \in DOMAIN schema}

RelationsOf(schema, type) ==
    UNION {Range(schema[i].relations) : i \in {j \in DOMAIN schema : schema[j].name = type}}

IsRelationReferenceExist(schema, type, name) ==
    \E r \in RelationsOf(schema, type) : r.name = name

IsRelationalReferenceExist(schema, type, name) ==
    \E i \in DOMAIN schema : schema[i].name = type /\ name \in Names(schema[i])

\* validateRelationTypeStatement for each reference, at most one of them direct.
Validate(schema) ==
    /\ USER \in EntityNames(schema)
    /\ \A type \in EntityNames(schema) : \A r \in RelationsOf(schema, type) :
          /\ \A ref \in Range(r.types) :
                /\ ref.type \in EntityNames(schema)
                /\ ~IsDirectEntityReference(ref) =>
                      IsRelationReferenceExist(schema, ref.type, ref.relation)
          /\ Cardinality({i \in DOMAIN r.types : IsDirectEntityReference(r.types[i])}) <= 1

\* The type "p.r" is looked up in: the direct reference of p, or user.
GetBaseEntityRelationTypeStatement(types) ==
    LET direct == SelectSeq(types, IsDirectEntityReference)
    IN IF direct = <<>> THEN USER ELSE direct[1].type

\* The messages of schema.pb.go: a child is a leaf or a rewrite of children.
Leaf(type, name, exclusion) == [type |-> type, name |-> name, exclusion |-> exclusion]

ComputedUserSet(relation, exclusion) == Leaf("computedUserSet", <<relation>>, exclusion)

TupleToUserSet(tupleSet, relation, exclusion) ==
    Leaf("tupleToUserSet", <<tupleSet, relation>>, exclusion)

Rewrite(op, left, right) == [type |-> op, children |-> <<left, right>>]

EntityDefinition(relations, actions) == [relations |-> relations, actions |-> actions]

\* Whether compileLeaf accepts an identifier of an entity type.
LeafDefined(schema, type, idents) ==
    IF Len(idents) = 1 THEN IsRelationalReferenceExist(schema, type, idents[1])
    ELSE \E r \in RelationsOf(schema, type) :
            /\ r.name = idents[1]
            /\ IsRelationalReferenceExist(schema, GetBaseEntityRelationTypeStatement(r.types),
                                          idents[2])

RECURSIVE Compilable(_, _, _, _)
Compilable(schema, type, exp, validation) ==
    IF exp.op # ""
    THEN /\ Compilable(schema, type, exp.left, validation)
         /\ Compilable(schema, type, exp.right, validation)
    ELSE Len(exp.idents) <= 2 /\ (validation => LeafDefined(schema, type, exp.idents))

compileLeaf(exp) ==
    IF Len(exp.idents) = 1 THEN ComputedUserSet(exp.idents[1], exp.prefix)
    ELSE TupleToUserSet(exp.idents[1], exp.idents[2], exp.prefix)

RECURSIVE compileChildren(_)
compileChildren(exp) ==
    IF exp.op = "" THEN compileLeaf(exp)
    ELSE Rewrite(IF exp.op = "or" THEN "union" ELSE "intersection",
                 compileChildren(exp.left), compileChildren(exp.right))

\* The definition of one entity: relations and actions by name.
compile(entity) ==
    EntityDefinition([n \in {r.name : r \in Range(entity.relations)} |->
                         (CHOOSE r \in Range(entity.relations) : r.name = n).types],
                     [n \in {a.name : a \in Range(entity.actions)} |->
                         compileChildren((CHOOSE a \in Range(entity.actions) : a.name = n).exp)])

Compiles(schema, validation) ==
    /\ validation => Validate(schema)
    /\ \A i \in DOMAIN schema : \A a \in Range(schema[i].actions) :
          Compilable(schema, schema[i].name, a.exp, validation)

Compile(schema) ==
    [n \in EntityNames(schema) |-> compile(CHOOSE e \in Range(schema) : e.name = n)]

-----------------------------------------------------------------------------
(* internal/schema/schema.go *)

NoSchema == [n \in {} |-> <<>>]
Failed(err) == [err |-> err, schema |-> NoSchema]

Compiled(validation, r) ==
    IF r.err # "" THEN Failed(r.err)
    ELSE IF ~Compiles(r.exp, validation) THEN Failed("ERROR_CODE_SCHEMA_COMPILE")
    ELSE [err |-> "", schema |-> Compile(r.exp)]

NewSchemaFromStringDefinitions(validation, definitions) ==
    Compiled(validation, Parse(FlattenSeq([i \in DOMAIN definitions |->
                                             definitions[i] \o <<"NL">>])))

-----------------------------------------------------------------------------
(* The evaluation of commands/lookupSchema.go.  The goroutines of a group  *)
(* answer in any order, but none of them can fail, so only the values count *)

RECURSIVE Lookup(_, _)
Lookup(child, names) ==
    CASE child.type = "union" -> \E i \in DOMAIN child.children : Lookup(child.children[i], names)
      [] child.type = "intersection" ->
            \A i \in DOMAIN child.children : Lookup(child.children[i], names)
      [] OTHER -> (child.name \in names) # child.exclusion

LookupActions(definition, names) ==
    {a \in DOMAIN definition.actions : Lookup(definition.actions[a], names)}
=============================================================================
