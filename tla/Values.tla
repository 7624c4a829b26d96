-------------------------------- MODULE Values --------------------------------
(***************************************************************************)
(* copy.c on values: how a thread copies the static members, constants,    *)
(* default values and literals of another one.  A value is a record with   *)
(* its type and what the type needs; a constant expression (an AST) is     *)
(* copied into one block, whose size is computed before.                   *)
(* The step copies one of the inputs; the properties compare what it gives *)
(* with what the input means.                                              *)
(***************************************************************************)
EXTENDS Naturals, Sequences, SequencesExt, FiniteSets

CONSTANTS
  Inputs,     \* the values that are copied
  NodeSize,   \* sizeof(zend_ast) - sizeof(zend_ast*)
  ListSize,   \* sizeof(zend_ast_list) - sizeof(zend_ast*)
  AstZvalSize,  \* sizeof(zend_ast_zval)
  ChildSize   \* sizeof(zend_ast*)

ASSUME AstSizesAssumption == {NodeSize, ListSize, AstZvalSize, ChildSize} \subseteq Nat \ {0}

VARIABLES
  source,     \* the value to copy
  copied      \* what copying gives, or Nothing before the copy is made

valueVars == <<source, copied>>

Nothing == [type |-> "nothing"]
Failure == [type |-> "failure"]
Null == [kind |-> "null"]

\* pthreads_copy_string: permanent strings are shared, others copied.
CopyString(s) == IF s.permanent THEN s ELSE [s EXCEPT !.owner = "thread"]

-----------------------------------------------------------------------------
(* Constant expressions.  A node has a kind (zval, constant, list or       *)
(* another one), and children, which may be NULL.                          *)

RECURSIVE TreeSize(_), Place(_, _), CopyZval(_)

\* zend_ast_size and zend_ast_list_size.
NodeOnlySize(ast) ==
  CASE ast.kind \in {"zval", "constant"} -> AstZvalSize
    [] ast.kind = "list" -> ListSize + ChildSize * Len(ast.child)
    [] OTHER -> NodeSize + ChildSize * Len(ast.child)

Children(ast) == IF ast.kind \in {"zval", "constant"} THEN <<>> ELSE ast.child

\* Mutant: a constant's node is taken for one without children.
TreeSizeForgets(ast) ==
  FoldLeft(LAMBDA size, c : IF c = Null THEN size ELSE size + TreeSize(c),
           IF ast.kind = "constant" THEN NodeSize ELSE NodeOnlySize(ast), Children(ast))

\* zend_ast_tree_size.
TreeSize(ast) ==
  FoldLeft(LAMBDA size, c : IF c = Null THEN size ELSE size + TreeSize(c),
           NodeOnlySize(ast), Children(ast))

\* A node in the block: where it is, its length, its kind, its value, the
\* addresses of its children (0 for NULL; blocks start at 1).
Header(ast, at, length) ==
  [at |-> at, length |-> length, kind |-> ast.kind,
   val |-> CASE ast.kind = "zval" -> CopyZval(ast.val)
             [] ast.kind = "constant" -> CopyString(ast.val)
             [] OTHER -> Failure,
   child |-> <<>>]

\* pthreads_copy_ast_tree: the nodes that are written and the end of them.
Place(ast, buf) ==
  LET next == buf + NodeOnlySize(ast)
      Child(done, c) ==
        IF c = Null THEN [done EXCEPT !.child = Append(@, 0)]
        ELSE LET sub == Place(c, done.buf)
             IN [buf |-> sub.buf, child |-> Append(done.child, done.buf),
                 nodes |-> done.nodes \cup sub.nodes]
      all == FoldLeft(Child, [buf |-> next, child |-> <<>>, nodes |-> {}], Children(ast))
  IN [buf |-> all.buf,
      nodes |-> all.nodes \cup {[Header(ast, buf, next - buf) EXCEPT !.child = all.child]}]

\* pthreads_copy_ast: the block that is allocated and what is put there.
CopyAst(ast) ==
  [type |-> "ast", size |-> TreeSize(ast),
   used |-> Place(ast, 1).buf - 1, nodes |-> Place(ast, 1).nodes]

-----------------------------------------------------------------------------
(* Values.                                                                 *)

\* zend_hash_update: the key keeps its place, or comes last.
Update(ht, key, val) ==
  IF \E i \in DOMAIN ht : ht[i].key = key
  THEN [i \in DOMAIN ht |-> IF ht[i].key = key THEN [key |-> key, val |-> val] ELSE ht[i]]
  ELSE Append(ht, [key |-> key, val |-> val])

\* Mutant: the copy ends at the first element that cannot be copied.
CopyHashStops(ht) ==
  LET bad == {i \in DOMAIN ht : CopyZval(ht[i].val) = Failure}
      good == IF bad = {} THEN ht
              ELSE SubSeq(ht, 1, (CHOOSE i \in bad : \A j \in bad : i <= j) - 1)
  IN FoldLeft(LAMBDA done, e : Update(done, e.key, CopyZval(e.val)), <<>>, good)

\* pthreads_copy_hash.
CopyHash(ht) ==
  FoldLeft(LAMBDA done, e : IF CopyZval(e.val) = Failure THEN done
                            ELSE Update(done, e.key, CopyZval(e.val)), <<>>, ht)

\* pthreads_copy_zval.
CopyZval(v) ==
  CASE v.type \in {"indirect", "reference"} -> CopyZval(v.val)
    [] v.type = "long" -> v
    [] v.type = "string" -> CopyString(v)
    [] v.type = "array" -> [v EXCEPT !.elements = CopyHash(@)]
    [] v.type = "threaded" -> [v EXCEPT !.owner = "thread"]
    [] v.type = "ast" -> CopyAst(v.tree)
    [] OTHER -> Failure

\* pthreads_copy_statics: opcodes know a static variable by its place in the
\* table, so one that cannot be copied becomes NULL.
CopyStatics(ht) ==
  [i \in DOMAIN ht |->
     [key |-> ht[i].key,
      val |-> IF CopyZval(ht[i].val) = Failure THEN [type |-> "null"]
              ELSE CopyZval(ht[i].val)]]

ValuesInit == source \in Inputs /\ copied = Nothing

Copy ==
  /\ copied = Nothing
  /\ copied' = IF source.type = "statics"
             THEN [source EXCEPT !.elements = CopyStatics(@)] ELSE CopyZval(source)
  /\ UNCHANGED source

ValuesNext == Copy
ValuesSpec == ValuesInit /\ [][ValuesNext]_valueVars

-----------------------------------------------------------------------------
(* What the input means.                                                   *)

RECURSIVE Meaning(_), Tree(_), ReadBack(_, _), Local(_)

\* The value without references, and without the elements that no thread but
\* the owner can have; a constant expression as a tree.
Meaning(v) ==
  CASE v.type \in {"indirect", "reference"} -> Meaning(v.val)
    [] v.type = "array" ->
         LET kept == SelectSeq(v.elements, LAMBDA e : Meaning(e.val).type # "failure")
         IN [type |-> "array",
             elements |-> [i \in DOMAIN kept |->
                             [key |-> kept[i].key, val |-> Meaning(kept[i].val)]]]
    [] v.type \in {"long", "string", "threaded"} -> [type |-> v.type, id |-> v.id]
    [] v.type = "ast" ->
         [type |-> "ast",
          tree |-> IF "nodes" \in DOMAIN v THEN ReadBack(v.nodes, 1) ELSE Tree(v.tree)]
    [] OTHER -> Failure

Tree(ast) ==
  IF ast = Null THEN Null
  ELSE [kind |-> ast.kind,
        val |-> IF ast.kind \in {"zval", "constant"}
                THEN Meaning(ast.val) ELSE Failure,
        child |-> [i \in DOMAIN Children(ast) |-> Tree(ast.child[i])]]

\* The tree at an address of the block.
ReadBack(nodes, at) ==
  IF at = 0 THEN Null
  ELSE LET n == CHOOSE x \in nodes : x.at = at IN
       [kind |-> n.kind, val |-> Meaning(n.val),
        child |-> [i \in DOMAIN n.child |-> ReadBack(nodes, n.child[i])]]

\* Nothing of the value is in the owner's memory.
Local(v) ==
  CASE v.type \in {"array", "statics"} -> \A i \in DOMAIN v.elements : Local(v.elements[i].val)
    [] v.type = "string" -> v.permanent \/ v.owner = "thread"
    [] v.type = "threaded" -> v.owner = "thread"
    [] v.type = "ast" -> \A n \in v.nodes : Local(n.val)
    [] OTHER -> TRUE

-----------------------------------------------------------------------------
(* Properties.                                                             *)

\* The block of a constant expression is as long as what is written to it, and
\* no two nodes overlap.
AstFits ==
  copied.type = "ast" =>
    /\ copied.used = copied.size
    /\ \A a, b \in copied.nodes : a # b => a.at + a.length <= b.at \/ b.at + b.length <= a.at

\* A copied value is the value without its references, with the elements of
\* arrays in their order, less those that cannot be copied; a constant
\* expression, read back out of its block, is the one that was copied.
SameMeaning ==
  copied # Nothing /\ source.type # "statics" => Meaning(copied) = Meaning(source)

\* The static variables of a copied function are at the places where its
\* opcodes look for them.
StaticsInPlace ==
  copied.type = "statics" =>
    /\ DOMAIN copied.elements = DOMAIN source.elements
    /\ \A i \in DOMAIN source.elements :
         LET c == copied.elements[i] e == source.elements[i] IN
         /\ c.key = e.key
         /\ IF Meaning(e.val) = Failure THEN c.val.type = "null"
            ELSE Meaning(c.val) = Meaning(e.val)

\* A thread's copy of a value means what the value means to its owner, keeps
\* static variables where opcodes expect them, and has nothing that dies with
\* the owner, except permanent strings, which do not die.
CopyRight ==
  /\ SameMeaning
  /\ StaticsInPlace
  /\ copied # Nothing => Local(copied)
=============================================================================
