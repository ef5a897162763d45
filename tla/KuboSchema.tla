----------------------------- MODULE KuboSchema -----------------------------
(***************************************************************************)
(* The schemas of a package (src/internal/kuboschema) and the trees of     *)
(* values they describe, parameters or context.                            *)
(*                                                                         *)
(* A schema maps the path of each of its nodes to the node; a path is a    *)
(* sequence of property names, "[]" standing for the items of an array.    *)
(* A tree maps the path of each of its nodes, the root left out, to a map, *)
(* a list, a string, or the values of a connection; the item of a list is  *)
(* under its index.  A plain scalar is a string; contract, kind, title and *)
(* the limits of a node, and its own additionalProperties, are left out.   *)
(***************************************************************************)
EXTENDS Naturals, SequencesExt

TypeConnectionRef == "connectionRef"

\* The names made of digits only, and those that strconv.Atoi takes too.
Digits == {"0", "1"}
Signed == {"-1"}
Atoi(seg) == seg \in Digits \cup Signed

Map == [is |-> "map"]
List == [is |-> "list"]
Text(t) == [is |-> "string", text |-> t]
ValuesOf(v) == [is |-> "values", value |-> v]

Proper(p) == {SubSeq(p, 1, i) : i \in 1 .. (Len(p) - 1)}
NodeAt(tree, p) == IF p = <<>> THEN Map ELSE tree[p]

\* The path of the schema that describes the node at p of a tree.
Generic(tree, p) ==
  [i \in 1 .. Len(p) |-> IF NodeAt(tree, SubSeq(p, 1, i - 1)).is = "list" THEN "[]" ELSE p[i]]

----------------------------------------------------------------------------
(* Kubo2openAPI, which refuses or completes each node                      *)

Children(schema, p) == {q \in DOMAIN schema : Len(q) = Len(p) + 1 /\ SubSeq(q, 1, Len(p)) = p}
Items(p) == Append(p, "[]")

\* What a node has of its properties, items and default.
Attributes(schema, p) ==
  {a \in {"properties", "items", "default"} :
     CASE a = "properties" -> Children(schema, p) \ {Items(p)} # {}
       [] a = "items" -> Items(p) \in DOMAIN schema
       [] a = "default" -> schema[p].default # ""}

allowedPropertiesByTypes ==
  [object |-> {"properties"}, array |-> {"items"}, string |-> {"default"},
   connectionRef |-> {"default"}]

\* The type of a node, which its properties or its items give when it has none.
TypeOf(schema, p) ==
  CASE schema[p].type # "" -> schema[p].type
    [] schema[p].type = "" /\ "properties" \in Attributes(schema, p) -> "object"
    [] schema[p].type = "" /\ Attributes(schema, p) \cap {"properties", "items"} = {"items"} -> "array"
    [] OTHER -> "missing"

\* The default of a connectionRef is a template.
desugarConnectionRef(node, Templates) == node.default # "" => node.default \in Templates

handleNode(schema, Templates, p) ==
  LET type == TypeOf(schema, p)
      attributes == Attributes(schema, p)
  IN /\ type \in DOMAIN allowedPropertiesByTypes
     /\ attributes \subseteq allowedPropertiesByTypes[type]
     /\ type = "object" => "properties" \in attributes
     /\ type = "array" => "items" \in attributes
     /\ type = TypeConnectionRef => desugarConnectionRef(schema[p], Templates)

Kubo2openAPI(schema, Templates) == \A p \in DOMAIN schema : handleNode(schema, Templates, p)

\* The defaults of the leaves, an empty list for an array, and the maps that hold them.
\* Nothing is defaulted below an array.
Defaulter(schema) ==
  LET leaves == {p \in DOMAIN schema : /\ ~Contains(p, "[]")
                                       /\ \/ schema[p].default # ""
                                          \/ TypeOf(schema, p) = "array"}
      maps == UNION {Proper(p) : p \in leaves}
  IN [p \in leaves \cup maps |->
       IF p \in maps THEN Map
       ELSE IF schema[p].default # "" THEN Text(schema[p].default) ELSE List]

----------------------------------------------------------------------------
(* The connectionRef declarations, and the validation of a tree            *)

\* The node is required, as a property of the object around it: the flag of an item is dropped.
Required(schema, p) == schema[p].required /\ p # <<>> /\ Last(p) # "[]"

CollectConnectionDecls(schema) ==
  {[path |-> p, required |-> Required(schema, p), default |-> schema[p].default] :
     p \in {q \in DOMAIN schema : TypeOf(schema, q) = TypeConnectionRef}}

checkRefPathSegments(path) == \A i \in DOMAIN path : path[i] \notin Digits

\* What collectConnectionDecls accepts of a declaration.
DeclAccepted(decl, isContext) ==
  /\ decl.default # "" => ~isContext /\ ~Contains(decl.path, "[]")
  /\ checkRefPathSegments(decl.path)

\* The schema of the parameters admits no other property, that of the context does.
Validate(schema, tree, additional) ==
  /\ \A p \in DOMAIN tree :
       LET q == Generic(tree, p) IN
       IF q \in DOMAIN schema
       THEN tree[p].is = (CASE TypeOf(schema, q) = "object" -> "map"
                            [] TypeOf(schema, q) = "array" -> "list"
                            [] OTHER -> "string")
       ELSE additional
  /\ \A q \in {s \in DOMAIN schema : Required(schema, s)} :
       \A p \in DOMAIN tree \cup {<<>>} :
         Generic(tree, p) = Front(q) /\ NodeAt(tree, p).is = "map"
           => Append(p, Last(q)) \in DOMAIN tree
=============================================================================
