------------------------------ MODULE ExprValues ------------------------------
(***************************************************************************)
(* Values of scripts and what the single operators do with them: the       *)
(* primitives of internal/vm/vm.go and helpers.go that both the code of an *)
(* expression and its meaning are made of.  A value is a type and a        *)
(* payload: a number is an integer, a string a sequence of pieces (that    *)
(* concatenation puts together), an object or an array a place in the      *)
(* heap.  Objects have no prototype and no accessors here (see Dispatch),  *)
(* and primitives no properties.                                           *)
(***************************************************************************)
EXTENDS Integers, Sequences, SequencesExt, TLC

Undefined == <<"undefined", 0>>
Null == <<"null", 0>>
Number(n) == <<"number", n>>
Bool(b) == <<"boolean", IF b THEN 1 ELSE 0>>
String(s) == <<"string", s>>
FunctionVal(f) == <<"function", f>>
ObjectVal(i) == <<"object", i>>
ArrayVal(i) == <<"array", i>>

Type(v) == v[1]
Payload(v) == v[2]

Nullish(v) == Type(v) \in {"undefined", "null"}

AsNumber(v) == IF Type(v) \in {"number", "boolean"} THEN Payload(v) ELSE 0

Truthy(v) == CASE Nullish(v) -> FALSE
               [] Type(v) \in {"number", "boolean"} -> Payload(v) # 0
               [] Type(v) = "string" -> Payload(v) # <<>>
               [] OTHER -> TRUE

TypeofValue(v) == IF Type(v) \in {"null", "array"} THEN "object" ELSE Type(v)

(* Value.String, of primitives. *)
Text(v) == CASE Type(v) = "string" -> Payload(v)
             [] Type(v) = "number" -> <<ToString(Payload(v))>>
             [] Type(v) = "boolean" -> <<IF Truthy(v) THEN "true" ELSE "false">>
             [] Nullish(v) -> <<Type(v)>>

Digits == {"0", "1", "2"}
IndexOf(s) == CASE s = <<"0">> -> 0 [] s = <<"1">> -> 1 [] s = <<"2">> -> 2

Arithmetic(op, l, r) ==
  CASE op = "+" /\ "string" \in {Type(l), Type(r)} -> String(Text(l) \o Text(r))
    [] op = "+" -> Number(AsNumber(l) + AsNumber(r))
    [] op = "-" -> Number(AsNumber(l) - AsNumber(r))
    [] op = "*" -> Number(AsNumber(l) * AsNumber(r))

JsEqual(l, r, strict) == l = r \/ (~ strict /\ Nullish(l) /\ Nullish(r))

Compare(op, l, r) ==
  CASE op = "<" -> AsNumber(l) < AsNumber(r)
    [] op = "<=" -> AsNumber(l) <= AsNumber(r)
    [] op = ">" -> AsNumber(l) > AsNumber(r)
    [] op = ">=" -> AsNumber(l) >= AsNumber(r)
    [] op = "==" -> JsEqual(l, r, FALSE)
    [] op = "!=" -> ~ JsEqual(l, r, FALSE)
    [] op = "===" -> JsEqual(l, r, TRUE)
    [] op = "!==" -> ~ JsEqual(l, r, TRUE)

Binary(op, l, r) ==
  IF op \in {"+", "-", "*"} THEN Arithmetic(op, l, r) ELSE Bool(Compare(op, l, r))

Unary(op, v) ==
  CASE op = "-" -> Number(- AsNumber(v))
    [] op = "!" -> Bool(~ Truthy(v))
    [] op = "typeof" -> String(<<TypeofValue(v)>>)
    [] op = "void" -> Undefined

-----------------------------------------------------------------------------
(* The heap: objects keep the slots of deleted properties. *)

Cell(kind) == [kind |-> kind, props |-> <<>>, items |-> <<>>]

SlotsOf(cell, key) == {i \in DOMAIN cell.props : cell.props[i].key = key}
LiveSlots(cell, key) == {i \in SlotsOf(cell, key) : cell.props[i].live}

GetOwn(cell, key) ==
  IF LiveSlots(cell, key) = {} THEN Undefined
  ELSE cell.props[CHOOSE i \in LiveSlots(cell, key) : TRUE].val

SetOwn(cell, key, x) ==
  LET new == [key |-> key, val |-> x, live |-> TRUE]
  IN [cell EXCEPT !.props =
        IF SlotsOf(cell, key) = {} THEN Append(@, new)
        ELSE [i \in DOMAIN @ |-> IF @[i].key = key THEN new ELSE @[i]]]

DeleteOwn(cell, key) ==
  [cell EXCEPT !.props =
     [i \in DOMAIN @ |-> IF @[i].key = key THEN [@[i] EXCEPT !.live = FALSE] ELSE @[i]]]

LiveProps(cell) == SelectSeq(cell.props, LAMBDA p : p.live)

(* { ...source }: primitives and arrays have nothing to copy. *)
SpreadInto(heap, cell, v) ==
  IF Type(v) # "object" THEN cell
  ELSE FoldLeft(LAMBDA c, p : SetOwn(c, p.key, p.val), cell, LiveProps(heap[Payload(v)]))

Element(cell, i) == IF i + 1 \in DOMAIN cell.items THEN cell.items[i + 1] ELSE Undefined

SetElement(cell, i, x) ==
  [cell EXCEPT !.items = [k \in 1 .. (IF i < Len(@) THEN Len(@) ELSE i + 1) |->
     IF k = i + 1 THEN x ELSE IF k \in DOMAIN @ THEN @[k] ELSE Undefined]]

GetProp(heap, v, key) ==
  CASE Type(v) = "object" -> GetOwn(heap[Payload(v)], key)
    [] Type(v) = "array" /\ key = <<"length">> -> Number(Len(heap[Payload(v)].items))
    [] Type(v) = "array" /\ key = <<"slice">> -> FunctionVal("slice")
    [] OTHER -> Undefined

GetByVal(heap, v, key) ==
  CASE Type(v) = "array" /\ Type(key) = "number" -> Element(heap[Payload(v)], Payload(key))
    [] Type(v) = "array" /\ Text(key) \in {<<d>> : d \in Digits} ->
         Element(heap[Payload(v)], IndexOf(Text(key)))
    [] Type(v) \in {"array", "object"} -> GetProp(heap, v, Text(key))
    [] OTHER -> Undefined

(* A store: the heap after it, and whether it throws or fails. *)
Stores(heap, v, cell) == [heap |-> [heap EXCEPT ![Payload(v)] = cell], stop |-> ""]
Ignored(heap) == [heap |-> heap, stop |-> ""]
Raises(heap, what) == [heap |-> heap, stop |-> what]

SetProp(heap, v, key, x) ==
  CASE Type(v) = "object" -> Stores(heap, v, SetOwn(heap[Payload(v)], key, x))
    [] Nullish(v) -> Raises(heap, "thrown")
    [] OTHER -> Ignored(heap)

SetByVal(heap, v, key, x) ==
  CASE Type(v) = "array" /\ Type(key) = "number" ->
         Stores(heap, v, SetElement(heap[Payload(v)], Payload(key), x))
    [] Type(v) = "array" /\ Text(key) \in {<<d>> : d \in Digits} ->
         Stores(heap, v, SetElement(heap[Payload(v)], IndexOf(Text(key)), x))
    [] Type(v) = "array" -> Raises(heap, "failed")
    [] OTHER -> SetProp(heap, v, Text(key), x)

Delete(heap, v, key) ==
  IF Type(v) = "object" THEN Stores(heap, v, DeleteOwn(heap[Payload(v)], key)) ELSE Ignored(heap)

Deleted(heap, v, key) ==
  Bool(Type(v) = "object" => LiveSlots(heap[Payload(v)], key) # {})

-----------------------------------------------------------------------------
(* The functions scripts call: id returns its first argument, self its
   receiver, boom throws, C is a constructor that fills its receiver in, and
   slice is the one of arrays. *)

Natives == {"id", "self", "boom", "C", "slice"}

FirstOf(args) == IF args = <<>> THEN Undefined ELSE Head(args)

Returns(heap, v) == [heap |-> heap, val |-> v, stop |-> ""]

Apply(heap, f, this, args) ==
  CASE f = "id" -> Returns(heap, FirstOf(args))
    [] f = "self" -> Returns(heap, this)
    [] f = "boom" -> [heap |-> heap, val |-> Undefined, stop |-> "thrown"]
    [] f = "C" -> Returns(SetProp(heap, this, <<"a">>, FirstOf(args)).heap, Undefined)
    [] f = "slice" ->
         Returns(Append(heap, [Cell("array") EXCEPT !.items =
                   SubSeq(heap[Payload(this)].items, Payload(Head(args)) + 1,
                          Len(heap[Payload(this)].items))]),
                 ArrayVal(Len(heap) + 1))

(* What a script can tell of a call. *)
Logged(log, f, this, args) == IF f = "slice" THEN log ELSE Append(log, <<f, this, args>>)

ReturnTypes == {"object", "array", "function"}
IsConstructorReturn(v) == Type(v) \in ReturnTypes
=============================================================================
