---------------------------- MODULE OrdinaryObjects ----------------------------
(***************************************************************************)
(* What property access promises scripts, with no word of slots, accessor  *)
(* tables, caches or orders of lookup: an object has at most one property  *)
(* of a name, data or accessor; an access goes to the nearest object of    *)
(* the chain that has the name; getters and setters hear of the object the *)
(* access was made on; a proxy asks its trap, and otherwise its target.    *)
(* A data property defined over an accessor of the same object leaves the  *)
(* accessor in charge, and delete does not reach accessors.                *)
(***************************************************************************)
EXTENDS Integers, Sequences

CONSTANTS Names, get, set, Functions, Nil, Undefined, Pending,
          NoProperty, NoFunction, NoProxy

VARIABLES props,   \* props[o][n]: NoProperty, a data or an accessor property
          proto,   \* the prototype of each object, or Nil
          proxy,   \* [target, handler] of a proxy, or NoProxy
          calls,   \* calls of script functions that have not returned
          answer   \* the last operation begun or ended, and what it gave

Has(o, n) == props[o][n] # NoProperty
IsData(p) == p # NoProperty /\ p.kind = "data"

(* up[k]: the object k prototypes above o. *)
Chain(o) ==
  LET up[k \in 0..Len(proto)] == IF k = 0 THEN o ELSE IF up[k - 1] = Nil THEN Nil ELSE proto[up[k - 1]]
  IN up

Nearest(o, n) ==
  LET chain == Chain(o)
      holding == {k \in DOMAIN chain : chain[k] # Nil /\ Has(chain[k], n)}
  IN IF holding = {} THEN NoProperty
     ELSE props[chain[CHOOSE k \in holding : \A j \in holding : k <= j]][n]

Asked(of) == answer'.of = of
Answers(of, v) == Asked(of) /\ answer'.is = v /\ UNCHANGED calls
Calls(of, fn, this, args) ==
  /\ Asked(of) /\ answer'.is = Pending
  /\ calls' = Append(calls, [of |-> of, fn |-> fn, this |-> this, args |-> args])
Keeps == UNCHANGED <<props, proto, proxy>>

Trap(o, name) ==
  IF proxy[o] = NoProxy THEN NoFunction
  ELSE LET p == props[proxy[o].handler][name]
       IN IF IsData(p) /\ p.val \in Functions THEN p.val ELSE NoFunction
TargetOf(o) == IF proxy[o] = NoProxy THEN o ELSE proxy[o].target

Get(o, n) ==
  LET of == <<"get", o, n>>  p == Nearest(TargetOf(o), n)
  IN /\ Asked(of) /\ Keeps
     /\ \/ Trap(o, get) # NoFunction
           /\ Calls(of, Trap(o, get), proxy[o].handler, <<proxy[o].target, n, o>>)
        \/ /\ Trap(o, get) = NoFunction
           /\ \/ p = NoProperty /\ Answers(of, Undefined)
              \/ IsData(p) /\ Answers(of, p.val)
              \/ /\ p # NoProperty /\ ~IsData(p)
                 /\ IF p.get = NoFunction THEN Answers(of, Undefined)
                    ELSE Calls(of, p.get, TargetOf(o), <<>>)

Becomes(o, n, p) == props' = [props EXCEPT ![o][n] = p] /\ UNCHANGED <<proto, proxy>>
Data(v) == [kind |-> "data", val |-> v]

(* A data property is written where an accessor does not hold the name. *)
Defines(o, n, v) == IF Has(o, n) /\ ~IsData(props[o][n]) THEN Keeps ELSE Becomes(o, n, Data(v))

Set(o, n, v) ==
  LET of == <<"set", o, n, v>>  p == Nearest(TargetOf(o), n)
  IN /\ Asked(of)
     /\ \/ Trap(o, set) # NoFunction
           /\ Keeps /\ Calls(of, Trap(o, set), proxy[o].handler, <<proxy[o].target, n, v, o>>)
        \/ /\ Trap(o, set) = NoFunction
           /\ \/ (p = NoProperty \/ IsData(p)) /\ Answers(of, v) /\ Becomes(TargetOf(o), n, Data(v))
              \/ /\ p # NoProperty /\ ~IsData(p) /\ Keeps
                 /\ IF p.set = NoFunction THEN Answers(of, v) ELSE Calls(of, p.set, TargetOf(o), <<v>>)

Define(o, n, v) == Answers(<<"define", o, n, v>>, o) /\ Defines(o, n, v)

Half(o, n, half) == IF Has(o, n) /\ ~IsData(props[o][n]) THEN props[o][n][half] ELSE NoFunction
Accessor(g, s) == [kind |-> "accessor", get |-> g, set |-> s]

DefineGetter(o, n, f) == /\ Answers(<<"getter", o, n, f>>, o)
                         /\ Becomes(o, n, Accessor(f, Half(o, n, "set")))
DefineSetter(o, n, f) == /\ Answers(<<"setter", o, n, f>>, o)
                         /\ Becomes(o, n, Accessor(Half(o, n, "get"), f))
DefineAccessor(o, n, g, s) == Answers(<<"accessor", o, n, g, s>>, o) /\ Becomes(o, n, Accessor(g, s))

(* It tells whether there was a data property to take away. *)
Delete(o, n) == /\ Answers(<<"delete", o, n>>, IsData(props[o][n]))
                /\ IF IsData(props[o][n]) THEN Becomes(o, n, NoProperty) ELSE Keeps

In(o, n) == Answers(<<"in", o, n>>, IsData(props[o][n])) /\ Keeps   \* own data only

Entries(o) ==
  /\ Answers(<<"entries", o>>, [n \in {m \in Names : IsData(props[o][m])} |-> props[o][n].val])
  /\ Keeps

(* A name in brackets: what it answers is promised where no accessor is in charge. *)
GetByVal(o, n) == /\ Asked(<<"getByVal", o, n>>) /\ Keeps /\ UNCHANGED calls
                  /\ Nearest(o, n) = NoProperty => answer'.is = Undefined
                  /\ IsData(Nearest(o, n)) => answer'.is = Nearest(o, n).val
SetByVal(o, n, v) == Answers(<<"setByVal", o, n, v>>, v) /\ Defines(o, n, v)

SetPrototypeOf(o, p) == /\ Answers(<<"setProto", o, p>>, o)
                        /\ proto' = [proto EXCEPT ![o] = p] /\ UNCHANGED <<props, proxy>>

(* Object.assign: every own data property of s is defined on o. *)
Assign(o, s) ==
  /\ Answers(<<"assign", o, s>>, o)
  /\ props' = [props EXCEPT ![o] = [n \in Names |->
                 IF IsData(props[s][n]) /\ (Has(o, n) => IsData(props[o][n]))
                   THEN props[s][n] ELSE props[o][n]]]
  /\ UNCHANGED <<proto, proxy>>

(* Objects are born with the next numbers; what is asked of them is in their
   first state. *)
Birth ==
  /\ Len(props') > Len(props)
  /\ SubSeq(props', 1, Len(props)) = props
  /\ SubSeq(proto', 1, Len(props)) = proto /\ SubSeq(proxy', 1, Len(props)) = proxy
  /\ \/ answer'.of[1] \in {"create", "proxy", "spread", "view", "slice", "fget"} /\ UNCHANGED calls
     \/ answer'.of[1] \in {"new", "construct"} /\ Len(calls') = Len(calls) + 1

(* Operations whose answers are no matter of properties: functions, elements of
   views, instanceof and the returns of calls to constructors. *)
Elsewhere ==
  /\ answer'.of[1] \in {"fget", "fset", "instanceof", "element", "elements"}
  /\ Keeps

Returns ==
  /\ calls # <<>> /\ Keeps
  /\ calls' = SubSeq(calls, 1, Len(calls) - 1)
  /\ LET of == calls[Len(calls)].of
     IN answer'.of = of /\ (of[1] = "set" => answer'.is = of[4])

Throws ==
  /\ calls # <<>> /\ Keeps
  /\ \E k \in 0..(Len(calls) - 1) : calls' = SubSeq(calls, 1, k)
  /\ answer'.of = <<"throw">>

Next ==
  \/ \E o \in DOMAIN props, n \in Names :
       \/ Get(o, n) \/ Delete(o, n) \/ In(o, n) \/ GetByVal(o, n)
       \/ \E v \in {answer'.of[Len(answer'.of)]} :
            Set(o, n, v) \/ Define(o, n, v) \/ SetByVal(o, n, v)
       \/ \E f \in Functions : DefineGetter(o, n, f) \/ DefineSetter(o, n, f)
       \/ \E g, s \in Functions \cup {NoFunction} : DefineAccessor(o, n, g, s)
  \/ \E o, s \in DOMAIN props : Assign(o, s) \/ SetPrototypeOf(o, s)
  \/ \E o \in DOMAIN props : SetPrototypeOf(o, Nil) \/ Entries(o)
  \/ Birth \/ Elsewhere \/ Returns \/ Throws
=============================================================================
