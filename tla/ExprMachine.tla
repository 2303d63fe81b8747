----------------------------- MODULE ExprMachine -----------------------------
(***************************************************************************)
(* Runtime.Eval of a source: it is parsed, compiled and run by the         *)
(* dispatch loop of internal/vm/vm.go, one instruction a step, over the    *)
(* operand stack, the variables and the heap.  No handler is in force, so  *)
(* an exception or a failure ends it.  Sources with statements this        *)
(* machine has no code for are only read.                                  *)
(***************************************************************************)
EXTENDS ExprMeaning, Parser

CONSTANTS Families,   \* sets of programs: source, tree, whether they run, meaning
          Globals,    \* the variables programs start with
          Objects     \* and the objects

VARIABLES prog, body, code, pc, stack, env, heap, log, outcome

vars == <<prog, body, code, pc, stack, env, heap, log, outcome>>

Instr == code[pc]

Init == /\ \E family \in Families : prog \in family
        /\ body = <<>> /\ code = <<>>
        /\ pc = 1 /\ stack = <<>>
        /\ env = Globals /\ heap = Objects
        /\ log = <<>> /\ outcome = "reading"

(* One statement: an expression, a declaration with a pattern, or the head of a
   loop. *)
Compiled(s) ==
  CASE s.kind = "expr" -> Compile(s.parts[1])
    [] s.kind = "declare" -> Compile(s)
    [] s.kind = "forOf" -> Compile(Node("forBind", "", SubSeq(s.parts, 1, 2)))

Eval ==
  /\ outcome = "reading"
  /\ \E r \in {Parse(prog.source)} :
       /\ body' = IF Failed(r) THEN <<>> ELSE r.node
       /\ IF Failed(r) \/ ~ prog.runs
          THEN outcome' = (IF Failed(r) THEN r.err ELSE "read") /\ UNCHANGED code
          ELSE outcome' = "running" /\ code' = Compiled(Head(r.node))
  /\ UNCHANGED <<prog, pc, stack, env, heap, log>>

(* The n-th value from the top of the stack; the stack without the top n. *)
Operand(n) == stack[Len(stack) - n]
Under(n) == SubSeq(stack, 1, Len(stack) - n)
Topmost(n) == SubSeq(stack, Len(stack) - n + 1, Len(stack))

At(op) == /\ outcome = "running" /\ pc <= Len(code) /\ Instr.op = op

Leaves(s) == stack' = s /\ pc' = pc + 1 /\ UNCHANGED <<prog, body, code, outcome>>

Quiet == UNCHANGED <<env, heap, log>>

Stops(what) == /\ outcome' = what
               /\ UNCHANGED <<prog, body, code, pc, stack, env, heap, log>>

-----------------------------------------------------------------------------
OpConst == At("const") /\ Leaves(Append(stack, Instr.value)) /\ Quiet

OpLoadThis == At("loadThis") /\ Leaves(Append(stack, Undefined)) /\ Quiet

OpLoad == At("load") /\ Leaves(Append(stack, Lookup(env, Instr.name))) /\ Quiet

OpStore == /\ At("store") /\ Leaves(Under(1))
           /\ env' = (Instr.name :> Operand(0)) @@ env
           /\ UNCHANGED <<heap, log>>

OpBinary == /\ At("binary") /\ Quiet
            /\ Leaves(Append(Under(2), Binary(Instr.name, Operand(1), Operand(0))))

OpUnary == /\ At("unary") /\ Quiet
           /\ Leaves(Append(Under(1), Unary(Instr.name, Operand(0))))

Goes(i, s) == stack' = s /\ pc' = i /\ UNCHANGED <<prog, body, code, outcome>>

OpJump == At("jump") /\ Quiet /\ Goes(Instr.arg, stack)

OpJumpIfFalse ==
  /\ At("jumpIfFalse") /\ Quiet
  /\ Goes(IF Truthy(Operand(0)) THEN pc + 1 ELSE Instr.arg, Under(1))

(* The jumps that leave the value they look at on the stack. *)
Peeks(op, jumps) ==
  At(op) /\ Quiet /\ Goes(IF jumps THEN Instr.arg ELSE pc + 1, stack)

OpJumpPeek == \/ Peeks("jumpIfFalsePeek", ~ Truthy(Operand(0)))
              \/ Peeks("jumpIfTruePeek", Truthy(Operand(0)))
              \/ Peeks("jumpIfNullishPeek", Nullish(Operand(0)))
              \/ Peeks("jumpIfNotNullishPeek", ~ Nullish(Operand(0)))

OpPop == At("pop") /\ Quiet /\ Leaves(Under(1))
OpDup == At("dup") /\ Quiet /\ Leaves(Append(stack, Operand(0)))
OpDup2 == At("dup2") /\ Quiet /\ Leaves(stack \o Topmost(2))
OpSwap == At("swap") /\ Quiet /\ Leaves(Under(2) \o <<Operand(0), Operand(1)>>)

-----------------------------------------------------------------------------
(* Arrays, objects and properties. *)

Changes(h) == heap' = h /\ UNCHANGED <<env, log>>

OpNewArray == /\ At("newArray") /\ Changes(Append(heap, Cell("array")))
              /\ Leaves(Append(stack, ArrayVal(Len(heap) + 1)))

OpNewObject == /\ At("newObject") /\ Changes(Append(heap, Cell("object")))
               /\ Leaves(Append(stack, ObjectVal(Len(heap) + 1)))

OpArrayPush ==
  /\ At("arrayPush") /\ Leaves(Under(1))
  /\ Changes([heap EXCEPT ![Payload(Operand(1))].items = Append(@, Operand(0))])

OpArraySpread ==
  /\ At("arraySpread")
  /\ IF Type(Operand(0)) = "array"
     THEN /\ Leaves(Under(1))
          /\ Changes([heap EXCEPT ![Payload(Operand(1))].items =
                        @ \o heap[Payload(Operand(0))].items])
     ELSE Stops("thrown")

OpObjectSpread ==
  /\ At("objectSpread") /\ Leaves(Under(1))
  /\ Changes([heap EXCEPT ![Payload(Operand(1))] = SpreadInto(heap, @, Operand(0))])

OpGetProp == /\ At("getProp") /\ Quiet
             /\ Leaves(Append(Under(1), GetProp(heap, Operand(0), <<Instr.name>>)))

OpGetByVal == /\ At("getByVal") /\ Quiet
              /\ Leaves(Append(Under(2), GetByVal(heap, Operand(1), Operand(0))))

(* The store r leaves the value stored on the stack. *)
Puts(r, s) == IF r.stop # "" THEN Stops(r.stop)
              ELSE Changes(r.heap) /\ Leaves(Append(s, Operand(0)))

OpSetProp == /\ At("setProp")
             /\ Puts(SetProp(heap, Operand(1), <<Instr.name>>, Operand(0)), Under(2))

OpSetByVal == /\ At("setByVal")
              /\ Puts(SetByVal(heap, Operand(2), Operand(1), Operand(0)), Under(3))

Deletes(v, key, s) == /\ Changes(Delete(heap, v, key).heap)
                      /\ Leaves(Append(s, Deleted(heap, v, key)))

OpDeleteProp == At("deleteProp") /\ Deletes(Operand(0), <<Instr.name>>, Under(1))
OpDeleteByVal == At("deleteByVal") /\ Deletes(Operand(1), Text(Operand(0)), Under(2))

-----------------------------------------------------------------------------
(* Calls of native functions.  s is the stack without the call; h the heap the
   function finds, r what it does. *)

Answers(r, f, this, args, v, s) ==
  /\ log' = Logged(log, Payload(f), this, args) /\ heap' = r.heap
  /\ UNCHANGED <<prog, body, code, env>>
  /\ IF r.stop # "" THEN outcome' = r.stop /\ UNCHANGED <<pc, stack>>
     ELSE stack' = Append(s, v) /\ pc' = pc + 1 /\ UNCHANGED outcome

DoCall(f, this, args, s) ==
  IF Type(f) # "function" THEN Stops("thrown")
  ELSE LET r == Apply(heap, Payload(f), this, args) IN Answers(r, f, this, args, r.val, s)

OpCall == At("call") /\ LET n == Instr.arg
                        IN DoCall(Operand(n), Undefined, Topmost(n), Under(n + 1))

OpCallMethod == At("callMethod") /\ LET n == Instr.arg
                                    IN DoCall(Operand(n), Operand(n + 1), Topmost(n), Under(n + 2))

OpCallApply == At("callApply") /\ DoCall(Operand(2), Operand(1), heap[Payload(Operand(0))].items,
                                         Under(3))

(* What the constructor returned replaces the object made for it when it is of
   one of the types. *)
Constructs(f, args, s, types) ==
  LET this == ObjectVal(Len(heap) + 1)
      r    == Apply(Append(heap, Cell("object")), Payload(f), this, args)
  IN IF Type(f) # "function" THEN Stops("thrown")
     ELSE Answers(r, f, this, args, IF Type(r.val) \in types THEN r.val ELSE this, s)

OpNew == At("new") /\ LET n == Instr.arg
                      IN Constructs(Operand(n), Topmost(n), Under(n + 1), ReturnTypes)

OpNewApply == At("newApply") /\ Constructs(Operand(1), heap[Payload(Operand(0))].items, Under(2),
                                           {"object"})

Finish == /\ outcome = "running" /\ pc = Len(code) + 1
          /\ outcome' = "done"
          /\ UNCHANGED <<prog, body, code, pc, stack, env, heap, log>>

Next ==
  \/ Eval
  \/ OpConst \/ OpLoadThis \/ OpLoad \/ OpStore \/ OpBinary \/ OpUnary
  \/ OpJump \/ OpJumpIfFalse \/ OpJumpPeek \/ OpPop \/ OpDup \/ OpDup2 \/ OpSwap
  \/ OpNewArray \/ OpNewObject \/ OpArrayPush \/ OpArraySpread \/ OpObjectSpread
  \/ OpGetProp \/ OpGetByVal \/ OpSetProp \/ OpSetByVal \/ OpDeleteProp \/ OpDeleteByVal
  \/ OpCall \/ OpCallMethod \/ OpCallApply \/ OpNew \/ OpNewApply \/ Finish

Spec == Init /\ [][Next]_vars
=============================================================================
