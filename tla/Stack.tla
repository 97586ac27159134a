--------------------------------- MODULE Stack ---------------------------------
(***************************************************************************)
(* utils/stack.c: an array of pointers that doubles when it is full, kept  *)
(* here as the objects in it and the number of slots that were asked for.  *)
(* uppermostObject is Len(stack.objects) - 1.                              *)
(***************************************************************************)
EXTENDS Naturals, Sequences

StackCreate == [objects |-> <<>>, slots |-> 2]

IsEmptyStack(stack) == stack.objects = <<>>

\* When StackPush doubles the array.  Its index is compared, not its number of objects,
\* so there is already one object more than there are slots.
Full(stack) == Len(stack.objects) = stack.slots + 1

StackPush(stack, object) ==
  [objects |-> Append(stack.objects, object),
   slots   |-> IF Full(stack) THEN 2 * stack.slots ELSE stack.slots]

Top(stack) == stack.objects[Len(stack.objects)]

StackPop(stack) == [stack EXCEPT !.objects = SubSeq(@, 1, Len(@) - 1)]

================================================================================
