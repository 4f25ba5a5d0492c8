----------------------------- MODULE SafeArithmetic -----------------------------
(***************************************************************************)
(* The calculator of VISION's code_exec tool (vision/tools.ts): a shunting *)
(* yard over a list of tokens and a stack machine over its output.  A      *)
(* number is what it is, the value of an operation is the operation with   *)
(* its two operands: what is checked is which operands each one gets.      *)
(***************************************************************************)
EXTENDS Naturals, Sequences, FiniteSetsExt, SequencesExt

CONSTANTS
  Numbers,   \* the number tokens
  MaxTokens  \* bound: tokens of an expression

VARIABLE tokens   \* the expression, as the tokenizer has split it

Operators == {"+", "-", "*", "/"}
Undefined == <<"undefined">>

\* Which tokens may follow: the input grows as an infix expression does, an
\* operand or an opening bracket where one is due, else an operator or a closing
\* one.  Brackets may be left open, or be closed too often.
OperandDue == tokens = <<>> \/ Last(tokens) \in Operators \cup {"("}
ArithmeticInit == tokens = <<>>
ArithmeticNext ==
  /\ Len(tokens) < MaxTokens
  /\ \E t \in IF OperandDue THEN Numbers \cup {"("} ELSE Operators \cup {")"} :
       tokens' = Append(tokens, t)
ArithmeticSpec == ArithmeticInit /\ [][ArithmeticNext]_tokens

-----------------------------------------------------------------------------
(* The yard: the output so far, the operators that wait, and whether a     *)
(* closing bracket found no opening one.                                   *)

Prec(op) == IF op \in {"*", "/"} THEN 2 ELSE 1

\* The operators that a while loop pops: as many from the end as are in the set.
Popped(ops, passing) ==
  Max({n \in 0..Len(ops) : \A i \in (Len(ops) - n + 1)..Len(ops) : ops[i] \in passing})

\* Those that give way to a new operator.
GivesWayAbove(t) == {op \in Operators : Prec(op) > Prec(t)}   \* mutant of GivesWay: an equal one waits
GivesWay(t) == {op \in Operators : Prec(op) >= Prec(t)}

Moved(yard, n) ==
  [yard EXCEPT !.out = @ \o Reverse(SubSeq(yard.ops, Len(yard.ops) - n + 1, Len(yard.ops))),
               !.ops = SubSeq(@, 1, Len(@) - n)]

Shunt(yard, t) ==
  LET inner == Moved(yard, Popped(yard.ops, Operators))
      outer == Moved(yard, Popped(yard.ops, GivesWay(t)))
  IN IF yard.bad THEN yard
     ELSE CASE t \in Numbers -> [yard EXCEPT !.out = Append(@, t)]
       [] t = "(" -> [yard EXCEPT !.ops = Append(@, t)]
       [] t = ")" /\ inner.ops = <<>> -> [inner EXCEPT !.bad = TRUE]
       [] t = ")" /\ inner.ops # <<>> -> [inner EXCEPT !.ops = Front(@)]
       [] OTHER -> [outer EXCEPT !.ops = Append(@, t)]

Yard(input) ==
  LET end == FoldLeft(Shunt, [out |-> <<>>, ops |-> <<>>, bad |-> FALSE], input)
  IN [end EXCEPT !.out = @ \o Reverse(end.ops), !.bad = @ \/ "(" \in ToSet(end.ops)]

\* The stack machine: what is left on the stack below the result is ignored.
Compute(machine, t) ==
  LET s == machine.stack  k == Len(s)
  IN IF t \in Numbers
     THEN [machine EXCEPT !.stack = Append(@, <<t>>)]
     ELSE IF k < 2 THEN [machine EXCEPT !.bad = TRUE]
     ELSE [machine EXCEPT !.stack = Append(SubSeq(s, 1, k - 2), <<s[k - 1], t, s[k]>>)]

Result(input) ==
  LET yard == Yard(input)
      end == FoldLeft(Compute, [stack |-> <<>>, bad |-> FALSE], yard.out)
  IN IF yard.bad \/ end.bad \/ end.stack = <<>> THEN Undefined ELSE Last(end.stack)

-----------------------------------------------------------------------------
(* The grammar: a sum of terms, a term of factors, each from the left, a   *)
(* factor a number or a sum in brackets.  The readings of `s` as each.     *)

Tokens == Numbers \cup Operators \cup {"(", ")"}
Reading[s \in Seq(Tokens), as \in {"sum", "term", "factor"}] ==
  LET Joined(low, high, ops) ==
        UNION {{<<a, s[i], b>> : a \in Reading[SubSeq(s, 1, i - 1), low],
                                 b \in Reading[SubSeq(s, i + 1, Len(s)), high]} :
               i \in {j \in 2..(Len(s) - 1) : s[j] \in ops}}
  IN  CASE as = "sum" -> Reading[s, "term"] \cup Joined("sum", "term", {"+", "-"})
        [] as = "term" -> Reading[s, "factor"] \cup Joined("term", "factor", {"*", "/"})
        [] as = "factor" ->
             IF Len(s) = 1 /\ s[1] \in Numbers THEN {s}
             ELSE IF Len(s) > 2 /\ s[1] = "(" /\ Last(s) = ")" THEN Reading[Tail(Front(s)), "sum"]
             ELSE {}

\* An expression is computed as arithmetic reads it: with the precedence of `*`
\* and `/`, from the left among equals, brackets first; and one with a bracket
\* that does not match is refused.
ArithmeticIsInfix ==
  LET readings == Reading[tokens, "sum"]
  IN IF readings # {} THEN readings = {Result(tokens)}
     ELSE tokens = <<>> \/ Result(tokens) = Undefined
=============================================================================
