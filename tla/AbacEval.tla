------------------------------ MODULE AbacEval ------------------------------
(***************************************************************************)
(* The evaluator of access policies (ockam_abac/src/eval.rs): a machine    *)
(* with a stack of operations and a stack of arguments, one step per turn  *)
(* of its loop, checked against the recursive meaning of policies.         *)
(***************************************************************************)
EXTENDS Naturals, Sequences, SequencesExt

CONSTANT Exprs  \* the policies to evaluate

-----------------------------------------------------------------------------
(* Expressions (expr.rs).  An expression is a pair of its kind and its     *)
(* content.  Strings and identifiers are numbers, ordered as numbers.      *)

Bool(b) == <<"Bool", b>>
Str(n) == <<"Str", n>>
Ident(x) == <<"Ident", x>>
List(xs) == <<"List", xs>>
Seqn(xs) == <<"Seq", xs>>
Unit == List(<<>>)

Kind(e) == e[1]
Content(e) == e[2]
Nested(e) == Kind(e) \in {"List", "Seq"}
Err(what) == <<"Err", what>>

Before(x, y) == IF Kind(x) = "Bool" THEN ~ Content(x) /\ Content(y) ELSE Content(x) < Content(y)

-----------------------------------------------------------------------------
(* equals and compare: a stack of pairs, the first pair on top.            *)

RECURSIVE EqualsLoop(_)
EqualsLoop(ctrl) ==
  IF ctrl = <<>> THEN Bool(TRUE)
  ELSE LET x == Head(ctrl)[1]  y == Head(ctrl)[2]
       IN IF Kind(x) # Kind(y) THEN Err("TypeMismatch")
          ELSE IF Nested(x)
            THEN IF Len(Content(x)) # Len(Content(y)) THEN Bool(FALSE)
                 ELSE EqualsLoop(Zip(Content(x), Content(y)) \o Tail(ctrl))
            ELSE IF Content(x) # Content(y) THEN Bool(FALSE) ELSE EqualsLoop(Tail(ctrl))
Equals(x, y) == EqualsLoop(<<<<x, y>>>>)

RECURSIVE CompareLoop(_, _)
CompareLoop(ctrl, result) ==
  IF ctrl = <<>> THEN result
  ELSE LET x == Head(ctrl)[1]  y == Head(ctrl)[2]
           m == Len(Content(x))  n == Len(Content(y))
       IN IF Kind(x) # Kind(y) THEN Err("TypeMismatch")
          ELSE IF Nested(x)
            THEN IF m = n THEN CompareLoop(Zip(Content(x), Content(y)) \o Tail(ctrl), <<"Equal">>)
                 ELSE IF m < n THEN <<"Less">> ELSE <<"Greater">>
            ELSE IF Content(x) = Content(y) THEN CompareLoop(Tail(ctrl), <<"Equal">>)
                 ELSE IF Before(x, y) THEN <<"Less">> ELSE <<"Greater">>

Compare(x, y) == CompareLoop(<<<<x, y>>>>, <<"None">>)

-----------------------------------------------------------------------------
(* The evaluator.                                                          *)

VARIABLES expr, ctrl, args, result
vars == <<expr, ctrl, args, result>>

Nothing == <<"Nothing", 0>>

\* The attributes of the subject: x is true, y is a string; nothing else is bound
Bound(id) == id \in {"x", "y"}
Get(id) == IF id = "x" THEN Bool(TRUE) ELSE Str(1)

Eval(e) == <<"Eval", e>>
Evals(xs) == [i \in 1 .. Len(xs) |-> Eval(xs[i])]
Init == /\ expr \in Exprs
        /\ ctrl = <<Eval(expr)>>
        /\ args = <<>>
        /\ result = Nothing

-----------------------------------------------------------------------------
(* The top of each stack is its first element.                             *)

Top == Head(ctrl)
Rest == Tail(ctrl)
Running(op) == result = Nothing /\ ctrl # <<>> /\ Top[1] = op
Value(v, cs) == args' = <<v>> \o args /\ ctrl' = cs /\ UNCHANGED <<expr, result>>
Fail(what) == result' = Err(what) /\ UNCHANGED <<expr, ctrl, args>>
Push(ops) == ctrl' = ops \o Rest /\ UNCHANGED <<expr, args, result>>

\* How many arguments an operator takes, at least and at most
Arity(op, n) == CASE op = "not" -> n = 1
                  [] op = "if" -> n = 3
                  [] op \in {"<", ">", "="} -> n >= 2
                  [] op = "member?" -> n = 2
                  [] OTHER -> TRUE

AndOr(op, xs) == IF xs = <<>> THEN Value(Bool(op = "and"), Rest)
                 ELSE Push(<<Eval(Head(xs)), <<op, Len(xs) - 1>>>> \o Evals(Tail(xs)))

Exists(xs) == LET bad == {i \in 1 .. Len(xs) : Kind(xs[i]) # "Ident"}
                  out == {i \in 1 .. Len(xs) : Kind(xs[i]) = "Ident" /\ ~ Bound(Content(xs[i]))}
              IN IF \E i \in bad : \A j \in out : i < j THEN Fail("InvalidType")
                 ELSE Value(Bool(out = {}), Rest)

EvalOperator(op, xs) ==
  IF ~ Arity(op, Len(xs)) THEN Fail("Malformed")
  ELSE CASE op \in {"and", "or"} -> AndOr(op, xs)
         [] op = "if" -> Push(<<Eval(xs[1]), <<"if", 0>>, Eval(xs[2]), Eval(xs[3])>>)
         [] op = "exists?" -> Exists(xs)
         [] op = "!=" -> Push(Evals(xs) \o <<<<"=", Len(xs)>>, <<"not", 1>>>>)
         [] op \in {"not", "<", ">", "=", "member?"} -> Push(Evals(xs) \o <<<<op, Len(xs)>>>>)
         [] OTHER -> Fail("Unknown")

EvalStep ==
  LET e == Top[2]  xs == Content(e)
  IN /\ Running("Eval")
     /\ CASE Kind(e) = "Ident" -> IF Bound(xs) THEN Push(<<Eval(Get(xs))>>) ELSE Fail("Unbound")
          [] Kind(e) = "List" -> IF xs = <<>> THEN Value(Unit, Rest)
                                 ELSE IF Kind(Head(xs)) = "Ident" THEN EvalOperator(Content(Head(xs)), Tail(xs))
                                 ELSE Fail("InvalidType")
          [] Kind(e) = "Seq" -> Push(Evals(xs) \o <<<<"Seq", Len(xs)>>>>)
          [] OTHER -> Value(e, Rest)

-----------------------------------------------------------------------------
(* The operations.  What is popped off an empty stack is Nothing.          *)

Pop(s) == IF s = <<>> THEN Nothing ELSE Head(s)
Popped(s, n) == SubSeq(s, n + 1, Len(s))

\* and, or: the operand decides, or the next one is evaluated
AndOrStep ==
  \E op \in {"and", "or"} :
    /\ Running(op)
    /\ LET n == Top[2]
           v == Pop(args)
           decides == Bool(op = "or")
       IN IF n = 0 THEN Push(<<>>)
          ELSE IF Kind(v) # "Bool" THEN Fail("InvalidType")
          ELSE IF v = decides
            THEN ctrl' = Popped(Rest, n) /\ UNCHANGED <<expr, args, result>>
            ELSE /\ ctrl' = <<Pop(Rest), <<op, n - 1>>>> \o Popped(Rest, 1)
                 /\ args' = Tail(args) /\ UNCHANGED <<expr, result>>

NotStep == /\ Running("not")
           /\ IF Kind(Pop(args)) # "Bool" THEN Fail("InvalidType")
              ELSE /\ args' = <<Bool(~ Content(Head(args)))>> \o Tail(args)
                   /\ ctrl' = Rest /\ UNCHANGED <<expr, result>>

IfStep == /\ Running("if")
          /\ IF Kind(Pop(args)) # "Bool" THEN Fail("InvalidType")
             ELSE /\ ctrl' = <<IF Content(Head(args)) THEN Rest[1] ELSE Rest[2]>> \o Popped(Rest, 2)
                  /\ args' = Tail(args) /\ UNCHANGED <<expr, result>>

\* f of two neighbours among the arguments
Test(op, x, y) == LET o == Compare(x, y)
                  IN IF op = "=" THEN Equals(x, y)
                     ELSE IF Kind(o) = "Err" THEN o
                     ELSE Bool(o = IF op = "<" THEN <<"Less">> ELSE <<"Greater">>)
Tests(op, xs) == LET pairs == Zip(xs, SubSeq(xs, 2, Len(xs)))
                 IN [i \in 1 .. Len(pairs) |-> Test(op, pairs[i][1], pairs[i][2])]
PredicateStep ==
  \E op \in {"=", "<", ">"} :
    /\ Running(op)
    /\ LET n == Top[2]
           xs == Reverse(SubSeq(args, 1, n))
           tests == Tests(op, xs)
           stop == SelectInSeq(tests, LAMBDA t : t # Bool(TRUE))
       IN IF stop # 0 /\ Kind(tests[stop]) = "Err" THEN Fail("TypeMismatch")
          ELSE /\ args' = <<Bool(stop = 0)>> \o Popped(args, n)
               /\ ctrl' = Rest /\ UNCHANGED <<expr, result>>

MemberStep ==
  /\ Running("member?")
  /\ LET s == Pop(args)
         y == Pop(Tail(args))
         tests == [i \in 1 .. Len(Content(s)) |-> Equals(y, Content(s)[i])]
         stop == SelectInSeq(tests, LAMBDA t : t # Bool(FALSE))
     IN IF Kind(s) # "Seq" THEN Fail("InvalidType")
        ELSE IF stop # 0 /\ Kind(tests[stop]) = "Err" THEN Fail("TypeMismatch")
        ELSE /\ args' = <<Bool(stop # 0)>> \o Popped(args, 2)
             /\ ctrl' = Rest /\ UNCHANGED <<expr, result>>

SeqStep == /\ Running("Seq")
           /\ args' = <<Seqn(Reverse(SubSeq(args, 1, Top[2])))>> \o Popped(args, Top[2])
           /\ ctrl' = Rest /\ UNCHANGED <<expr, result>>

Finish == /\ result = Nothing /\ ctrl = <<>>
          /\ result' = Pop(args) /\ UNCHANGED <<expr, ctrl, args>>

Next == EvalStep \/ AndOrStep \/ NotStep \/ IfStep \/ PredicateStep \/ MemberStep \/ SeqStep \/ Finish
Spec == Init /\ [][Next]_vars
FairSpec == Spec /\ WF_vars(Next)

-----------------------------------------------------------------------------
(* The meaning of a policy.                                                *)

RECURSIVE Meaning(_), Connective(_, _)
Connective(op, xs) ==
  IF xs = <<>> THEN Bool(op = "and")
  ELSE LET v == Meaning(Head(xs))
       IN IF Kind(v) = "Err" \/ Len(xs) = 1 THEN v
          ELSE IF Kind(v) # "Bool" THEN Err("InvalidType")
          ELSE IF v = Bool(op = "or") THEN v ELSE Connective(op, Tail(xs))

FirstErr(vs) == SelectInSeq(vs, LAMBDA v : Kind(v) = "Err")
Negated(v) == IF Kind(v) = "Err" THEN v ELSE IF Kind(v) = "Bool" THEN Bool(~ Content(v)) ELSE Err("InvalidType")
Chain(op, vs) == LET ts == Tests(op, vs)
                     k == SelectInSeq(ts, LAMBDA t : t # Bool(TRUE))
                 IN IF k = 0 THEN Bool(TRUE) ELSE ts[k]
Among(v, s) == LET ts == [i \in 1 .. Len(Content(s)) |-> Equals(v, Content(s)[i])]
                   k == SelectInSeq(ts, LAMBDA t : t # Bool(FALSE))
               IN IF Kind(s) # "Seq" THEN Err("InvalidType") ELSE IF k = 0 THEN Bool(FALSE) ELSE ts[k]

Meaning(e) ==
  CASE Kind(e) = "Ident" -> IF Bound(Content(e)) THEN Get(Content(e)) ELSE Err("Unbound")
    [] Kind(e) = "Seq" -> LET vs == [i \in 1 .. Len(Content(e)) |-> Meaning(Content(e)[i])]
                          IN IF FirstErr(vs) = 0 THEN Seqn(vs) ELSE vs[FirstErr(vs)]
    [] Kind(e) = "List" /\ Content(e) # <<>> ->
         IF Kind(Head(Content(e))) # "Ident" THEN Err("InvalidType")
         ELSE LET op == Content(Head(Content(e)))
                  xs == Tail(Content(e))
                  vs == [i \in 1 .. Len(xs) |-> Meaning(xs[i])]
              IN IF ~ Arity(op, Len(xs)) THEN Err("Malformed")
                 ELSE CASE op \in {"and", "or"} -> Connective(op, xs)
                        [] op = "if" -> IF Kind(vs[1]) = "Err" THEN vs[1]
                                        ELSE IF Kind(vs[1]) # "Bool" THEN Err("InvalidType")
                                        ELSE IF Content(vs[1]) THEN vs[2] ELSE vs[3]
                        [] op = "exists?" -> IF \A i \in 1 .. Len(xs) : Kind(xs[i]) = "Ident" /\ Bound(Content(xs[i]))
                                               THEN Bool(TRUE)
                                               ELSE LET k == SelectInSeq(xs, LAMBDA x : Kind(x) # "Ident" \/ ~ Bound(Content(x)))
                                                    IN IF Kind(xs[k]) = "Ident" THEN Bool(FALSE) ELSE Err("InvalidType")
                        [] op \in {"not", "!=", "=", "<", ">", "member?"} ->
                             IF FirstErr(vs) # 0 THEN vs[FirstErr(vs)]
                             ELSE CASE op = "not" -> Negated(vs[1])
                                    [] op = "!=" -> Negated(Chain("=", vs))
                                    [] op = "member?" -> Among(vs[1], vs[2])
                                    [] OTHER -> Chain(op, vs)
                        [] OTHER -> Err("Unknown")
    [] OTHER -> e

\* The machine computes the meaning of the policy, errors included: operands that
\* an 'and', an 'or' or an 'if' does not need are dropped unevaluated, however
\* deeply the operators nest, and operands are taken in order.
ComputesMeaning == result # Nothing => result = Meaning(expr)

\* What is left of args after the operations of the control stack, from the top;
\* Nothing if one of them would pop an empty stack.
RECURSIVE Depth(_, _)
Depth(cs, n) ==
  IF cs = <<>> THEN n
  ELSE LET op == Head(cs)[1]  k == Head(cs)[2]  rest == Tail(cs)
       IN CASE op = "Eval" -> Depth(rest, n + 1)
            [] op \in {"and", "or"} -> IF n = 0 \/ Len(rest) < k THEN 0 ELSE Depth(Popped(rest, k), n)
            [] op = "if" -> IF n = 0 \/ Len(rest) < 2 THEN 0 ELSE Depth(Popped(rest, 2), n)
            [] OTHER -> LET need == IF op = "member?" THEN 2 ELSE k
                        IN IF n < need THEN 0 ELSE Depth(rest, n - need + 1)

\* No operation finds its stack empty ("stack is not empty" is what pop expects),
\* and exactly one value is left at the end, as the debug assertion says.
StacksFit == result = Nothing => Depth(ctrl, Len(args)) = 1

\* Every policy is decided: evaluation ends.
HasResult == result # Nothing
Decided == <>HasResult
=============================================================================
