------------------------------ MODULE MCComposer ------------------------------
(* One metric and the calls on it: a list of three that holds a value twice, and
   targets that are the result of a function on another one. *)
EXTENDS Composer

CONSTANT m1

MCMetrics == {m1}
MCMaxTokens == <<13, 8, 9>>

(* The scanner of removeOuterCall() finds the arguments of a call, whichever they are, as
   long as nothing in them is quoted. *)
Patterns == {<<"{", m1, ",", m1, "}">>}
Unquoted == Typed \cup Patterns \cup {Call(<<t, u>>) : t \in Typed \cup Patterns, u \in Typed \cup {<<"-5">>}}
ASSUME ArgumentsFound ==
  \A ts \in BoundedSeq(Unquoted, 2) \ {<<>>} :
    /\ ~Malformed(ArgString(Call(ts)))
    /\ Pieces(ArgString(Call(ts))) = ts
================================================================================
